----------------------------- MODULE MCLifecycle -----------------------------
(* Instance of Lifecycle for TLC: two comments on one post.                *)
EXTENDS Lifecycle, TLC

CONSTANTS p1, c1, c2, s1, s2

OnePost == [c \in Comments |-> p1]
==============================================================================
