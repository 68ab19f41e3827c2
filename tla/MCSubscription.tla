---------------------------- MODULE MCSubscription ----------------------------
(***************************************************************************)
(* TLC instances of Subscription: one post, its id with and without spaces *)
(* around it.                                                              *)
(***************************************************************************)
EXTENDS Subscription, TLC

CONSTANTS p1, p1spaced, c1, c2, c3, s1

OnePost == [c \in Comments |-> p1]
Spellings == [p \in Posts |-> p1]
==============================================================================
