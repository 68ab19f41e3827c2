------------------------------- MODULE MCBroker -------------------------------
(***************************************************************************)
(* TLC instances of Broker.  The post of a comment is given by a           *)
(* definition, since a cfg cannot write a function.                        *)
(***************************************************************************)
EXTENDS Broker, TLC

CONSTANTS p1, c1, c2, s1, s2

\* All comments on one post
OnePost == [c \in Comments |-> p1]
==============================================================================
