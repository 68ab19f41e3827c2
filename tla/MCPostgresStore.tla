---------------------------- MODULE MCPostgresStore ----------------------------
(* Small instances of PostgresStore. *)
EXTENDS PostgresStore

CONSTANTS p1, c1, c2, ann, bob, k1, k2
==============================================================================
