--------------------------- MODULE MCCommentService ---------------------------
(***************************************************************************)
(* TLC instances of CommentService.  Requests are interchangeable, and so  *)
(* are authors.                                                            *)
(***************************************************************************)
EXTENDS CommentService, TLC

CONSTANTS ann, bob, r1, r2, r3

Symmetry == Permutations(Clients) \cup Permutations(AuthorIDs)
==============================================================================
