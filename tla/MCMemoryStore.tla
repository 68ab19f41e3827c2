---------------------------- MODULE MCMemoryStore ----------------------------
(***************************************************************************)
(* TLC instance of MemoryStore, and of PostgresPages over its states.      *)
(*                                                                         *)
(* To keep it small one author writes (the other one only tries to delete  *)
(* and to close), and the second post is of the first instant: it is as    *)
(* old as the first post or older.                                         *)
(***************************************************************************)
EXTENDS PostgresPages

CONSTANTS ann, bob

SmallStep ==
  \/ \E id \in CommentIDs, c \in Comment :
       c.authorID = ann /\ ~ c.deleted /\ CreateComment(id, c)
  \/ \E id \in CommentIDs, a \in AuthorIDs : DeleteComment(id, a)
  \/ \E id \in PostIDs, p \in Post :
       p.authorID = ann /\ (id = 2 => p.createdAt = 1) /\ CreatePost(id, p)
  \/ \E id \in PostIDs, a \in AuthorIDs, e \in BOOLEAN : SetCommentsEnabled(id, a, e)
  \/ \E id \in PostIDs, a \in AuthorIDs : DeletePost(id, a)

SmallSpec == Init /\ [][SmallStep]_storeVars

\* Requests for the root thread of a post and for the replies of a comment, with
\* and without a limit and a cursor
Requests ==
  [key    : {[postID |-> 1, parentID |-> NoParent], [postID |-> 1, parentID |-> 1]},
   limit  : {1, 2},
   cursor : {NoCursor, [createdAt |-> 1, id |-> 2]}]

NoLimit == [key |-> [postID |-> 1, parentID |-> NoParent], limit |-> 0, cursor |-> NoCursor]

\* Pairs with a request without a limit between them, which the query leaves out
SomeBatches == {<<a, NoLimit, b>> : a \in Requests, b \in {r \in Requests : r.cursor = NoCursor}}

SomeBodies == BoundedSeq(Characters \ {Ellipsis}, PostExcerptLength + 2)
==============================================================================
