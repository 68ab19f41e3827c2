------------------------------ MODULE MCPaging ------------------------------
(* Instance of Paging for TLC. *)
EXTENDS Paging

CONSTANTS ann, r1   \* an author, a client

\* The comments of a post and the replies of its first comment
SomeThreads == {[postID |-> 1, parentID |-> NoParent], [postID |-> 1, parentID |-> 1]}
==============================================================================
