---------------------------- MODULE StoreContract ----------------------------
(***************************************************************************)
(* What a storage back end promises the services: ports.PostRepository and *)
(* ports.CommentRepository without locks, indexes, statements or errors.   *)
(* One step is one successful write; what is stored changes in no other    *)
(* way.                                                                    *)
(*                                                                         *)
(* The two back ends do not promise the same.  PostgreSQL never stores a   *)
(* comment without its post (PostRequired); the in-memory store never      *)
(* stores a reply to a comment that is soft-deleted at that moment         *)
(* (LiveParentRequired).  Each is shown to implement this module with its  *)
(* own values of the two constants.                                        *)
(***************************************************************************)
CONSTANTS
  PostIDs,
  CommentIDs,
  AuthorIDs,
  NoParent,            \* a nil ParentID
  Absent,              \* nothing is stored under an id
  PostRequired,        \* a comment is stored only on a stored post
  LiveParentRequired   \* a reply is stored only under a comment not deleted

StoredPost == [authorID : AuthorIDs, commentsEnabled : BOOLEAN]

StoredComment == [postID   : PostIDs,
                  parentID : CommentIDs \cup {NoParent},
                  authorID : AuthorIDs,
                  deleted  : BOOLEAN]

VARIABLES
  posts,
  comments

contractVars == <<posts, comments>>

Init ==
  /\ posts = [p \in PostIDs |-> Absent]
  /\ comments = [c \in CommentIDs |-> Absent]

CreatePost(p, post) ==
  /\ posts[p] = Absent
  /\ posts' = [posts EXCEPT ![p] = post]
  /\ UNCHANGED comments

SetCommentsEnabled(p, enabled) ==
  /\ posts[p] # Absent
  /\ posts' = [posts EXCEPT ![p].commentsEnabled = enabled]
  /\ UNCHANGED comments

\* The post goes with exactly the comments that are stored on it.
DeletePost(p) ==
  /\ posts[p] # Absent
  /\ posts' = [posts EXCEPT ![p] = Absent]
  /\ comments' = [c \in CommentIDs |->
                    IF comments[c] # Absent /\ comments[c].postID = p
                    THEN Absent ELSE comments[c]]

\* A parent is stored, under the same post.
ParentFits(comment) ==
  comment.parentID # NoParent =>
    /\ comments[comment.parentID] # Absent
    /\ comments[comment.parentID].postID = comment.postID
    /\ LiveParentRequired => ~ comments[comment.parentID].deleted

CreateComment(c, comment) ==
  /\ comments[c] = Absent
  /\ ~ comment.deleted
  /\ PostRequired => posts[comment.postID] # Absent
  /\ ParentFits(comment)
  /\ comments' = [comments EXCEPT ![c] = comment]
  /\ UNCHANGED posts

\* A soft delete: the comment keeps its place, and is never restored.
DeleteComment(c) ==
  /\ comments[c] # Absent
  /\ comments' = [comments EXCEPT ![c].deleted = TRUE]
  /\ UNCHANGED posts

Next ==
  \/ \E p \in PostIDs, post \in StoredPost : CreatePost(p, post)
  \/ \E p \in PostIDs, e \in BOOLEAN : SetCommentsEnabled(p, e)
  \/ \E p \in PostIDs : DeletePost(p)
  \/ \E c \in CommentIDs, comment \in StoredComment : CreateComment(c, comment)
  \/ \E c \in CommentIDs : DeleteComment(c)

Spec == Init /\ [][Next]_contractVars

(***************************************************************************)
(* What follows for whatever implements it.                                *)
(***************************************************************************)

\* A stored reply has its parent stored, under the same post.
ParentsAreStored ==
  \A c \in CommentIDs :
    comments[c] # Absent /\ comments[c].parentID # NoParent =>
      /\ comments[comments[c].parentID] # Absent
      /\ comments[comments[c].parentID].postID = comments[c].postID

\* Where the post is required, no stored comment is ever without its post.
PostsAreStored ==
  PostRequired =>
    \A c \in CommentIDs : comments[c] # Absent => posts[comments[c].postID] # Absent
==============================================================================
