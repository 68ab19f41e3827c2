---------------------------- MODULE CommentService ----------------------------
(***************************************************************************)
(* The application services (internal/app) over the in-memory store, as    *)
(* concurrent requests see them.                                           *)
(*                                                                         *)
(* A repository call is atomic, a service call is not: AddComment reads    *)
(* the post in one critical section and stores the comment in another, and *)
(* SetCommentsEnabled writes the flag and reads the post back.  Between    *)
(* two steps of one request any other request may run.  Each client has at *)
(* most one request in flight; DeletePost, DeleteComment and CreatePost    *)
(* make one repository call each, so here they are the store's actions.    *)
(*                                                                         *)
(* Trimming and length checks reject a request before it touches the       *)
(* store; the inputs here are those that pass.  Ids come from              *)
(* uuid.NewString(), so an id is never handed out twice and a client can   *)
(* name a comment or a post only once it has been stored.                  *)
(***************************************************************************)
EXTENDS MemoryStore

CONSTANT Clients   \* the requests that can be in flight together

\* There is one goroutine for each.
ASSUME ClientsAreFinite == IsFiniteSet(Clients)

VARIABLES
  calls,           \* what each client's request does next
  usedPostIDs,     \* post ids handed out so far
  usedCommentIDs,  \* comment ids that have been stored so far
  lateComments     \* history: comments stored on a post since it was last
                   \* closed for comments

serviceVars == <<posts, comments, commentsByParent,
                 calls, usedPostIDs, usedCommentIDs, lateComments>>

Idle == [pc |-> "idle"]

\* AddComment behind its check of the post (pc "create") and behind the
\* insertion (pc "publish")
AddCall == [pc : {"create"}, postID : PostIDs,
            parentID : CommentIDs \cup {NoParent}, authorID : AuthorIDs]
PublishCall == [pc : {"publish"}, id : CommentIDs]

\* SetCommentsEnabled between its update and its read; "overwritten" remembers
\* that another request set the flag or removed the post in between
RereadCall == [pc : {"reread"}, postID : PostIDs, enabled : BOOLEAN, overwritten : BOOLEAN]

ServiceTypeOK ==
  /\ calls \in [Clients -> {Idle} \cup AddCall \cup PublishCall \cup RereadCall]
  /\ usedPostIDs \subseteq PostIDs
  /\ usedCommentIDs \subseteq CommentIDs
  /\ lateComments \in [PostIDs -> SUBSET CommentIDs]

ServiceInit ==
  /\ Init
  /\ calls = [k \in Clients |-> Idle]
  /\ usedPostIDs = {}
  /\ usedCommentIDs = {}
  /\ lateComments = [p \in PostIDs |-> {}]

(***************************************************************************)
(* AddComment.                                                             *)
(***************************************************************************)

\* Seeded fault: the flag is not looked at.
AddCommentCheckAnyPost(k, p, parent, a) ==
  /\ calls[k] = Idle
  /\ posts[p] # Absent
  /\ calls' = [calls EXCEPT ![k] = [pc |-> "create", postID |-> p,
                                    parentID |-> parent, authorID |-> a]]
  /\ UNCHANGED <<posts, comments, commentsByParent,
                 usedPostIDs, usedCommentIDs, lateComments>>

\* The post exists and takes comments; otherwise the request ends with
\* ErrPostNotFound or ErrCommentsDisabled and nothing has changed.
AddCommentCheck(k, p, parent, a) ==
  /\ calls[k] = Idle
  /\ posts[p] # Absent /\ posts[p].commentsEnabled
  /\ calls' = [calls EXCEPT ![k] = [pc |-> "create", postID |-> p,
                                    parentID |-> parent, authorID |-> a]]
  /\ UNCHANGED <<posts, comments, commentsByParent,
                 usedPostIDs, usedCommentIDs, lateComments>>

NewComment(call, t) ==
  [postID |-> call.postID, parentID |-> call.parentID, authorID |-> call.authorID,
   createdAt |-> t, deleted |-> FALSE]

\* commentRepository.Create with a fresh id and any reading of the clock
AddCommentCreate(k, id, t) ==
  /\ calls[k].pc = "create"
  /\ id \notin usedCommentIDs
  /\ CreateComment(id, NewComment(calls[k], t))
  /\ calls' = [calls EXCEPT ![k] = [pc |-> "publish", id |-> id]]
  /\ usedCommentIDs' = usedCommentIDs \cup {id}
  /\ lateComments' =
       LET p == calls[k].postID
       IN  IF posts[p] # Absent /\ ~ posts[p].commentsEnabled
           THEN [lateComments EXCEPT ![p] = @ \cup {id}]
           ELSE lateComments
  /\ UNCHANGED usedPostIDs

\* commentRepository.Create returns an error: the parent is gone, soft-deleted
\* or under another post (a fresh id is never ErrAlreadyExists).
AddCommentRejected(k) ==
  /\ calls[k].pc = "create"
  /\ \E id \in CommentIDs \ usedCommentIDs, t \in Times :
       CreateCommentError(id, NewComment(calls[k], t)) # "nil"
  /\ calls' = [calls EXCEPT ![k] = Idle]
  /\ UNCHANGED <<posts, comments, commentsByParent,
                 usedPostIDs, usedCommentIDs, lateComments>>

\* PublishCommentCreated, whose error or success only decides the answer: the
\* comment stays stored either way.
AddCommentPublish(k) ==
  /\ calls[k].pc = "publish"
  /\ calls' = [calls EXCEPT ![k] = Idle]
  /\ UNCHANGED <<posts, comments, commentsByParent,
                 usedPostIDs, usedCommentIDs, lateComments>>

(***************************************************************************)
(* SetCommentsEnabled.                                                     *)
(***************************************************************************)

\* A write to post p is seen by the requests about to read p back.
MarkOverwritten(p) ==
  [k \in Clients |->
     IF calls[k].pc = "reread" /\ calls[k].postID = p
     THEN [calls[k] EXCEPT !.overwritten = TRUE] ELSE calls[k]]

SetCommentsEnabledUpdate(k, p, a, e) ==
  /\ calls[k] = Idle
  /\ SetCommentsEnabled(p, a, e)
  /\ calls' = [MarkOverwritten(p) EXCEPT ![k] =
                 [pc |-> "reread", postID |-> p, enabled |-> e, overwritten |-> FALSE]]
  /\ lateComments' = IF posts[p].commentsEnabled /\ ~ e
                     THEN [lateComments EXCEPT ![p] = {}] ELSE lateComments
  /\ UNCHANGED <<usedPostIDs, usedCommentIDs>>

\* What postRepository.GetByID hands back is the answer of the mutation.
SetCommentsEnabledReread(k) ==
  /\ calls[k].pc = "reread"
  /\ calls' = [calls EXCEPT ![k] = Idle]
  /\ UNCHANGED <<posts, comments, commentsByParent,
                 usedPostIDs, usedCommentIDs, lateComments>>

(***************************************************************************)
(* Requests that are one repository call, and a context that ends.         *)
(***************************************************************************)
CreatePostCall(p, a, e, t) ==
  /\ p \notin usedPostIDs
  /\ CreatePost(p, [authorID |-> a, commentsEnabled |-> e, createdAt |-> t])
  /\ usedPostIDs' = usedPostIDs \cup {p}
  /\ UNCHANGED <<calls, usedCommentIDs, lateComments>>

DeletePostCall(p, a) ==
  /\ DeletePost(p, a)
  /\ calls' = MarkOverwritten(p)
  /\ lateComments' = [lateComments EXCEPT ![p] = {}]
  /\ UNCHANGED <<usedPostIDs, usedCommentIDs>>

DeleteCommentCall(id, a) ==
  /\ DeleteComment(id, a)
  /\ UNCHANGED <<calls, usedPostIDs, usedCommentIDs, lateComments>>

\* The client goes away: the next repository call finds ctx.Err() # nil before
\* it takes the lock.
CancelCall(k) ==
  /\ calls[k].pc \in {"create", "reread"}
  /\ calls' = [calls EXCEPT ![k] = Idle]
  /\ UNCHANGED <<posts, comments, commentsByParent,
                 usedPostIDs, usedCommentIDs, lateComments>>

ServiceNext ==
  \/ \E k \in Clients, p \in usedPostIDs, parent \in usedCommentIDs \cup {NoParent},
        a \in AuthorIDs : AddCommentCheck(k, p, parent, a)
  \/ \E k \in Clients, id \in CommentIDs, t \in Times : AddCommentCreate(k, id, t)
  \/ \E k \in Clients : AddCommentRejected(k)
  \/ \E k \in Clients : AddCommentPublish(k)
  \/ \E k \in Clients, p \in PostIDs, a \in AuthorIDs, e \in BOOLEAN :
        SetCommentsEnabledUpdate(k, p, a, e)
  \/ \E k \in Clients : SetCommentsEnabledReread(k)
  \/ \E p \in PostIDs, a \in AuthorIDs, e \in BOOLEAN, t \in Times :
        CreatePostCall(p, a, e, t)
  \/ \E p \in PostIDs, a \in AuthorIDs : DeletePostCall(p, a)
  \/ \E id \in CommentIDs, a \in AuthorIDs : DeleteCommentCall(id, a)
  \/ \E k \in Clients : CancelCall(k)

ServiceSpec == ServiceInit /\ [][ServiceNext]_serviceVars

(***************************************************************************)
(* Properties.                                                             *)
(***************************************************************************)

\* What DeletePost promises (post_repository.go:159, "cascade: remove all
\* comments and index entries for this post"): no stored comment is without
\* its post.
NoOrphanComments ==
  \A c \in CommentIDs : comments[c] # Absent => posts[comments[c].postID] # Absent

\* A comment without its post is a comment AddComment stored on a post it had
\* still seen.  Such a comment starts a thread and stays alone in it: nobody
\* could name it while its post was there, and a reply that names a comment
\* removed by the cascade is rejected.
OrphansAreLoneRoots ==
  \A c \in CommentIDs :
    comments[c] # Absent /\ posts[comments[c].postID] = Absent =>
      /\ comments[c].parentID = NoParent
      /\ \A d \in CommentIDs : comments[d] # Absent => comments[d].parentID # c

\* What closing a post does give: of the comments stored behind its back, and
\* of the requests that may still store one, there are never more than there
\* are requests in flight at a time; a request that starts later stores none.
LateCommentsAreBounded ==
  \A p \in PostIDs :
    posts[p] # Absent /\ ~ posts[p].commentsEnabled =>
      Cardinality(lateComments[p])
        + Cardinality({k \in Clients : calls[k].pc = "create" /\ calls[k].postID = p})
      <= Cardinality(Clients)

\* The post SetCommentsEnabled answers with carries the flag it was asked to
\* set, unless another request wrote the post between its two steps.
AnswerIsExplained ==
  \A k \in Clients :
    calls[k].pc = "reread" /\ ~ calls[k].overwritten =>
      /\ posts[calls[k].postID] # Absent
      /\ posts[calls[k].postID].commentsEnabled = calls[k].enabled
==============================================================================
