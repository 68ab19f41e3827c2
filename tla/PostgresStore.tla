---------------------------- MODULE PostgresStore ----------------------------
(***************************************************************************)
(* The PostgreSQL repositories (internal/storage/postgres) as concurrent   *)
(* database sessions: statements, transactions, row locks, foreign keys,   *)
(* cascades and deadlocks at the isolation level READ COMMITTED.           *)
(*                                                                         *)
(* "posts" and "comments" are the committed tables.  Three kinds of        *)
(* statement can wait and hold locks over several steps: the transaction   *)
(* that stores a reply, the INSERT of a root comment (which waits in its   *)
(* foreign key check) and DELETE FROM posts with its cascade.  A single    *)
(* UPDATE waits, but nobody can see it half done, so it is one step.  What *)
(* PostgreSQL itself does (conflicts of row locks, the checks of foreign   *)
(* keys, the deadlock detector) is external: it is modelled as far as the  *)
(* statements of the repositories use it.                                  *)
(*                                                                         *)
(* Ids come from uuid.NewString(): they are fresh, and a caller can name   *)
(* what has been committed only.  Left out: titles, bodies, texts, times   *)
(* (no statement here depends on them) and the listings, which are in      *)
(* PostgresPages.                                                          *)
(***************************************************************************)
EXTENDS Naturals, FiniteSets

CONSTANTS
  PostIDs,
  CommentIDs,
  AuthorIDs,
  Writers,     \* bound: the authors whose posts and comments are stored
  NoParent,    \* a nil ParentID
  Absent,      \* no row
  NoID,        \* an argument that a call does not have
  Clients,     \* requests that call a repository
  MaxConns     \* size of the pgxpool

ASSUME MaxConnsIsPositive == MaxConns \in Nat \ {0}
ASSUME WritersAreAuthors == Writers \subseteq AuthorIDs
ASSUME NoParentIsNoID == NoParent \notin CommentIDs
ASSUME NoIDIsNoClient == NoID \notin Clients
ASSUME ClientsAreFinite == IsFiniteSet(Clients)

\* The columns of the two tables that a statement looks at
PostRow == [authorID : AuthorIDs, commentsEnabled : BOOLEAN]

CommentRow == [postID   : PostIDs,
               parentID : CommentIDs \cup {NoParent},
               authorID : AuthorIDs,
               deleted  : BOOLEAN]

ASSUME AbsentIsNoRow == Absent \notin PostRow /\ Absent \notin CommentRow

Results == {"nil", "ErrPostNotFound", "ErrCommentNotFound", "ErrInvalidParentComment",
            "ErrForbidden", "error"}

\* A repository call and the statement it is at
Call == [pc       : {"idle", "begin", "selectParent", "insert", "commit", "lockPost",
                     "cascade", "update", "explain"},
         op       : {"none", "CreateComment", "DeletePost", "DeleteComment",
                     "SetCommentsEnabled"},
         id       : CommentIDs \cup {NoID},
         postID   : PostIDs \cup {NoID},
         parentID : CommentIDs \cup {NoParent, NoID},
         authorID : AuthorIDs \cup {NoID},
         enabled  : BOOLEAN,
         verbatim : BOOLEAN]    \* the post id is spelled as PostgreSQL spells it

Idle == [pc |-> "idle", op |-> "none", id |-> NoID, postID |-> NoID, parentID |-> NoID,
         authorID |-> NoID, enabled |-> FALSE, verbatim |-> TRUE]

Lock == [table : {"posts"}, id : PostIDs, mode : {"KeyShare", "Update"}]
   \cup [table : {"comments"}, id : CommentIDs, mode : {"KeyShare", "Update"}]

PostLock(p, mode) == [table |-> "posts", id |-> p, mode |-> mode]
CommentLock(c, mode) == [table |-> "comments", id |-> c, mode |-> mode]

VARIABLES
  posts,          \* the table posts
  comments,       \* the table comments
  calls,          \* the call each client has in flight
  locks,          \* the row locks its transaction holds
  answer,         \* what the last step answered, and to whom
  knownPosts,     \* ids of posts that have ever been committed
  knownComments,  \* ids of comments that have ever been committed
  overtaken       \* history: replies whose parent was soft-deleted after
                  \* their transaction had selected it

tableVars == <<posts, comments>>
historyVars == <<knownPosts, knownComments, overtaken>>
vars == <<tableVars, calls, locks, answer, historyVars>>

NoAnswer == [client |-> NoID, result |-> "nil"]

TypeOK ==
  /\ posts \in [PostIDs -> PostRow \cup {Absent}]
  /\ comments \in [CommentIDs -> CommentRow \cup {Absent}]
  /\ calls \in [Clients -> Call]
  /\ locks \in [Clients -> SUBSET Lock]
  /\ answer \in [client : Clients \cup {NoID}, result : Results]
  /\ knownPosts \subseteq PostIDs
  /\ knownComments \subseteq CommentIDs
  /\ overtaken \subseteq Clients

Init ==
  /\ posts = [p \in PostIDs |-> Absent]
  /\ comments = [c \in CommentIDs |-> Absent]
  /\ calls = [k \in Clients |-> Idle]
  /\ locks = [k \in Clients |-> {}]
  /\ answer = NoAnswer
  /\ knownPosts = {}
  /\ knownComments = {}
  /\ overtaken = {}

(***************************************************************************)
(* PostgreSQL.                                                             *)
(***************************************************************************)

\* Row locks: FOR KEY SHARE conflicts with the lock of a DELETE only; an UPDATE
\* that leaves the key alone takes NO KEY UPDATE, which goes with KEY SHARE.
Conflicts(held, wanted) == held = "Update" \/ wanted = "Update"

\* j's transaction keeps k from taking lock
InTheWay(j, k, lock) ==
  j # k /\ \E held \in locks[j] : /\ held.table = lock.table
                                  /\ held.id = lock.id
                                  /\ Conflicts(held.mode, lock.mode)

CanLock(k, lock) == \A j \in Clients : ~ InTheWay(j, k, lock)

\* Seeded fault: the statement that explains is run over a second connection while
\* the first one is still held.
ConnectedWhileExplaining(k) == calls[k].pc \notin {"idle", "begin"}

\* A connection is held from the begin of a statement or transaction to its end.
Connected(k) == calls[k].pc \notin {"idle", "begin", "explain"}
FreeConnection == Cardinality({k \in Clients : Connected(k)}) < MaxConns

\* The rows a cascading delete has still to lock
ToCascade(k) ==
  {c \in CommentIDs : /\ comments[c] # Absent
                      /\ comments[c].postID = calls[k].postID
                      /\ CommentLock(c, "Update") \notin locks[k]}

\* The locks the statement of k waits for
Wanted(k) ==
  CASE calls[k].pc = "selectParent" -> {CommentLock(calls[k].parentID, "KeyShare")}
    [] calls[k].pc = "insert"       -> {PostLock(calls[k].postID, "KeyShare")}
    [] calls[k].pc = "lockPost"     -> {PostLock(calls[k].postID, "Update")}
    [] calls[k].pc = "cascade"      -> {CommentLock(c, "Update") : c \in ToCascade(k)}
    [] OTHER                        -> {}

WaitsFor(k, j) == \E lock \in Wanted(k) : InTheWay(j, k, lock)

\* Everybody in S waits for somebody in S.
Stuck(S) == S # {} /\ \A k \in S : \E j \in S : WaitsFor(k, j)

Deadlock(S) == Stuck(S) /\ \A T \in SUBSET S : Stuck(T) => T = S

(***************************************************************************)
(* The end of a call.                                                      *)
(***************************************************************************)

\* A domain error or nil goes to the caller; the transaction, if there is one,
\* is over (a commit, or the deferred Rollback) and its locks are free.
Answer(k, result) ==
  /\ calls' = [calls EXCEPT ![k] = Idle]
  /\ locks' = [locks EXCEPT ![k] = {}]
  /\ answer' = [client |-> k, result |-> result]
  /\ overtaken' = overtaken \ {k}

\* A statement has ended and the call goes on.
Proceed(k, pc, taken) ==
  /\ calls' = [calls EXCEPT ![k].pc = pc]
  /\ locks' = [locks EXCEPT ![k] = @ \cup taken]
  /\ answer' = NoAnswer

\* mapPostgresCommentError and mapPostgresPostError
mapCommonPostgresError(violation) ==
  CASE violation = "comments_post_id_fkey"   -> "ErrPostNotFound"
    [] violation = "comments_parent_id_fkey" -> "ErrCommentNotFound"
    [] OTHER                                 -> "error"

(***************************************************************************)
(* Calls begin.                                                            *)
(***************************************************************************)
Start(k, call) ==
  /\ calls[k].pc = "idle"
  /\ calls' = [calls EXCEPT ![k] = call]
  /\ answer' = NoAnswer
  /\ UNCHANGED <<tableVars, locks, historyVars>>

\* Ids of comments that are being stored
Pending == {calls[j].id : j \in {i \in Clients : calls[i].op = "CreateComment"}}

\* An id may come in capitals: a statement casts it to uuid and finds the row, a
\* comparison of strings in Go does not.  Only a reply meets such a comparison.
CallCreateComment(k, id, p, parent, a, verbatim) ==
  /\ id \notin knownComments \cup Pending
  /\ p \in knownPosts
  /\ parent \in knownComments \cup {NoParent}
  /\ parent = NoParent => verbatim
  /\ Start(k, [Idle EXCEPT !.pc = "begin", !.op = "CreateComment", !.id = id, !.postID = p,
                           !.parentID = parent, !.authorID = a, !.verbatim = verbatim])

CallDeletePost(k, p, a) ==
  /\ p \in knownPosts
  /\ Start(k, [Idle EXCEPT !.pc = "begin", !.op = "DeletePost", !.postID = p, !.authorID = a])

CallDeleteComment(k, c, a) ==
  /\ c \in knownComments
  /\ Start(k, [Idle EXCEPT !.pc = "begin", !.op = "DeleteComment", !.id = c, !.authorID = a])

CallSetCommentsEnabled(k, p, a, e) ==
  /\ p \in knownPosts
  /\ Start(k, [Idle EXCEPT !.pc = "begin", !.op = "SetCommentsEnabled", !.postID = p,
                           !.authorID = a, !.enabled = e])

\* The pool hands out a connection: pool.Begin, or the first half of pool.Exec.
FirstStatement(call) ==
  CASE call.op = "CreateComment" -> IF call.parentID = NoParent THEN "insert"
                                                                ELSE "selectParent"
    [] call.op = "DeletePost"    -> "lockPost"
    [] OTHER                     -> "update"

Begin(k) ==
  /\ calls[k].pc = "begin"
  /\ FreeConnection
  /\ Proceed(k, FirstStatement(calls[k]), {})
  /\ UNCHANGED <<tableVars, historyVars>>

\* PostRepository.Create: one INSERT that waits for nobody
CreatePost(k, p, a, e) ==
  /\ calls[k].pc = "idle"
  /\ p \notin knownPosts
  /\ FreeConnection
  /\ posts' = [posts EXCEPT ![p] = [authorID |-> a, commentsEnabled |-> e]]
  /\ knownPosts' = knownPosts \cup {p}
  /\ answer' = [client |-> k, result |-> "nil"]
  /\ UNCHANGED <<comments, calls, locks, knownComments, overtaken>>

(***************************************************************************)
(* CommentRepository.Create.                                               *)
(***************************************************************************)
LiveParent(k) ==
  LET parent == calls[k].parentID
  IN  comments[parent] # Absent /\ ~ comments[parent].deleted

\* Seeded fault: a soft-deleted parent is taken as well.
SelectParentDeletedToo(k) ==
  LET lock == CommentLock(calls[k].parentID, "KeyShare")
  IN  /\ calls[k].pc = "selectParent"
      /\ CanLock(k, lock)
      /\ IF comments[calls[k].parentID] = Absent
         THEN Answer(k, "ErrCommentNotFound")
         ELSE Proceed(k, "insert", {lock}) /\ UNCHANGED overtaken
      /\ UNCHANGED <<tableVars, knownPosts, knownComments>>

\* SELECT post_id ... AND deleted_at IS NULL FOR KEY SHARE, and the comparison
\* of the parent's post_id::text with the id that the caller gave.
SelectParent(k) ==
  LET call == calls[k]
      lock == CommentLock(call.parentID, "KeyShare")
  IN  /\ call.pc = "selectParent"
      /\ LiveParent(k) => CanLock(k, lock)
      /\ IF ~ LiveParent(k) THEN Answer(k, "ErrCommentNotFound")
         ELSE IF comments[call.parentID].postID # call.postID \/ ~ call.verbatim
         THEN Answer(k, "ErrInvalidParentComment")
         ELSE Proceed(k, "insert", {lock}) /\ UNCHANGED overtaken
      /\ UNCHANGED <<tableVars, knownPosts, knownComments>>

\* The foreign key checks of the new row, in the order of the constraints; they
\* lock what they find.
ForeignKeyViolation(call) ==
  IF posts[call.postID] = Absent THEN "comments_post_id_fkey"
  ELSE IF call.parentID # NoParent /\ comments[call.parentID] = Absent
  THEN "comments_parent_id_fkey"
  ELSE "none"

ForeignKeyLocks(call) ==
  {PostLock(call.postID, "KeyShare")} \cup
    (IF call.parentID = NoParent THEN {} ELSE {CommentLock(call.parentID, "KeyShare")})

\* Seeded fault: the foreign keys are checked without a lock.
InsertUnlocked(k) ==
  /\ calls[k].pc = "insert"
  /\ IF ForeignKeyViolation(calls[k]) = "none"
     THEN Proceed(k, "commit", {}) /\ UNCHANGED overtaken
     ELSE Answer(k, mapCommonPostgresError(ForeignKeyViolation(calls[k])))
  /\ UNCHANGED <<tableVars, knownPosts, knownComments>>

\* INSERT INTO comments, which nobody else can see before the commit
Insert(k) ==
  LET violation == ForeignKeyViolation(calls[k])
  IN  /\ calls[k].pc = "insert"
      /\ violation = "none" => \A lock \in ForeignKeyLocks(calls[k]) : CanLock(k, lock)
      /\ IF violation = "none"
         THEN Proceed(k, "commit", ForeignKeyLocks(calls[k])) /\ UNCHANGED overtaken
         ELSE Answer(k, mapCommonPostgresError(violation))
      /\ UNCHANGED <<tableVars, knownPosts, knownComments>>

RowOf(call) == [postID |-> call.postID, parentID |-> call.parentID,
                authorID |-> call.authorID, deleted |-> FALSE]

\* tx.Commit, or the end of the single statement.  The answer is lost when the
\* context ends or the connection breaks while it is on its way.
CommitCreate(k) ==
  /\ calls[k].pc = "commit" /\ calls[k].op = "CreateComment"
  /\ comments' = [comments EXCEPT ![calls[k].id] = RowOf(calls[k])]
  /\ knownComments' = knownComments \cup {calls[k].id}
  /\ \E result \in {"nil", "error"} : Answer(k, result)
  /\ UNCHANGED <<posts, knownPosts>>

(***************************************************************************)
(* PostRepository.Delete.                                                  *)
(***************************************************************************)

\* DELETE FROM posts: the row of this id and author, if there is one
LockPost(k) ==
  LET call  == calls[k]
      found == posts[call.postID] # Absent /\ posts[call.postID].authorID = call.authorID
      lock  == PostLock(call.postID, "Update")
  IN  /\ call.pc = "lockPost"
      /\ found => CanLock(k, lock)
      /\ IF found THEN Proceed(k, "cascade", {lock}) ELSE Proceed(k, "explain", {})
      /\ UNCHANGED <<tableVars, historyVars>>

\* ON DELETE CASCADE locks the comments of the post, one after the other.
CascadeLock(k, c) ==
  /\ calls[k].pc = "cascade"
  /\ c \in ToCascade(k)
  /\ CanLock(k, CommentLock(c, "Update"))
  /\ Proceed(k, "cascade", {CommentLock(c, "Update")})
  /\ UNCHANGED <<tableVars, historyVars>>

CascadeEnds(k) ==
  /\ calls[k].pc = "cascade"
  /\ ToCascade(k) = {}
  /\ Proceed(k, "commit", {})
  /\ UNCHANGED <<tableVars, historyVars>>

CommitDelete(k) ==
  /\ calls[k].pc = "commit" /\ calls[k].op = "DeletePost"
  /\ posts' = [posts EXCEPT ![calls[k].postID] = Absent]
  /\ comments' = [c \in CommentIDs |->
                    IF CommentLock(c, "Update") \in locks[k] THEN Absent ELSE comments[c]]
  /\ \E result \in {"nil", "error"} : Answer(k, result)
  /\ UNCHANGED <<knownPosts, knownComments>>

(***************************************************************************)
(* CommentRepository.Delete and PostRepository.SetCommentsEnabled.         *)
(***************************************************************************)

\* UPDATE comments SET deleted_at ... WHERE id, author_id and deleted_at IS NULL
UpdateComment(k) ==
  LET call  == calls[k]
      found == /\ comments[call.id] # Absent
               /\ comments[call.id].authorID = call.authorID
               /\ ~ comments[call.id].deleted
  IN  /\ call.pc = "update" /\ call.op = "DeleteComment"
      /\ found => CanLock(k, CommentLock(call.id, "NoKeyUpdate"))
      /\ IF found
         THEN /\ comments' = [comments EXCEPT ![call.id].deleted = TRUE]
              /\ calls' = [calls EXCEPT ![k] = Idle]
              /\ \E result \in {"nil", "error"} : answer' = [client |-> k, result |-> result]
              /\ overtaken' = overtaken \cup
                   {j \in Clients : CommentLock(call.id, "KeyShare") \in locks[j]}
              /\ UNCHANGED locks
         ELSE Proceed(k, "explain", {}) /\ UNCHANGED <<comments, overtaken>>
      /\ UNCHANGED <<posts, knownPosts, knownComments>>

\* UPDATE posts SET comments_enabled ... WHERE id and author_id
UpdatePost(k) ==
  LET call  == calls[k]
      found == posts[call.postID] # Absent /\ posts[call.postID].authorID = call.authorID
  IN  /\ call.pc = "update" /\ call.op = "SetCommentsEnabled"
      /\ found => CanLock(k, PostLock(call.postID, "NoKeyUpdate"))
      /\ IF found
         THEN /\ posts' = [posts EXCEPT ![call.postID].commentsEnabled = call.enabled]
              /\ \E result \in {"nil", "error"} : Answer(k, result)
         ELSE Proceed(k, "explain", {}) /\ UNCHANGED <<posts, overtaken>>
      /\ UNCHANGED <<comments, knownPosts, knownComments>>

\* Seeded fault: GetByID is not asked whether the comment has been deleted.
ExplanationForbidden(call) ==
  IF call.op = "DeleteComment"
  THEN IF comments[call.id] = Absent THEN "ErrCommentNotFound" ELSE "ErrForbidden"
  ELSE IF posts[call.postID] = Absent THEN "ErrPostNotFound" ELSE "ErrForbidden"

\* Why a statement has touched no row: a second statement, GetByID, finds out.
Explanation(call) ==
  IF call.op = "DeleteComment"
  THEN IF comments[call.id] = Absent \/ comments[call.id].deleted
       THEN "ErrCommentNotFound" ELSE "ErrForbidden"
  ELSE IF posts[call.postID] = Absent THEN "ErrPostNotFound" ELSE "ErrForbidden"

Explain(k) ==
  /\ calls[k].pc = "explain"
  /\ FreeConnection
  /\ Answer(k, Explanation(calls[k]))
  /\ UNCHANGED <<tableVars, knownPosts, knownComments>>

(***************************************************************************)
(* Failures.                                                               *)
(***************************************************************************)

\* Seeded fault: no Rollback is deferred.
CancelNoRollback(k) ==
  /\ calls[k].pc # "idle"
  /\ calls' = [calls EXCEPT ![k] = Idle]
  /\ answer' = [client |-> k, result |-> "error"]
  /\ overtaken' = overtaken \ {k}
  /\ UNCHANGED <<tableVars, locks, knownPosts, knownComments>>

\* The context ends or the connection breaks before the commit: the transaction
\* is rolled back, and the caller gets an error that is no domain error.
Cancel(k) ==
  /\ calls[k].pc # "idle"
  /\ Answer(k, "error")
  /\ UNCHANGED <<tableVars, knownPosts, knownComments>>

\* The deadlock detector of PostgreSQL aborts somebody of the cycle (40P01, a
\* code that mapCommonPostgresError leaves as it is).
DeadlockDetected(k) ==
  /\ \E S \in SUBSET Clients : k \in S /\ Deadlock(S)
  /\ Answer(k, mapCommonPostgresError("40P01"))
  /\ UNCHANGED <<tableVars, knownPosts, knownComments>>

(***************************************************************************)
(* The specification.                                                      *)
(***************************************************************************)
StatementStep(k) ==
  \/ Begin(k)
  \/ SelectParent(k)
  \/ Insert(k)
  \/ CommitCreate(k)
  \/ LockPost(k)
  \/ \E c \in CommentIDs : CascadeLock(k, c)
  \/ CascadeEnds(k)
  \/ CommitDelete(k)
  \/ UpdateComment(k)
  \/ UpdatePost(k)
  \/ Explain(k)

NewCall(k) ==
  \/ \E id \in CommentIDs, p \in PostIDs, parent \in CommentIDs \cup {NoParent},
        a \in Writers, verbatim \in BOOLEAN :
          CallCreateComment(k, id, p, parent, a, verbatim)
  \/ \E p \in PostIDs, a \in AuthorIDs : CallDeletePost(k, p, a)
  \/ \E c \in CommentIDs, a \in AuthorIDs : CallDeleteComment(k, c, a)
  \/ \E p \in PostIDs, a \in AuthorIDs, e \in BOOLEAN : CallSetCommentsEnabled(k, p, a, e)
  \/ \E p \in PostIDs, a \in Writers, e \in BOOLEAN : CreatePost(k, p, a, e)

Next ==
  \E k \in Clients : NewCall(k) \/ StatementStep(k) \/ Cancel(k) \/ DeadlockDetected(k)

\* Who can go on does, in the end also against others that take the same row or
\* connection again and again: PostgreSQL and the pool let waiters queue.  The
\* deadlock detector runs.  Nobody has to call, and no context has to end.
Fairness == \A k \in Clients : SF_vars(StatementStep(k)) /\ WF_vars(DeadlockDetected(k))

Spec == Init /\ [][Next]_vars
FairSpec == Spec /\ Fairness

(***************************************************************************)
(* Properties.                                                             *)
(***************************************************************************)

\* The tables change as the contract of a back end with foreign keys says: a
\* comment is stored only on a stored post and under a stored parent of the same
\* post, and a deleted post takes exactly its comments along, whatever
\* transactions are open meanwhile (Create 26-73, Delete 172-192, 002 and the
\* cascades).
Contract == INSTANCE StoreContract WITH PostRequired <- TRUE, LiveParentRequired <- FALSE

ImplementsContract == Contract!Spec

\* comment_repository.go:45, "AND deleted_at IS NULL prevents replies to
\* soft-deleted comments": no reply is stored under a comment that is
\* soft-deleted when the reply is committed.
NoReplyToDeletedComment ==
  [][\A c \in CommentIDs :
       comments[c] = Absent /\ comments'[c] # Absent /\ comments'[c].parentID # NoParent =>
         ~ comments[comments'[c].parentID].deleted]_vars

\* What the condition does give: a transaction that is about to store a reply
\* under a soft-deleted comment had selected it while it was not deleted.
RepliesSawALiveParent ==
  \A k \in Clients :
    /\ calls[k].op = "CreateComment" /\ calls[k].pc \in {"insert", "commit"}
    /\ calls[k].parentID # NoParent
    => /\ comments[calls[k].parentID] # Absent
       /\ comments[calls[k].parentID].deleted => k \in overtaken

\* Answers are true although several statements make them.  A domain error means
\* that the call has changed nothing; nil to a new comment, that it is stored;
\* and nobody is told ErrForbidden of something of his own, also when the row
\* changes between the statement that missed it and the one that explains why.
AnswersAreTrue ==
  [][\A k \in Clients :
       LET call == calls[k] IN
         answer'.client = k /\ call.pc # "idle" =>
           /\ answer'.result \notin {"nil", "error"} => UNCHANGED tableVars
           /\ call.op = "CreateComment" /\ answer'.result = "nil" =>
                comments'[call.id] # Absent
           /\ call.op = "DeleteComment" /\ answer'.result = "nil" => comments'[call.id].deleted
           /\ answer'.result = "ErrForbidden" =>
                IF call.op = "DeleteComment"
                THEN comments[call.id].authorID # call.authorID
                ELSE posts[call.postID].authorID # call.authorID]_vars

\* The statement of k waits neither for a lock nor for a connection.
CanGoOn(k) ==
  LET call       == calls[k]
      ownPost    == posts[call.postID] # Absent /\ posts[call.postID].authorID = call.authorID
      ownComment == /\ comments[call.id] # Absent
                    /\ comments[call.id].authorID = call.authorID
                    /\ ~ comments[call.id].deleted
  IN  \/ call.pc \in {"begin", "explain"} /\ FreeConnection
      \/ /\ call.pc = "selectParent"
         /\ LiveParent(k) => CanLock(k, CommentLock(call.parentID, "KeyShare"))
      \/ /\ call.pc = "insert"
         /\ ForeignKeyViolation(call) = "none" =>
              \A lock \in ForeignKeyLocks(call) : CanLock(k, lock)
      \/ call.pc = "lockPost" /\ (ownPost => CanLock(k, PostLock(call.postID, "Update")))
      \/ /\ call.pc = "cascade"
         /\ ToCascade(k) # {} => \E c \in ToCascade(k) : CanLock(k, CommentLock(c, "Update"))
      \/ /\ call.pc = "update" /\ call.op = "DeleteComment"
         /\ ownComment => CanLock(k, CommentLock(call.id, "NoKeyUpdate"))
      \/ /\ call.pc = "update" /\ call.op = "SetCommentsEnabled"
         /\ ownPost => CanLock(k, PostLock(call.postID, "NoKeyUpdate"))
      \/ call.pc = "commit"

\* While calls are in flight one of them can go on, or PostgreSQL sees a deadlock and
\* aborts somebody of it: there is no wait that neither the end of another call nor
\* the deadlock detector resolves, among them none for a connection that is held by
\* who waits for another one (Create 26-73, Delete 102-128 and 172-192).
SomebodyGoesOn ==
  (\E k \in Clients : calls[k].pc # "idle") =>
    \/ \E k \in Clients : CanGoOn(k)
    \/ \E S \in SUBSET Clients : Deadlock(S)

\* Every call comes to an end: waiting for locks and for connections resolves
\* itself, a deadlock of a reply with a cascade is broken, no lock is left.
EveryCallReturns == \A k \in Clients : calls[k].pc # "idle" ~> calls[k].pc = "idle"
==============================================================================
