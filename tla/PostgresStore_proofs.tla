------------------------ MODULE PostgresStore_proofs ------------------------
(***************************************************************************)
(* The PostgreSQL repositories implement StoreContract, for every number   *)
(* of requests, connections, posts and comments.                           *)
(*                                                                         *)
(* The tables alone do not say why.  What does is the row locks: a         *)
(* transaction that is about to store a comment holds the rows of the post *)
(* and of the parent, a cascade that is about to commit holds every        *)
(* comment of its post, and two transactions never hold one row in         *)
(* conflicting modes.  IInv says so.  The answers that two statements of   *)
(* one call make are true for the same reason; and somebody can always go  *)
(* on, because nobody holds anything while he waits for a connection.      *)
(***************************************************************************)
EXTENDS PostgresStore, FiniteSetTheorems, TLAPS

\* The arguments of a call are those of its operation, and its statement is one
\* of its operation's.
CallOK(call) ==
  /\ call.op = "none" <=> call.pc = "idle"
  /\ call.op = "CreateComment" =>
       /\ call.pc \in {"begin", "selectParent", "insert", "commit"}
       /\ call.id \in CommentIDs /\ call.postID \in PostIDs /\ call.authorID \in AuthorIDs
       /\ call.parentID \in CommentIDs \cup {NoParent}
       /\ call.pc = "selectParent" => call.parentID # NoParent
  /\ call.op = "DeletePost" =>
       /\ call.pc \in {"begin", "lockPost", "cascade", "commit", "explain"}
       /\ call.postID \in PostIDs
  /\ call.op = "DeleteComment" =>
       call.pc \in {"begin", "update", "explain"} /\ call.id \in CommentIDs
  /\ call.op = "SetCommentsEnabled" =>
       call.pc \in {"begin", "update", "explain"} /\ call.postID \in PostIDs

\* A comment that is being stored has an id of its own, which nobody has stored.
IDsAreFresh ==
  /\ \A c \in CommentIDs : comments[c] # Absent => c \in knownComments
  /\ \A p \in PostIDs : posts[p] # Absent => p \in knownPosts
  /\ \A k \in Clients : calls[k].op = "CreateComment" => calls[k].id \notin knownComments
  /\ \A j, k \in Clients :
       calls[j].op = "CreateComment" /\ calls[k].op = "CreateComment" /\ j # k =>
         calls[j].id # calls[k].id

\* What the transaction of k has locked is stored, and is what the statement to
\* come relies on.
Secured(k) ==
  LET call == calls[k] IN
  /\ call.pc \notin {"insert", "cascade", "commit"} => locks[k] = {}
  /\ call.op = "CreateComment" /\ call.pc \in {"insert", "commit"} /\ call.parentID # NoParent =>
       /\ CommentLock(call.parentID, "KeyShare") \in locks[k]
       /\ comments[call.parentID] # Absent
       /\ comments[call.parentID].postID = call.postID
  /\ call.op = "CreateComment" /\ call.pc = "commit" =>
       /\ PostLock(call.postID, "KeyShare") \in locks[k]
       /\ posts[call.postID] # Absent
  /\ call.op = "DeletePost" /\ call.pc \in {"cascade", "commit"} =>
       /\ PostLock(call.postID, "Update") \in locks[k]
       /\ posts[call.postID] # Absent
  /\ \A c \in CommentIDs :
       CommentLock(c, "Update") \in locks[k] =>
         /\ call.op = "DeletePost" /\ call.pc \in {"cascade", "commit"}
         /\ comments[c] # Absent /\ comments[c].postID = call.postID
  /\ call.op = "DeletePost" /\ call.pc = "commit" => ToCascade(k) = {}

\* No row is locked twice in modes that conflict.
LocksAreExclusive ==
  \A j, k \in Clients : \A lock \in locks[k] : ~ InTheWay(j, k, lock)

IInv ==
  /\ TypeOK
  /\ \A k \in Clients : CallOK(calls[k])
  /\ IDsAreFresh
  /\ \A k \in Clients : Secured(k)
  /\ LocksAreExclusive

LEMMA InitIInv == Init => IInv
BY DEF Init, IInv, TypeOK, CallOK, Call, Idle, IDsAreFresh, Secured, LocksAreExclusive,
       InTheWay, Results, NoAnswer

(***************************************************************************)
(* Steps that leave the tables alone.                                      *)
(***************************************************************************)

\* A call goes on, ends or starts: the others keep their locks and what they
\* rely on.
LEMMA OwnStep ==
  ASSUME IInv, NEW k \in Clients, NEW call \in Call, NEW held \in SUBSET Lock,
         calls' = [calls EXCEPT ![k] = call],
         locks' = [locks EXCEPT ![k] = held],
         UNCHANGED <<tableVars, knownPosts, knownComments>>,
         answer' \in [client : Clients \cup {NoID}, result : Results],
         overtaken' \subseteq Clients,
         \A lock \in held : CanLock(k, lock),
         CallOK(call),
         Secured(k)',
         call.op = "CreateComment" =>
           /\ call.id \notin knownComments
           /\ \A j \in Clients \ {k} : calls[j].op = "CreateComment" => calls[j].id # call.id
  PROVE  IInv'
<1>1. TypeOK'
  BY DEF IInv, TypeOK, tableVars
<1>2. \A j \in Clients : CallOK(calls[j])'
  <2> SUFFICES ASSUME NEW j \in Clients PROVE CallOK(calls'[j])
    BY DEF CallOK
  <2>1. calls'[j] = IF j = k THEN call ELSE calls[j]
    BY DEF IInv, TypeOK
  <2> QED BY <2>1 DEF IInv
<1>3. IDsAreFresh'
  <2>1. \A j \in Clients : calls'[j] = IF j = k THEN call ELSE calls[j]
    BY DEF IInv, TypeOK
  <2> QED BY <2>1 DEF IInv, IDsAreFresh, tableVars
<1>4. ASSUME NEW j \in Clients PROVE Secured(j)'
  <2>1. CASE j = k
    BY <2>1
  <2>2. CASE j # k
    <3>1. calls'[j] = calls[j] /\ locks'[j] = locks[j] /\ posts' = posts /\ comments' = comments
      BY <2>2 DEF IInv, TypeOK, tableVars
    <3>2. Secured(j)
      BY DEF IInv
    <3> QED BY <3>1, <3>2 DEF Secured, ToCascade
  <2> QED BY <2>1, <2>2
<1>5. LocksAreExclusive'
  <2> SUFFICES ASSUME NEW i \in Clients, NEW j \in Clients, i # j,
                      NEW taken \in locks'[i], NEW lock \in locks'[j],
                      taken.table = lock.table, taken.id = lock.id,
                      Conflicts(taken.mode, lock.mode)
               PROVE  FALSE
    BY DEF LocksAreExclusive, InTheWay
  <2>1. \A n \in Clients : locks'[n] = IF n = k THEN held ELSE locks[n]
    BY DEF IInv, TypeOK
  <2>2. CASE i = k
    BY <2>1, <2>2 DEF CanLock, InTheWay, Conflicts
  <2>3. CASE j = k
    BY <2>1, <2>3 DEF CanLock, InTheWay, Conflicts
  <2>4. CASE i # k /\ j # k
    BY <2>1, <2>4 DEF IInv, LocksAreExclusive, InTheWay
  <2> QED BY <2>2, <2>3, <2>4
<1> QED BY <1>1, <1>2, <1>3, <1>4, <1>5 DEF IInv

\* The end of a call that changes no table
LEMMA AnswerStep ==
  ASSUME IInv, NEW k \in Clients, NEW result \in Results, Answer(k, result),
         UNCHANGED <<tableVars, knownPosts, knownComments>>
  PROVE  IInv'
<1>1. Idle \in Call /\ CallOK(Idle) /\ Idle.op = "none"
  BY DEF Idle, Call, CallOK
<1>2. calls' = [calls EXCEPT ![k] = Idle] /\ locks' = [locks EXCEPT ![k] = {}]
  BY DEF Answer
<1>3. Secured(k)'
  <2>1. calls'[k] = Idle /\ locks'[k] = {}
    BY <1>2 DEF IInv, TypeOK
  <2> QED BY <2>1 DEF Secured, Idle
<1>4. /\ answer' \in [client : Clients \cup {NoID}, result : Results]
      /\ overtaken' \subseteq Clients
  BY DEF Answer, IInv, TypeOK
<1> DEFINE held == {}
<1>5. held \in SUBSET Lock /\ \A lock \in held : CanLock(k, lock)
  OBVIOUS
<1>6. locks' = [locks EXCEPT ![k] = held]
  BY <1>2
<1> HIDE DEF Idle, held
<1> QED BY <1>1, <1>2, <1>3, <1>4, <1>5, <1>6, OwnStep

\* A call starts, with an id that is fresh if it stores a comment.
LEMMA StartStep ==
  ASSUME IInv, NEW k \in Clients, NEW call \in Call, Start(k, call), call.pc = "begin",
         CallOK(call),
         call.op = "CreateComment" => call.id \notin knownComments \cup Pending
  PROVE  IInv'
<1>1. /\ calls' = [calls EXCEPT ![k] = call]
      /\ locks' = [locks EXCEPT ![k] = {}]
  BY DEF Start, IInv, TypeOK, Secured
<1>2. Secured(k)'
  <2>1. calls'[k] = call /\ locks'[k] = {}
    BY <1>1 DEF IInv, TypeOK
  <2> QED BY <2>1 DEF Secured
<1>3. /\ answer' \in [client : Clients \cup {NoID}, result : Results]
      /\ overtaken' \subseteq Clients
  BY DEF Start, IInv, TypeOK, NoAnswer, Results, historyVars
<1>4. call.op = "CreateComment" =>
        /\ call.id \notin knownComments
        /\ \A j \in Clients \ {k} : calls[j].op = "CreateComment" => calls[j].id # call.id
  BY DEF Pending
<1>5. UNCHANGED <<tableVars, knownPosts, knownComments>>
  BY DEF Start, historyVars
<1> DEFINE held == {}
<1>6. held \in SUBSET Lock /\ \A lock \in held : CanLock(k, lock)
  OBVIOUS
<1>7. calls' = [calls EXCEPT ![k] = call] /\ locks' = [locks EXCEPT ![k] = held]
  BY <1>1
<1> HIDE DEF held
<1> QED BY <1>2, <1>3, <1>4, <1>5, <1>6, <1>7, OwnStep

\* A statement has ended and the call goes on: what remains is what its own
\* locks are good for.
LEMMA ProceedStep ==
  ASSUME IInv, NEW k \in Clients, NEW pc, NEW taken \in SUBSET Lock,
         calls[k].pc # "idle",
         [calls[k] EXCEPT !.pc = pc] \in Call,
         CallOK([calls[k] EXCEPT !.pc = pc]),
         Proceed(k, pc, taken),
         UNCHANGED <<tableVars, knownPosts, knownComments>>,
         overtaken' \subseteq Clients,
         \A lock \in taken : CanLock(k, lock),
         Secured(k)'
  PROVE  IInv'
<1> DEFINE call == [calls[k] EXCEPT !.pc = pc]
           held == locks[k] \cup taken
<1>1. calls' = [calls EXCEPT ![k] = call] /\ locks' = [locks EXCEPT ![k] = held]
  BY DEF Proceed
<1>2. held \in SUBSET Lock
  BY DEF IInv, TypeOK
<1>3. \A lock \in held : CanLock(k, lock)
  BY DEF IInv, LocksAreExclusive, CanLock
<1>4. answer' \in [client : Clients \cup {NoID}, result : Results]
  BY DEF Proceed, NoAnswer, Results
<1>5. calls[k] \in Call
  BY DEF IInv, TypeOK
<1>6. call.op = calls[k].op /\ call.id = calls[k].id
  BY <1>5 DEF Call
<1>7. call.op = "CreateComment" =>
        /\ call.id \notin knownComments
        /\ \A j \in Clients \ {k} : calls[j].op = "CreateComment" => calls[j].id # call.id
  BY <1>6 DEF IInv, IDsAreFresh
<1>8. call \in Call /\ CallOK(call)
  OBVIOUS
<1> HIDE DEF call, held
<1> QED BY <1>1, <1>2, <1>3, <1>4, <1>7, <1>8, OwnStep

LEMMA NewCallStep ==
  ASSUME IInv, NEW k \in Clients,
         \/ \E id \in CommentIDs, p \in PostIDs, parent \in CommentIDs \cup {NoParent},
               a \in Writers, verbatim \in BOOLEAN :
               CallCreateComment(k, id, p, parent, a, verbatim)
         \/ \E p \in PostIDs, a \in AuthorIDs : CallDeletePost(k, p, a)
         \/ \E c \in CommentIDs, a \in AuthorIDs : CallDeleteComment(k, c, a)
         \/ \E p \in PostIDs, a \in AuthorIDs, e \in BOOLEAN : CallSetCommentsEnabled(k, p, a, e)
  PROVE  IInv'
<1>1. ASSUME NEW id \in CommentIDs, NEW p \in PostIDs, NEW parent \in CommentIDs \cup {NoParent},
             NEW a \in Writers, NEW verbatim \in BOOLEAN,
             CallCreateComment(k, id, p, parent, a, verbatim)
      PROVE  IInv'
  <2> DEFINE call == [Idle EXCEPT !.pc = "begin", !.op = "CreateComment", !.id = id,
                                  !.postID = p, !.parentID = parent, !.authorID = a,
                                  !.verbatim = verbatim]
  <2>1. call \in Call /\ call.pc = "begin" /\ call.id = id /\ CallOK(call)
    BY <1>1, WritersAreAuthors DEF Idle, Call, CallOK
  <2>2. Start(k, call) /\ id \notin knownComments \cup Pending
    BY <1>1 DEF CallCreateComment
  <2> HIDE DEF call
  <2> QED BY <2>1, <2>2, StartStep
<1>2. ASSUME NEW p \in PostIDs, NEW a \in AuthorIDs, CallDeletePost(k, p, a)
      PROVE  IInv'
  <2> DEFINE call == [Idle EXCEPT !.pc = "begin", !.op = "DeletePost", !.postID = p,
                                  !.authorID = a]
  <2>1. call \in Call /\ call.pc = "begin" /\ CallOK(call) /\ call.op # "CreateComment"
    BY <1>2 DEF Idle, Call, CallOK
  <2>2. Start(k, call)
    BY <1>2 DEF CallDeletePost
  <2> HIDE DEF call
  <2> QED BY <2>1, <2>2, StartStep
<1>3. ASSUME NEW c \in CommentIDs, NEW a \in AuthorIDs, CallDeleteComment(k, c, a)
      PROVE  IInv'
  <2> DEFINE call == [Idle EXCEPT !.pc = "begin", !.op = "DeleteComment", !.id = c,
                                  !.authorID = a]
  <2>1. call \in Call /\ call.pc = "begin" /\ CallOK(call) /\ call.op # "CreateComment"
    BY <1>3 DEF Idle, Call, CallOK
  <2>2. Start(k, call)
    BY <1>3 DEF CallDeleteComment
  <2> HIDE DEF call
  <2> QED BY <2>1, <2>2, StartStep
<1>4. ASSUME NEW p \in PostIDs, NEW a \in AuthorIDs, NEW e \in BOOLEAN,
             CallSetCommentsEnabled(k, p, a, e)
      PROVE  IInv'
  <2> DEFINE call == [Idle EXCEPT !.pc = "begin", !.op = "SetCommentsEnabled", !.postID = p,
                                  !.authorID = a, !.enabled = e]
  <2>1. call \in Call /\ call.pc = "begin" /\ CallOK(call) /\ call.op # "CreateComment"
    BY <1>4 DEF Idle, Call, CallOK
  <2>2. Start(k, call)
    BY <1>4 DEF CallSetCommentsEnabled
  <2> HIDE DEF call
  <2> QED BY <2>1, <2>2, StartStep
<1> QED BY <1>1, <1>2, <1>3, <1>4

LEMMA BeginStep ==
  ASSUME IInv, NEW k \in Clients, Begin(k)
  PROVE  IInv'
<1> DEFINE pc == FirstStatement(calls[k])
           taken == {}
<1>1. calls[k] \in Call /\ calls[k].pc = "begin" /\ CallOK(calls[k]) /\ locks[k] = {}
  BY DEF Begin, IInv, TypeOK, Secured
<1>2. /\ [calls[k] EXCEPT !.pc = pc] \in Call
      /\ CallOK([calls[k] EXCEPT !.pc = pc])
  BY <1>1 DEF FirstStatement, Call, CallOK
<1>3. UNCHANGED <<tableVars, knownPosts, knownComments>> /\ overtaken' \subseteq Clients
  BY DEF Begin, historyVars, IInv, TypeOK
<1>4. taken \in SUBSET Lock /\ \A lock \in taken : CanLock(k, lock)
  OBVIOUS
<1>5. Proceed(k, pc, taken)
  BY DEF Begin
<1>6. Secured(k)'
  <2>1. locks'[k] = {} /\ calls'[k] = [calls[k] EXCEPT !.pc = pc]
    BY <1>1, <1>5 DEF Proceed, IInv, TypeOK
  <2>2. /\ calls'[k].op = calls[k].op /\ calls'[k].parentID = calls[k].parentID
        /\ calls'[k].pc = pc
    BY <2>1, <1>1 DEF Call
  <2>3. /\ pc \notin {"cascade", "commit"}
        /\ calls[k].op = "CreateComment" /\ pc = "insert" => calls[k].parentID = NoParent
    BY <1>1 DEF FirstStatement
  <2> HIDE DEF pc
  <2> QED BY <2>1, <2>2, <2>3 DEF Secured
<1> HIDE DEF pc, taken
<1> QED BY <1>1, <1>2, <1>3, <1>4, <1>5, <1>6, ProceedStep

LEMMA SelectParentStep ==
  ASSUME IInv, NEW k \in Clients, SelectParent(k)
  PROVE  IInv'
<1>1. /\ calls[k] \in Call /\ calls[k].pc = "selectParent" /\ CallOK(calls[k])
      /\ calls[k].op = "CreateComment" /\ locks[k] = {}
  BY DEF SelectParent, IInv, TypeOK, Secured, CallOK, Call
<1>2. UNCHANGED <<tableVars, knownPosts, knownComments>>
  BY DEF SelectParent
<1>3. CASE Answer(k, "ErrCommentNotFound") \/ Answer(k, "ErrInvalidParentComment")
  BY <1>2, <1>3, AnswerStep DEF Results
<1>4. CASE /\ LiveParent(k) /\ comments[calls[k].parentID].postID = calls[k].postID
           /\ Proceed(k, "insert", {CommentLock(calls[k].parentID, "KeyShare")})
           /\ CanLock(k, CommentLock(calls[k].parentID, "KeyShare"))
           /\ UNCHANGED overtaken
  <2> DEFINE taken == {CommentLock(calls[k].parentID, "KeyShare")}
             call == [calls[k] EXCEPT !.pc = "insert"]
  <2>1. taken \in SUBSET Lock /\ \A lock \in taken : CanLock(k, lock)
    BY <1>1, <1>4 DEF CallOK, Lock, CommentLock
  <2>2. call \in Call /\ CallOK(call)
    BY <1>1 DEF Call, CallOK
  <2>3. overtaken' \subseteq Clients
    BY <1>4 DEF IInv, TypeOK
  <2>4. Secured(k)'
    <3>1. locks'[k] = taken /\ calls'[k] = call
      BY <1>1, <1>4 DEF Proceed, IInv, TypeOK
    <3>2. /\ call.op = "CreateComment" /\ call.pc = "insert"
          /\ call.parentID = calls[k].parentID /\ call.postID = calls[k].postID
      BY <1>1 DEF Call
    <3>3. comments' = comments /\ comments[calls[k].parentID] # Absent
      BY <1>2, <1>4 DEF LiveParent, tableVars
    <3>4. \A c \in CommentIDs : CommentLock(c, "Update") \notin taken
      BY DEF CommentLock
    <3>5. CommentLock(call.parentID, "KeyShare") \in taken
      BY <3>2
    <3> HIDE DEF taken, call
    <3> QED BY <3>1, <3>2, <3>3, <3>4, <3>5, <1>4 DEF Secured
  <2>5. Proceed(k, "insert", taken)
    BY <1>4
  <2>6. calls[k].pc # "idle"
    BY <1>1
  <2> HIDE DEF taken
  <2> QED BY <2>1, <2>2, <2>3, <2>4, <2>5, <2>6, <1>2, ProceedStep
<1> QED BY <1>3, <1>4 DEF SelectParent

LEMMA InsertStep ==
  ASSUME IInv, NEW k \in Clients, Insert(k)
  PROVE  IInv'
<1>1. /\ calls[k] \in Call /\ calls[k].pc = "insert" /\ CallOK(calls[k])
      /\ calls[k].op = "CreateComment" /\ Secured(k)
  BY DEF Insert, IInv, TypeOK, CallOK, Call
<1>2. UNCHANGED <<tableVars, knownPosts, knownComments>>
  BY DEF Insert
<1>3. CASE ForeignKeyViolation(calls[k]) # "none"
  <2>1. mapCommonPostgresError(ForeignKeyViolation(calls[k])) \in Results
    BY DEF mapCommonPostgresError, Results
  <2> QED BY <2>1, <1>2, <1>3, AnswerStep DEF Insert
<1>4. CASE ForeignKeyViolation(calls[k]) = "none"
  <2> DEFINE taken == ForeignKeyLocks(calls[k])
             call == [calls[k] EXCEPT !.pc = "commit"]
  <2>1. taken \in SUBSET Lock /\ \A lock \in taken : CanLock(k, lock)
    BY <1>1, <1>4 DEF CallOK, Lock, CommentLock, PostLock, ForeignKeyLocks, Insert
  <2>2. call \in Call /\ CallOK(call)
    BY <1>1 DEF Call, CallOK
  <2>3. overtaken' \subseteq Clients /\ Proceed(k, "commit", taken)
    BY <1>4 DEF Insert, IInv, TypeOK
  <2>4. Secured(k)'
    <3>1. locks'[k] = locks[k] \cup taken /\ calls'[k] = call
      BY <1>1, <2>3 DEF Proceed, IInv, TypeOK
    <3>2. /\ call.op = "CreateComment" /\ call.pc = "commit"
          /\ call.parentID = calls[k].parentID /\ call.postID = calls[k].postID
      BY <1>1 DEF Call
    <3>3. posts[calls[k].postID] # Absent
      BY <1>4 DEF ForeignKeyViolation
    <3>4. \A c \in CommentIDs : CommentLock(c, "Update") \notin taken
      BY DEF CommentLock, PostLock, ForeignKeyLocks
    <3>5. PostLock(call.postID, "KeyShare") \in taken
      BY <3>2 DEF ForeignKeyLocks
    <3> HIDE DEF taken, call
    <3> QED BY <3>1, <3>2, <3>3, <3>4, <3>5, <1>1, <1>2 DEF Secured, tableVars
  <2>5. calls[k].pc # "idle"
    BY <1>1
  <2> HIDE DEF taken
  <2> QED BY <2>1, <2>2, <2>3, <2>4, <2>5, <1>2, ProceedStep
<1> QED BY <1>3, <1>4

LEMMA LockPostStep ==
  ASSUME IInv, NEW k \in Clients, LockPost(k)
  PROVE  IInv'
<1> DEFINE lock == PostLock(calls[k].postID, "Update")
           found == /\ posts[calls[k].postID] # Absent
                    /\ posts[calls[k].postID].authorID = calls[k].authorID
           pc == IF found THEN "cascade" ELSE "explain"
           taken == IF found THEN {lock} ELSE {}
           call == [calls[k] EXCEPT !.pc = pc]
<1>1. /\ calls[k] \in Call /\ calls[k].pc = "lockPost" /\ CallOK(calls[k])
      /\ calls[k].op = "DeletePost" /\ locks[k] = {} /\ calls[k].postID \in PostIDs
  BY DEF LockPost, IInv, TypeOK, Secured, CallOK, Call
<1>2. UNCHANGED <<tableVars, knownPosts, knownComments>> /\ overtaken' \subseteq Clients
  BY DEF LockPost, historyVars, IInv, TypeOK
<1>3. taken \in SUBSET Lock /\ \A l \in taken : CanLock(k, l)
  BY <1>1 DEF LockPost, Lock, PostLock
<1>4. call \in Call /\ CallOK(call)
  BY <1>1 DEF Call, CallOK
<1>5. Proceed(k, pc, taken)
  BY DEF LockPost
<1>6. Secured(k)'
  <2>1. locks'[k] = taken /\ calls'[k] = call
    BY <1>1, <1>5 DEF Proceed, IInv, TypeOK
  <2>2. call.op = "DeletePost" /\ call.pc = pc /\ call.postID = calls[k].postID
    BY <1>1 DEF Call
  <2>3. \A c \in CommentIDs : CommentLock(c, "Update") \notin taken
    BY DEF CommentLock, PostLock
  <2>4. posts' = posts /\ pc # "commit" /\ pc # "insert"
    BY <1>2 DEF tableVars
  <2>5. CASE found
    <3>1. PostLock(call.postID, "Update") \in taken
      BY <2>2, <2>5
    <3>2. posts[call.postID] # Absent
      BY <2>2, <2>5
    <3> HIDE DEF taken, call
    <3> QED BY <3>1, <3>2, <2>1, <2>2, <2>3, <2>4, <2>5 DEF Secured
  <2>6. CASE ~ found
    <3>1. taken = {} /\ pc = "explain"
      BY <2>6
    <3> HIDE DEF taken, call, pc
    <3> QED BY <3>1, <2>1, <2>2 DEF Secured
  <2> QED BY <2>5, <2>6
<1>7. calls[k].pc # "idle"
  BY <1>1
<1> HIDE DEF lock, pc, taken
<1> QED BY <1>2, <1>3, <1>4, <1>5, <1>6, <1>7, ProceedStep

LEMMA CascadeLockStep ==
  ASSUME IInv, NEW k \in Clients, NEW c \in CommentIDs, CascadeLock(k, c)
  PROVE  IInv'
<1> DEFINE taken == {CommentLock(c, "Update")}
           call == [calls[k] EXCEPT !.pc = "cascade"]
<1>1. /\ calls[k] \in Call /\ calls[k].pc = "cascade" /\ CallOK(calls[k])
      /\ calls[k].op = "DeletePost" /\ Secured(k)
  BY DEF CascadeLock, IInv, TypeOK, CallOK, Call
<1>2. UNCHANGED <<tableVars, knownPosts, knownComments>> /\ overtaken' \subseteq Clients
  BY DEF CascadeLock, historyVars, IInv, TypeOK
<1>3. taken \in SUBSET Lock /\ \A l \in taken : CanLock(k, l)
  BY DEF CascadeLock, Lock, CommentLock
<1>4. call \in Call /\ call = calls[k]
  BY <1>1 DEF Call
<1>5. Proceed(k, "cascade", taken)
  BY DEF CascadeLock
<1>6. Secured(k)'
  <2>1. locks'[k] = locks[k] \cup taken /\ calls'[k] = calls[k]
    BY <1>1, <1>4, <1>5 DEF Proceed, IInv, TypeOK
  <2>2. comments[c] # Absent /\ comments[c].postID = calls[k].postID
    BY DEF CascadeLock, ToCascade
  <2>3. \A d \in CommentIDs : CommentLock(d, "Update") \in taken => d = c
    BY DEF CommentLock
  <2> HIDE DEF taken
  <2> QED BY <2>1, <2>2, <2>3, <1>1, <1>2 DEF Secured, tableVars
<1>7. CallOK(call) /\ calls[k].pc # "idle"
  BY <1>1, <1>4
<1> HIDE DEF taken
<1> QED BY <1>2, <1>3, <1>4, <1>5, <1>6, <1>7, ProceedStep

LEMMA CascadeEndsStep ==
  ASSUME IInv, NEW k \in Clients, CascadeEnds(k)
  PROVE  IInv'
<1> DEFINE taken == {}
           call == [calls[k] EXCEPT !.pc = "commit"]
<1>1. /\ calls[k] \in Call /\ calls[k].pc = "cascade" /\ CallOK(calls[k])
      /\ calls[k].op = "DeletePost" /\ Secured(k)
  BY DEF CascadeEnds, IInv, TypeOK, CallOK, Call
<1>2. UNCHANGED <<tableVars, knownPosts, knownComments>> /\ overtaken' \subseteq Clients
  BY DEF CascadeEnds, historyVars, IInv, TypeOK
<1>3. taken \in SUBSET Lock /\ \A l \in taken : CanLock(k, l)
  OBVIOUS
<1>4. call \in Call /\ CallOK(call)
  BY <1>1 DEF Call, CallOK
<1>5. Proceed(k, "commit", taken)
  BY DEF CascadeEnds
<1>6. Secured(k)'
  <2>1. locks'[k] = locks[k] /\ calls'[k] = call
    BY <1>1, <1>5 DEF Proceed, IInv, TypeOK
  <2>2. call.op = "DeletePost" /\ call.pc = "commit" /\ call.postID = calls[k].postID
    BY <1>1 DEF Call
  <2>3. ToCascade(k)' = ToCascade(k) /\ ToCascade(k) = {}
    BY <2>1, <2>2, <1>2 DEF ToCascade, tableVars, CascadeEnds
  <2> HIDE DEF call
  <2> QED BY <2>1, <2>2, <2>3, <1>1, <1>2 DEF Secured, tableVars
<1>7. calls[k].pc # "idle"
  BY <1>1
<1> HIDE DEF taken
<1> QED BY <1>2, <1>3, <1>4, <1>5, <1>6, <1>7, ProceedStep

LEMMA EndStep ==
  ASSUME IInv, NEW k \in Clients, Explain(k) \/ Cancel(k) \/ DeadlockDetected(k)
  PROVE  IInv'
<1>1. Explanation(calls[k]) \in Results /\ "error" \in Results
  BY DEF Explanation, Results
<1>2. mapCommonPostgresError("40P01") = "error"
  BY DEF mapCommonPostgresError
<1> QED BY <1>1, <1>2, AnswerStep DEF Explain, Cancel, DeadlockDetected

(***************************************************************************)
(* Steps that change a table.                                              *)
(***************************************************************************)
LEMMA CreatePostStep ==
  ASSUME IInv, NEW k \in Clients, NEW p \in PostIDs, NEW a \in Writers, NEW e \in BOOLEAN,
         CreatePost(k, p, a, e)
  PROVE  IInv'
<1>1. TypeOK'
  BY WritersAreAuthors DEF CreatePost, IInv, TypeOK, PostRow, Results
<1>2. posts[p] = Absent
  BY DEF CreatePost, IInv, IDsAreFresh
<1>3. \A q \in PostIDs : posts[q] # Absent => posts'[q] = posts[q]
  BY <1>2 DEF CreatePost, IInv, TypeOK
<1>4. IDsAreFresh'
  BY DEF CreatePost, IInv, TypeOK, IDsAreFresh
<1>5. ASSUME NEW j \in Clients PROVE Secured(j)'
  <2>1. Secured(j) /\ calls[j] \in Call /\ CallOK(calls[j])
    BY DEF IInv, TypeOK
  <2>2. calls' = calls /\ locks' = locks /\ comments' = comments
    BY DEF CreatePost
  <2> QED BY <1>3, <2>1, <2>2 DEF Secured, ToCascade, CallOK
<1> QED BY <1>1, <1>4, <1>5 DEF CreatePost, IInv, LocksAreExclusive, InTheWay, CallOK

\* A transaction ends: nothing changes for the locks of the others.
LEMMA LocksAfterEnd ==
  ASSUME IInv, NEW k \in Clients, locks' = [locks EXCEPT ![k] = {}]
  PROVE  LocksAreExclusive'
<1>1. \A j \in Clients : locks'[j] = IF j = k THEN {} ELSE locks[j]
  BY DEF IInv, TypeOK
<1> QED BY <1>1 DEF IInv, LocksAreExclusive, InTheWay

LEMMA CallsAfterEnd ==
  ASSUME IInv, NEW k \in Clients, calls' = [calls EXCEPT ![k] = Idle]
  PROVE  /\ calls' \in [Clients -> Call]
         /\ \A j \in Clients : CallOK(calls[j])'
         /\ \A j \in Clients : calls'[j] = IF j = k THEN Idle ELSE calls[j]
         /\ \A j \in Clients : calls'[j].op = "CreateComment" => j # k
<1>1. Idle \in Call /\ CallOK(Idle) /\ Idle.op = "none"
  BY DEF Idle, Call, CallOK
<1>2. \A j \in Clients : calls'[j] = IF j = k THEN Idle ELSE calls[j]
  BY DEF IInv, TypeOK
<1>3. ASSUME NEW j \in Clients PROVE CallOK(calls'[j])
  BY <1>1, <1>2 DEF IInv
<1>4. calls' \in [Clients -> Call]
  BY <1>1 DEF IInv, TypeOK
<1>5. \A j \in Clients : CallOK(calls[j])'
  BY <1>3 DEF CallOK
<1> HIDE DEF Idle
<1> QED BY <1>1, <1>2, <1>4, <1>5

LEMMA FreshAfterEnd ==
  ASSUME IInv, NEW k \in Clients, calls' = [calls EXCEPT ![k] = Idle],
         \A c \in CommentIDs : comments'[c] # Absent => c \in knownComments',
         \A p \in PostIDs : posts'[p] # Absent => p \in knownPosts',
         \A j \in Clients : j # k /\ calls[j].op = "CreateComment" =>
           calls[j].id \notin knownComments'
  PROVE  IDsAreFresh'
<1>1. \A j \in Clients : calls'[j] = IF j = k THEN Idle ELSE calls[j]
  BY CallsAfterEnd
<1>2. \A j \in Clients : calls'[j].op = "CreateComment" => j # k
  BY CallsAfterEnd
<1> HIDE DEF Idle
<1> QED BY <1>1, <1>2 DEF IInv, IDsAreFresh

LEMMA CommitCreateStep ==
  ASSUME IInv, NEW k \in Clients, CommitCreate(k)
  PROVE  IInv'
<1> DEFINE id == calls[k].id
<1>1. /\ calls[k] \in Call /\ calls[k].pc = "commit" /\ CallOK(calls[k])
      /\ calls[k].op = "CreateComment" /\ Secured(k)
      /\ id \in CommentIDs /\ id \notin knownComments
  BY DEF CommitCreate, IInv, TypeOK, CallOK, Call, IDsAreFresh
<1>2. RowOf(calls[k]) \in CommentRow /\ RowOf(calls[k]).postID = calls[k].postID
  BY <1>1 DEF RowOf, CommentRow, CallOK
<1>3. /\ calls' = [calls EXCEPT ![k] = Idle] /\ locks' = [locks EXCEPT ![k] = {}]
      /\ comments' = [comments EXCEPT ![id] = RowOf(calls[k])]
      /\ posts' = posts /\ knownPosts' = knownPosts
      /\ knownComments' = knownComments \cup {id}
      /\ answer' \in [client : Clients \cup {NoID}, result : Results]
      /\ overtaken' \subseteq Clients
  BY DEF CommitCreate, Answer, Results, IInv, TypeOK
<1>4. TypeOK'
  BY <1>1, <1>2, <1>3, CallsAfterEnd DEF IInv, TypeOK
<1>5. comments[id] = Absent
  BY <1>1 DEF IInv, IDsAreFresh
<1>6. \A c \in CommentIDs : comments[c] # Absent => comments'[c] = comments[c]
  BY <1>3, <1>5 DEF IInv, TypeOK
<1>7. IDsAreFresh'
  <2>1. \A c \in CommentIDs : comments'[c] # Absent => c \in knownComments'
    BY <1>3 DEF IInv, TypeOK, IDsAreFresh
  <2>2. \A p \in PostIDs : posts'[p] # Absent => p \in knownPosts'
    BY <1>3 DEF IInv, IDsAreFresh
  <2>3. \A j \in Clients : j # k /\ calls[j].op = "CreateComment" =>
          calls[j].id \notin knownComments'
    BY <1>1, <1>3 DEF IInv, IDsAreFresh
  <2> QED BY <1>3, <2>1, <2>2, <2>3, FreshAfterEnd
<1>8. ASSUME NEW j \in Clients PROVE Secured(j)'
  <2>1. CASE j = k
    <3>1. calls'[j] = Idle /\ locks'[j] = {}
      BY <1>3, <2>1 DEF IInv, TypeOK
    <3> QED BY <3>1 DEF Secured, Idle
  <2>2. CASE j # k
    <3>1. calls'[j] = calls[j] /\ locks'[j] = locks[j] /\ Secured(j) /\ CallOK(calls[j])
      BY <1>3, <2>2 DEF IInv, TypeOK
    <3>2. calls[j].op = "DeletePost" /\ calls[j].pc = "commit" => calls[j].postID # calls[k].postID
      <4>1. PostLock(calls[k].postID, "KeyShare") \in locks[k]
        BY <1>1 DEF Secured
      <4>2. calls[j].op = "DeletePost" /\ calls[j].pc = "commit" =>
              PostLock(calls[j].postID, "Update") \in locks[j]
        BY <3>1 DEF Secured
      <4> QED BY <4>1, <4>2, <2>2
              DEF IInv, LocksAreExclusive, InTheWay, Conflicts, PostLock
    <3>3. calls[j].op = "DeletePost" /\ calls[j].pc = "commit" => ToCascade(j)' = {}
      <4> SUFFICES ASSUME calls[j].op = "DeletePost", calls[j].pc = "commit",
                          NEW c \in CommentIDs, c \in ToCascade(j)'
                   PROVE  FALSE
        BY DEF ToCascade
      <4>1. ToCascade(j) = {}
        BY <3>1 DEF Secured
      <4>2. c = id
        BY <4>1, <3>1, <1>3 DEF ToCascade, IInv, TypeOK
      <4>3. comments'[c].postID = calls[k].postID
        BY <4>2, <1>2, <1>3, <1>1 DEF IInv, TypeOK
      <4> QED BY <4>3, <3>1, <3>2 DEF ToCascade
    <3> QED BY <3>1, <3>3, <1>3, <1>6 DEF Secured, CallOK
  <2> QED BY <2>1, <2>2
<1> QED BY <1>3, <1>4, <1>7, <1>8, LocksAfterEnd, CallsAfterEnd DEF IInv

LEMMA CommitDeleteStep ==
  ASSUME IInv, NEW k \in Clients, CommitDelete(k)
  PROVE  IInv'
<1> DEFINE p == calls[k].postID
<1>1. /\ calls[k] \in Call /\ calls[k].pc = "commit" /\ CallOK(calls[k])
      /\ calls[k].op = "DeletePost" /\ Secured(k) /\ p \in PostIDs
  BY DEF CommitDelete, IInv, TypeOK, CallOK, Call
<1>3. /\ calls' = [calls EXCEPT ![k] = Idle] /\ locks' = [locks EXCEPT ![k] = {}]
      /\ posts' = [posts EXCEPT ![p] = Absent]
      /\ comments' = [c \in CommentIDs |->
                        IF CommentLock(c, "Update") \in locks[k] THEN Absent ELSE comments[c]]
      /\ knownPosts' = knownPosts /\ knownComments' = knownComments
      /\ answer' \in [client : Clients \cup {NoID}, result : Results]
      /\ overtaken' \subseteq Clients
  BY DEF CommitDelete, Answer, Results, IInv, TypeOK
<1>4. TypeOK'
  <2>1. comments' \in [CommentIDs -> CommentRow \cup {Absent}]
    BY <1>3 DEF IInv, TypeOK
  <2>2. posts' \in [PostIDs -> PostRow \cup {Absent}]
    BY <1>3 DEF IInv, TypeOK
  <2> QED BY <2>1, <2>2, <1>3, CallsAfterEnd DEF IInv, TypeOK
<1>7. IDsAreFresh'
  <2>1. \A c \in CommentIDs : comments'[c] # Absent => c \in knownComments'
    BY <1>3 DEF IInv, IDsAreFresh
  <2>2. \A q \in PostIDs : posts'[q] # Absent => q \in knownPosts'
    BY <1>3 DEF IInv, TypeOK, IDsAreFresh
  <2>3. \A j \in Clients : j # k /\ calls[j].op = "CreateComment" =>
          calls[j].id \notin knownComments'
    BY <1>3 DEF IInv, IDsAreFresh
  <2> QED BY <1>3, <2>1, <2>2, <2>3, FreshAfterEnd
<1>8. ASSUME NEW j \in Clients PROVE Secured(j)'
  <2>1. CASE j = k
    <3>1. calls'[j] = Idle /\ locks'[j] = {}
      BY <1>3, <2>1 DEF IInv, TypeOK
    <3> QED BY <3>1 DEF Secured, Idle
  <2>2. CASE j # k
    <3>1. calls'[j] = calls[j] /\ locks'[j] = locks[j] /\ Secured(j) /\ CallOK(calls[j])
      BY <1>3, <2>2 DEF IInv, TypeOK
    <3>2. ASSUME NEW c \in CommentIDs, NEW mode \in {"KeyShare", "Update"},
                 CommentLock(c, mode) \in locks[j]
          PROVE  comments'[c] = comments[c]
      <4>1. CommentLock(c, "Update") \notin locks[k]
        BY <2>2, <3>2 DEF IInv, LocksAreExclusive, InTheWay, Conflicts, CommentLock
      <4> QED BY <4>1, <1>3
    <3>3. ASSUME NEW q \in PostIDs, NEW mode \in {"KeyShare", "Update"},
                 PostLock(q, mode) \in locks[j]
          PROVE  posts'[q] = posts[q]
      <4>1. PostLock(p, "Update") \in locks[k]
        BY <1>1 DEF Secured
      <4>2. q # p
        BY <2>2, <3>3, <4>1 DEF IInv, LocksAreExclusive, InTheWay, Conflicts, PostLock
      <4> QED BY <4>2, <1>3 DEF IInv, TypeOK
    <3>4. ToCascade(j) = {} => ToCascade(j)' = {}
      BY <3>1, <1>3 DEF ToCascade
    <3> QED BY <3>1, <3>2, <3>3, <3>4 DEF Secured, CallOK
  <2> QED BY <2>1, <2>2
<1> QED BY <1>3, <1>4, <1>7, <1>8, LocksAfterEnd, CallsAfterEnd DEF IInv

LEMMA UpdateCommentStep ==
  ASSUME IInv, NEW k \in Clients, UpdateComment(k)
  PROVE  IInv'
<1>1. /\ calls[k] \in Call /\ calls[k].pc = "update" /\ CallOK(calls[k])
      /\ calls[k].op = "DeleteComment" /\ locks[k] = {} /\ calls[k].id \in CommentIDs
  BY DEF UpdateComment, IInv, TypeOK, Secured, CallOK, Call
<1>2. UNCHANGED <<posts, knownPosts, knownComments>>
  BY DEF UpdateComment
<1>3. CASE Proceed(k, "explain", {}) /\ UNCHANGED <<comments, overtaken>>
  <2> DEFINE taken == {}
             call == [calls[k] EXCEPT !.pc = "explain"]
  <2>1. taken \in SUBSET Lock /\ \A l \in taken : CanLock(k, l)
    OBVIOUS
  <2>2. call \in Call /\ CallOK(call) /\ call.pc = "explain" /\ call.op = "DeleteComment"
    BY <1>1 DEF Call, CallOK
  <2>3. Proceed(k, "explain", taken) /\ overtaken' \subseteq Clients
    BY <1>3 DEF IInv, TypeOK
  <2>4. Secured(k)'
    <3>1. locks'[k] = {} /\ calls'[k] = call
      BY <1>1, <1>3 DEF Proceed, IInv, TypeOK
    <3> HIDE DEF call
    <3> QED BY <2>2, <3>1 DEF Secured
  <2>5. UNCHANGED <<tableVars, knownPosts, knownComments>> /\ calls[k].pc # "idle"
    BY <1>1, <1>2, <1>3 DEF tableVars
  <2> HIDE DEF taken
  <2> QED BY <2>1, <2>2, <2>3, <2>4, <2>5, ProceedStep
<1>4. CASE /\ comments[calls[k].id] # Absent
           /\ comments' = [comments EXCEPT ![calls[k].id].deleted = TRUE]
           /\ calls' = [calls EXCEPT ![k] = Idle]
           /\ \E result \in {"nil", "error"} : answer' = [client |-> k, result |-> result]
           /\ overtaken' = overtaken \cup
                {j \in Clients : CommentLock(calls[k].id, "KeyShare") \in locks[j]}
           /\ UNCHANGED locks
  <2>1. /\ \A c \in CommentIDs : comments'[c] \in CommentRow \cup {Absent}
        /\ \A c \in CommentIDs : comments[c] # Absent =>
             comments'[c] # Absent /\ comments'[c].postID = comments[c].postID
        /\ \A c \in CommentIDs : comments[c] = Absent => comments'[c] = Absent
        /\ comments' \in [CommentIDs -> CommentRow \cup {Absent}]
    <3> DEFINE id == calls[k].id
               row == [comments[id] EXCEPT !.deleted = TRUE]
    <3>1. comments[id] \in CommentRow
      BY <1>1, <1>4 DEF IInv, TypeOK
    <3>2. row \in CommentRow /\ row.postID = comments[id].postID /\ row # Absent
      BY <3>1, AbsentIsNoRow DEF CommentRow
    <3>3. comments' = [comments EXCEPT ![id] = row]
      BY <1>4
    <3>4. \A c \in CommentIDs : comments'[c] = IF c = id THEN row ELSE comments[c]
      BY <1>1, <3>3 DEF IInv, TypeOK
    <3>5. comments' \in [CommentIDs -> CommentRow \cup {Absent}]
      BY <3>2, <3>3 DEF IInv, TypeOK
    <3> HIDE DEF row
    <3> QED BY <1>4, <3>2, <3>4, <3>5
  <2>2. TypeOK'
    <3>1. answer' \in [client : Clients \cup {NoID}, result : Results]
      BY <1>4 DEF Results
    <3> QED BY <1>2, <1>4, <2>1, <3>1, CallsAfterEnd DEF IInv, TypeOK
  <2>3. IDsAreFresh'
    BY <1>2, <1>4, <2>1, FreshAfterEnd DEF IInv, IDsAreFresh
  <2>4. ASSUME NEW j \in Clients PROVE Secured(j)'
    <3>1. CASE j = k
      <4>1. calls'[j] = Idle /\ locks'[j] = {}
        BY <1>1, <1>4, <3>1 DEF IInv, TypeOK
      <4> QED BY <4>1 DEF Secured, Idle
    <3>2. CASE j # k
      <4>1. /\ calls'[j] = calls[j] /\ locks'[j] = locks[j] /\ posts' = posts
            /\ Secured(j) /\ CallOK(calls[j])
        BY <1>2, <1>4, <3>2 DEF IInv, TypeOK
      <4>2. ToCascade(j)' = ToCascade(j)
        BY <4>1, <2>1 DEF ToCascade
      <4> QED BY <4>1, <4>2, <2>1 DEF Secured, CallOK
    <3> QED BY <3>1, <3>2
  <2> QED BY <1>4, <2>2, <2>3, <2>4, CallsAfterEnd DEF IInv, LocksAreExclusive, InTheWay
<1> QED BY <1>3, <1>4 DEF UpdateComment

LEMMA UpdatePostStep ==
  ASSUME IInv, NEW k \in Clients, UpdatePost(k)
  PROVE  IInv'
<1>1. /\ calls[k] \in Call /\ calls[k].pc = "update" /\ CallOK(calls[k])
      /\ calls[k].op = "SetCommentsEnabled" /\ locks[k] = {} /\ calls[k].postID \in PostIDs
  BY DEF UpdatePost, IInv, TypeOK, Secured, CallOK, Call
<1>2. UNCHANGED <<comments, knownPosts, knownComments>>
  BY DEF UpdatePost
<1>3. CASE Proceed(k, "explain", {}) /\ UNCHANGED <<posts, overtaken>>
  <2> DEFINE taken == {}
             call == [calls[k] EXCEPT !.pc = "explain"]
  <2>1. taken \in SUBSET Lock /\ \A l \in taken : CanLock(k, l)
    OBVIOUS
  <2>2. call \in Call /\ CallOK(call) /\ call.pc = "explain" /\ call.op = "SetCommentsEnabled"
    BY <1>1 DEF Call, CallOK
  <2>3. Proceed(k, "explain", taken) /\ overtaken' \subseteq Clients
    BY <1>3 DEF IInv, TypeOK
  <2>4. Secured(k)'
    <3>1. locks'[k] = {} /\ calls'[k] = call
      BY <1>1, <1>3 DEF Proceed, IInv, TypeOK
    <3> HIDE DEF call
    <3> QED BY <2>2, <3>1 DEF Secured
  <2>5. UNCHANGED <<tableVars, knownPosts, knownComments>> /\ calls[k].pc # "idle"
    BY <1>1, <1>2, <1>3 DEF tableVars
  <2> HIDE DEF taken
  <2> QED BY <2>1, <2>2, <2>3, <2>4, <2>5, ProceedStep
<1>4. CASE /\ posts[calls[k].postID] # Absent
           /\ posts' = [posts EXCEPT ![calls[k].postID].commentsEnabled = calls[k].enabled]
           /\ \E result \in {"nil", "error"} : Answer(k, result)
  <2>0. /\ calls' = [calls EXCEPT ![k] = Idle] /\ locks' = [locks EXCEPT ![k] = {}]
        /\ answer' \in [client : Clients \cup {NoID}, result : Results]
        /\ overtaken' \subseteq Clients
    BY <1>4 DEF Answer, Results, IInv, TypeOK
  <2>1. /\ \A p \in PostIDs : posts[p] # Absent => posts'[p] # Absent
        /\ \A p \in PostIDs : posts[p] = Absent => posts'[p] = Absent
        /\ posts' \in [PostIDs -> PostRow \cup {Absent}]
    BY <1>1, <1>4, AbsentIsNoRow DEF IInv, TypeOK, PostRow, Call
  <2>2. TypeOK'
    BY <1>2, <2>0, <2>1, CallsAfterEnd DEF IInv, TypeOK
  <2>3. IDsAreFresh'
    BY <1>2, <2>0, <2>1, FreshAfterEnd DEF IInv, IDsAreFresh
  <2>4. ASSUME NEW j \in Clients PROVE Secured(j)'
    <3>1. CASE j = k
      <4>1. calls'[j] = Idle /\ locks'[j] = {}
        BY <2>0, <3>1 DEF IInv, TypeOK
      <4> QED BY <4>1 DEF Secured, Idle
    <3>2. CASE j # k
      <4>1. /\ calls'[j] = calls[j] /\ locks'[j] = locks[j] /\ comments' = comments
            /\ Secured(j) /\ CallOK(calls[j])
        BY <1>2, <2>0, <3>2 DEF IInv, TypeOK
      <4>2. ToCascade(j)' = ToCascade(j)
        BY <4>1 DEF ToCascade
      <4> QED BY <4>1, <4>2, <2>1 DEF Secured, CallOK
    <3> QED BY <3>1, <3>2
  <2> QED BY <2>0, <2>2, <2>3, <2>4, LocksAfterEnd, CallsAfterEnd DEF IInv
<1> QED BY <1>3, <1>4 DEF UpdatePost

(***************************************************************************)
(* The invariant.                                                          *)
(***************************************************************************)
LEMMA StutterIInv ==
  ASSUME IInv, UNCHANGED vars
  PROVE  IInv'
BY DEF vars, tableVars, historyVars, IInv, TypeOK, CallOK, IDsAreFresh, Secured, ToCascade,
       LocksAreExclusive, InTheWay

LEMMA NextIInv ==
  ASSUME IInv, [Next]_vars
  PROVE  IInv'
<1>1. CASE UNCHANGED vars
  BY <1>1, StutterIInv
<1>2. ASSUME NEW k \in Clients, NewCall(k) PROVE IInv'
  BY <1>2, NewCallStep, CreatePostStep DEF NewCall
<1>3. ASSUME NEW k \in Clients, StatementStep(k) PROVE IInv'
  BY <1>3, BeginStep, SelectParentStep, InsertStep, CommitCreateStep, LockPostStep,
     CascadeLockStep, CascadeEndsStep, CommitDeleteStep, UpdateCommentStep, UpdatePostStep,
     EndStep
     DEF StatementStep
<1>4. ASSUME NEW k \in Clients, Cancel(k) \/ DeadlockDetected(k) PROVE IInv'
  BY <1>4, EndStep
<1> QED BY <1>1, <1>2, <1>3, <1>4 DEF Next

LEMMA Invariance == Spec => []IInv
<1>1. Init => IInv
  BY InitIInv
<1>2. IInv /\ [Next]_vars => IInv'
  BY NextIInv
<1> QED BY <1>1, <1>2, PTL DEF Spec

\* The variables keep their types, for every number of requests and rows.
THEOREM PostgresTypeCorrect == Spec => []TypeOK
<1>1. IInv => TypeOK
  BY DEF IInv
<1> QED BY <1>1, Invariance, PTL

\* No row is locked by two open transactions in modes that conflict, whatever the
\* statements of the two repositories do (FOR KEY SHARE at comment_repository.go:51,
\* the foreign keys and cascades of migrations 002).
THEOREM LocksExclude == Spec => []LocksAreExclusive
<1>1. IInv => LocksAreExclusive
  BY DEF IInv
<1> QED BY <1>1, Invariance, PTL

\* A reply that is on its way to its commit
Replying(k) ==
  /\ calls[k].op = "CreateComment" /\ calls[k].pc \in {"insert", "commit"}
  /\ calls[k].parentID # NoParent

LEMMA RepliesSawALiveParentStep ==
  ASSUME IInv, RepliesSawALiveParent, [Next]_vars
  PROVE  RepliesSawALiveParent'
<1> SUFFICES ASSUME NEW j \in Clients, Replying(j)', comments'[calls'[j].parentID].deleted
             PROVE  j \in overtaken'
  <2>1. IInv'
    BY NextIInv
  <2>2. \A k \in Clients : Replying(k)' => comments'[calls'[k].parentID] # Absent
    BY <2>1 DEF IInv, Secured, Replying
  <2> QED BY <2>2 DEF RepliesSawALiveParent, Replying
<1>1. IInv'
  BY NextIInv
<1>2. CASE UNCHANGED vars
  BY <1>2 DEF vars, tableVars, historyVars, RepliesSawALiveParent, Replying
<1>3. ASSUME calls'[j] = calls[j],
             comments'[calls[j].parentID] = comments[calls[j].parentID],
             j \in overtaken => j \in overtaken'
      PROVE  j \in overtaken'
  BY <1>3 DEF RepliesSawALiveParent, Replying
<1>4. ASSUME NEW k \in Clients, k # j,
             NewCall(k) \/ StatementStep(k) \/ Cancel(k) \/ DeadlockDetected(k)
      PROVE  j \in overtaken'
  <2>1. calls'[j] = calls[j] /\ (j \in overtaken => j \in overtaken')
    BY <1>4 DEF NewCall, CallCreateComment, CallDeletePost, CallDeleteComment,
                CallSetCommentsEnabled, Start, CreatePost, StatementStep, Begin, SelectParent,
                Insert, CommitCreate, LockPost, CascadeLock, CascadeEnds, CommitDelete,
                UpdateComment, UpdatePost, Explain, Cancel, DeadlockDetected, Answer, Proceed,
                historyVars, IInv, TypeOK
  <2>2. /\ Replying(j) /\ CallOK(calls[j]) /\ calls[j].parentID \in CommentIDs
        /\ comments[calls[j].parentID] # Absent
        /\ CommentLock(calls[j].parentID, "KeyShare") \in locks[j]
    BY <2>1 DEF Replying, IInv, CallOK, Secured
  <2>3. CASE CommitCreate(k)
    <3>1. calls[k].id # calls[j].parentID /\ calls[k].id \in CommentIDs
      BY <2>2, <2>3 DEF CommitCreate, IInv, IDsAreFresh, CallOK
    <3>2. comments'[calls[j].parentID] = comments[calls[j].parentID]
      BY <2>2, <2>3, <3>1 DEF CommitCreate, IInv, TypeOK
    <3> QED BY <1>3, <2>1, <3>2
  <2>4. CASE CommitDelete(k)
    <3>1. CommentLock(calls[j].parentID, "Update") \notin locks[k]
      BY <1>4, <2>2 DEF IInv, LocksAreExclusive, InTheWay, Conflicts, CommentLock
    <3>2. comments'[calls[j].parentID] = comments[calls[j].parentID]
      BY <2>2, <2>4, <3>1 DEF CommitDelete
    <3> QED BY <1>3, <2>1, <3>2
  <2>5. CASE UpdateComment(k)
    <3>1. CASE calls[k].id = calls[j].parentID /\ comments' # comments
      BY <2>2, <2>5, <3>1 DEF UpdateComment
    <3>2. CASE calls[k].id # calls[j].parentID \/ comments' = comments
      <4>1. comments'[calls[j].parentID] = comments[calls[j].parentID]
        BY <2>2, <2>5, <3>2 DEF UpdateComment, IInv, TypeOK
      <4> QED BY <1>3, <2>1, <4>1
    <3> QED BY <3>1, <3>2
  <2>6. CASE UNCHANGED comments
    BY <1>3, <2>1, <2>6
  <2> QED BY <1>4, <2>3, <2>4, <2>5, <2>6
          DEF NewCall, CallCreateComment, CallDeletePost, CallDeleteComment,
              CallSetCommentsEnabled, Start, CreatePost, StatementStep, Begin, SelectParent,
              Insert, LockPost, CascadeLock, CascadeEnds, UpdatePost, Explain, Cancel,
              DeadlockDetected, tableVars
<1>5. ASSUME NewCall(j) \/ StatementStep(j) \/ Cancel(j) \/ DeadlockDetected(j)
      PROVE  j \in overtaken'
  <2>1. calls[j] \in Call /\ CallOK(calls[j])
    BY DEF IInv, TypeOK
  <2>2. CASE SelectParent(j)
    <3>1. CASE Answer(j, "ErrCommentNotFound") \/ Answer(j, "ErrInvalidParentComment")
      BY <3>1 DEF Answer, Idle, Replying, IInv, TypeOK
    <3>2. CASE LiveParent(j) /\ calls' = [calls EXCEPT ![j].pc = "insert"]
      <4>1. calls'[j].parentID = calls[j].parentID
        BY <3>2, <2>1 DEF IInv, TypeOK, Call
      <4> QED BY <2>2, <3>2, <4>1 DEF SelectParent, LiveParent, tableVars
    <3> QED BY <2>2, <3>1, <3>2 DEF SelectParent, Proceed
  <2>3. CASE Insert(j)
    <3>1. CASE \E result \in Results \cup {mapCommonPostgresError(ForeignKeyViolation(calls[j]))} :
                  Answer(j, result)
      BY <3>1 DEF Answer, Idle, Replying, IInv, TypeOK
    <3>2. CASE calls' = [calls EXCEPT ![j].pc = "commit"] /\ UNCHANGED overtaken
      <4>1. /\ calls'[j].parentID = calls[j].parentID /\ calls'[j].op = calls[j].op
            /\ calls[j].pc = "insert"
        BY <2>3, <3>2, <2>1 DEF IInv, TypeOK, Call, Insert
      <4> QED BY <2>3, <3>2, <4>1 DEF Insert, tableVars, RepliesSawALiveParent, Replying
    <3> QED BY <2>3, <3>1, <3>2 DEF Insert, Proceed
  <2>4. CASE Begin(j)
    <3>1. calls' = [calls EXCEPT ![j].pc = FirstStatement(calls[j])]
      BY <2>4 DEF Begin, Proceed
    <3>2. /\ calls'[j].pc = FirstStatement(calls[j]) /\ calls'[j].op = calls[j].op
          /\ calls'[j].parentID = calls[j].parentID
      BY <2>1, <3>1 DEF IInv, TypeOK, Call
    <3> QED BY <3>2 DEF Replying, FirstStatement
  <2>5. CASE NewCall(j)
    <3>1. CASE \E p \in PostIDs, a \in Writers, e \in BOOLEAN : CreatePost(j, p, a, e)
      BY <3>1 DEF CreatePost, Replying
    <3>2. ASSUME NEW call, Start(j, call), call.pc = "begin"
          PROVE  ~ Replying(j)'
      BY <3>2 DEF Start, Replying, IInv, TypeOK
    <3>3. /\ \A id, p, parent, a, verbatim :
               CallCreateComment(j, id, p, parent, a, verbatim) => ~ Replying(j)'
          /\ \A p, a : CallDeletePost(j, p, a) => ~ Replying(j)'
          /\ \A c, a : CallDeleteComment(j, c, a) => ~ Replying(j)'
          /\ \A p, a, e : CallSetCommentsEnabled(j, p, a, e) => ~ Replying(j)'
      BY <3>2 DEF CallCreateComment, CallDeletePost, CallDeleteComment, CallSetCommentsEnabled,
                  Idle
    <3> QED BY <2>5, <3>1, <3>3 DEF NewCall
  <2>6. CASE LockPost(j) \/ (\E c \in CommentIDs : CascadeLock(j, c)) \/ CascadeEnds(j)
    <3>1. /\ calls[j].op = "DeletePost"
          /\ \E pc \in {"cascade", "explain", "commit"} : calls' = [calls EXCEPT ![j].pc = pc]
      BY <2>1, <2>6 DEF LockPost, CascadeLock, CascadeEnds, Proceed, CallOK, Call
    <3>2. calls'[j].op = calls[j].op
      BY <2>1, <3>1 DEF IInv, TypeOK, Call
    <3> QED BY <3>1, <3>2 DEF Replying
  <2>7. CASE calls' = [calls EXCEPT ![j] = Idle]
    BY <2>7 DEF Idle, Replying, IInv, TypeOK
  <2>8. CASE UpdateComment(j) \/ UpdatePost(j)
    <3>1. CASE calls' = [calls EXCEPT ![j].pc = "explain"]
      <4>1. calls'[j].pc = "explain"
        BY <2>1, <3>1 DEF IInv, TypeOK, Call
      <4> QED BY <4>1 DEF Replying
    <3> QED BY <2>7, <2>8, <3>1 DEF UpdateComment, UpdatePost, Proceed, Answer
  <2> QED BY <1>5, <2>2, <2>3, <2>4, <2>5, <2>6, <2>7, <2>8
          DEF StatementStep, CommitCreate, CommitDelete, Explain, Cancel, DeadlockDetected, Answer
<1> QED BY <1>2, <1>4, <1>5 DEF Next

\* A reply is stored under a soft-deleted comment only if it was overtaken: its
\* transaction had selected the parent (comment_repository.go:47-58) before the
\* deletion.
THEOREM RepliesSawALiveParentAlways == Spec => []RepliesSawALiveParent
<1>1. Init => RepliesSawALiveParent
  BY DEF Init, RepliesSawALiveParent, Idle
<1>2. IInv /\ RepliesSawALiveParent /\ [Next]_vars => RepliesSawALiveParent'
  BY RepliesSawALiveParentStep
<1> QED BY <1>1, <1>2, Invariance, PTL DEF Spec

(***************************************************************************)
(* What a call is told.                                                    *)
(***************************************************************************)

\* A call names what has been stored at some time, so a row that it does not find
\* never comes back.
CallsNameStored ==
  \A k \in Clients :
    /\ calls[k].op = "DeleteComment" => calls[k].id \in knownComments
    /\ calls[k].op \in {"DeletePost", "SetCommentsEnabled"} => calls[k].postID \in knownPosts

\* Between the statement that touched no row and GetByID, the row may vanish, but
\* what is there then is somebody else's.
NothingOfItsOwn(k) ==
  LET call == calls[k] IN
  call.pc = "explain" =>
    IF call.op = "DeleteComment"
    THEN \/ comments[call.id] = Absent \/ comments[call.id].deleted
         \/ comments[call.id].authorID # call.authorID
    ELSE posts[call.postID] = Absent \/ posts[call.postID].authorID # call.authorID

ExplanationInv == CallsNameStored /\ \A k \in Clients : NothingOfItsOwn(k)

\* No row comes back, is undeleted or changes hands.
LEMMA RowsOnlyVanish ==
  ASSUME IInv, [Next]_vars
  PROVE  /\ knownComments \subseteq knownComments' /\ knownPosts \subseteq knownPosts'
         /\ \A c \in knownComments : comments'[c] # Absent =>
              /\ comments[c] # Absent
              /\ comments'[c].authorID = comments[c].authorID
              /\ comments[c].deleted => comments'[c].deleted
         /\ \A p \in knownPosts : posts'[p] # Absent =>
              posts[p] # Absent /\ posts'[p].authorID = posts[p].authorID
<1>1. CASE UNCHANGED <<tableVars, knownComments, knownPosts>>
  BY <1>1 DEF tableVars
<1>2. ASSUME NEW k \in Clients, CommitCreate(k)
      PROVE  /\ calls[k].id \notin knownComments
             /\ \A c \in knownComments : comments'[c] = comments[c]
             /\ knownComments' = knownComments \cup {calls[k].id}
             /\ UNCHANGED <<posts, knownPosts>>
  BY <1>2 DEF CommitCreate, IInv, TypeOK, IDsAreFresh
<1>3. ASSUME NEW k \in Clients, CommitDelete(k)
      PROVE  /\ \A c \in knownComments : comments'[c] \in {Absent, comments[c]}
             /\ \A p \in knownPosts : posts'[p] \in {Absent, posts[p]}
             /\ UNCHANGED <<knownComments, knownPosts>>
  BY <1>3 DEF CommitDelete, IInv, TypeOK
<1>4. ASSUME NEW k \in Clients, UpdateComment(k), comments' # comments
      PROVE  /\ \A c \in knownComments :
                  comments'[c] # comments[c] =>
                    /\ comments[c] # Absent
                    /\ comments'[c].authorID = comments[c].authorID /\ comments'[c].deleted
             /\ UNCHANGED <<posts, knownComments, knownPosts>>
  <2>1. /\ calls[k].id \in CommentIDs /\ comments[calls[k].id] # Absent
        /\ comments' = [comments EXCEPT ![calls[k].id].deleted = TRUE]
        /\ UNCHANGED <<posts, knownComments, knownPosts>>
    BY <1>4 DEF UpdateComment, IInv, CallOK
  <2>2. comments[calls[k].id] \in CommentRow
    BY <2>1 DEF IInv, TypeOK
  <2>3. \A c \in CommentIDs : c # calls[k].id => comments'[c] = comments[c]
    BY <2>1 DEF IInv, TypeOK
  <2>4. /\ comments'[calls[k].id].authorID = comments[calls[k].id].authorID
        /\ comments'[calls[k].id].deleted
    BY <2>1, <2>2 DEF IInv, TypeOK, CommentRow
  <2> QED BY <2>1, <2>3, <2>4 DEF IInv, TypeOK
<1>5. ASSUME NEW k \in Clients, UpdatePost(k), posts' # posts
      PROVE  /\ \A p \in knownPosts :
                  posts'[p] # posts[p] =>
                    posts[p] # Absent /\ posts'[p].authorID = posts[p].authorID
             /\ UNCHANGED <<comments, knownComments, knownPosts>>
  <2>1. /\ calls[k].postID \in PostIDs /\ posts[calls[k].postID] # Absent
        /\ posts' = [posts EXCEPT ![calls[k].postID].commentsEnabled = calls[k].enabled]
        /\ UNCHANGED <<comments, knownComments, knownPosts>>
    BY <1>5 DEF UpdatePost, IInv, CallOK
  <2>2. posts[calls[k].postID] \in PostRow
    BY <2>1 DEF IInv, TypeOK
  <2>3. \A p \in PostIDs : p # calls[k].postID => posts'[p] = posts[p]
    BY <2>1 DEF IInv, TypeOK
  <2>4. posts'[calls[k].postID].authorID = posts[calls[k].postID].authorID
    BY <2>1, <2>2 DEF IInv, TypeOK, PostRow
  <2> QED BY <2>1, <2>3, <2>4 DEF IInv, TypeOK
<1>6. ASSUME NEW k \in Clients, NEW p \in PostIDs, NEW a \in Writers, NEW e \in BOOLEAN,
             CreatePost(k, p, a, e)
      PROVE  /\ \A q \in knownPosts : posts'[q] = posts[q]
             /\ knownPosts' = knownPosts \cup {p}
             /\ UNCHANGED <<comments, knownComments>>
  BY <1>6 DEF CreatePost, IInv, TypeOK
<1>7. CASE \E k \in Clients : UpdateComment(k)
  BY <1>1, <1>4, <1>7 DEF UpdateComment, tableVars
<1>8. CASE \E k \in Clients : UpdatePost(k)
  BY <1>1, <1>5, <1>8 DEF UpdatePost, tableVars
<1>9. CASE UNCHANGED vars
  BY <1>1, <1>9 DEF vars, historyVars
<1> QED BY <1>1, <1>2, <1>3, <1>6, <1>7, <1>8, <1>9
        DEF Next, NewCall, CallCreateComment, CallDeletePost, CallDeleteComment,
            CallSetCommentsEnabled, Start, StatementStep, Begin, SelectParent, Insert, LockPost,
            CascadeLock, CascadeEnds, Explain, Cancel, DeadlockDetected, historyVars

\* What a call asks for stays as it is while its statements go on.
LEMMA ProceedKeepsTheCall ==
  ASSUME IInv, NEW k \in Clients, NEW pc, NEW taken, Proceed(k, pc, taken)
  PROVE  /\ calls'[k].pc = pc /\ calls'[k].op = calls[k].op /\ calls'[k].id = calls[k].id
         /\ calls'[k].postID = calls[k].postID /\ calls'[k].authorID = calls[k].authorID
BY DEF Proceed, IInv, TypeOK, Call

LEMMA CallsNameStoredStep ==
  ASSUME IInv, CallsNameStored, [Next]_vars
  PROVE  CallsNameStored'
<1> SUFFICES ASSUME NEW j \in Clients
             PROVE  /\ calls'[j].op = "DeleteComment" => calls'[j].id \in knownComments'
                    /\ calls'[j].op \in {"DeletePost", "SetCommentsEnabled"} =>
                         calls'[j].postID \in knownPosts'
  BY DEF CallsNameStored
<1>1. knownComments \subseteq knownComments' /\ knownPosts \subseteq knownPosts'
  BY RowsOnlyVanish
<1>2. CASE /\ calls'[j].op = calls[j].op /\ calls'[j].id = calls[j].id
           /\ calls'[j].postID = calls[j].postID
  BY <1>1, <1>2 DEF CallsNameStored
<1>3. CASE calls'[j] = Idle
  BY <1>3 DEF Idle
<1>4. CASE UNCHANGED vars
  BY <1>2, <1>4 DEF vars
<1>5. ASSUME NEW k \in Clients, k # j,
             NewCall(k) \/ StatementStep(k) \/ Cancel(k) \/ DeadlockDetected(k)
      PROVE  calls'[j] = calls[j]
  BY <1>5 DEF NewCall, CallCreateComment, CallDeletePost, CallDeleteComment,
              CallSetCommentsEnabled, Start, CreatePost, StatementStep, Begin, SelectParent,
              Insert, CommitCreate, LockPost, CascadeLock, CascadeEnds, CommitDelete,
              UpdateComment, UpdatePost, Explain, Cancel, DeadlockDetected, Answer, Proceed,
              IInv, TypeOK
<1>6. CASE NewCall(j)
  <2>1. CASE UNCHANGED calls
    BY <1>2, <2>1
  <2>2. ASSUME NEW call, Start(j, call),
               call.op = "DeleteComment" => call.id \in knownComments,
               call.op \in {"DeletePost", "SetCommentsEnabled"} => call.postID \in knownPosts
        PROVE  /\ calls'[j].op = "DeleteComment" => calls'[j].id \in knownComments'
               /\ calls'[j].op \in {"DeletePost", "SetCommentsEnabled"} =>
                    calls'[j].postID \in knownPosts'
    BY <1>1, <2>2 DEF Start, IInv, TypeOK
  <2> QED BY <1>6, <2>1, <2>2
          DEF NewCall, CallCreateComment, CallDeletePost, CallDeleteComment,
              CallSetCommentsEnabled, CreatePost, Idle
<1>7. CASE StatementStep(j) \/ Cancel(j) \/ DeadlockDetected(j)
  <2>1. ASSUME NEW pc, NEW taken, Proceed(j, pc, taken)
        PROVE  /\ calls'[j].op = calls[j].op /\ calls'[j].id = calls[j].id
               /\ calls'[j].postID = calls[j].postID
    BY <2>1, ProceedKeepsTheCall
  <2>2. CASE calls' = [calls EXCEPT ![j] = Idle]
    BY <1>3, <2>2 DEF IInv, TypeOK
  <2>3. CASE \/ Begin(j) \/ SelectParent(j) \/ Insert(j) \/ LockPost(j) \/ CascadeEnds(j)
             \/ \E c \in CommentIDs : CascadeLock(j, c)
             \/ UpdateComment(j) \/ UpdatePost(j)
    BY <1>2, <2>1, <2>2, <2>3
       DEF Begin, SelectParent, Insert, LockPost, CascadeEnds, CascadeLock, UpdateComment,
           UpdatePost, Answer
  <2>4. CASE \/ CommitCreate(j) \/ CommitDelete(j) \/ Explain(j) \/ Cancel(j)
             \/ DeadlockDetected(j)
    BY <2>2, <2>4 DEF CommitCreate, CommitDelete, Explain, Cancel, DeadlockDetected, Answer
  <2> QED BY <1>7, <2>3, <2>4 DEF StatementStep
<1> QED BY <1>2, <1>4, <1>5, <1>6, <1>7 DEF Next

LEMMA NothingOfItsOwnStep ==
  ASSUME IInv, ExplanationInv, [Next]_vars, NEW j \in Clients
  PROVE  NothingOfItsOwn(j)'
<1>1. /\ CallOK(calls[j]) /\ CallsNameStored /\ NothingOfItsOwn(j)
  BY DEF IInv, ExplanationInv
<1>2. CASE calls'[j].pc # "explain"
  BY <1>2 DEF NothingOfItsOwn
<1>3. CASE calls'[j] = calls[j]
  <2>1. CASE calls[j].op = "DeleteComment"
    BY <1>1, <1>3, <2>1, RowsOnlyVanish DEF NothingOfItsOwn, CallsNameStored
  <2>2. CASE calls[j].op # "DeleteComment" /\ calls[j].pc = "explain"
    <3>1. calls[j].op \in {"DeletePost", "SetCommentsEnabled"}
      BY <1>1, <2>2, IInv DEF CallOK, IInv, TypeOK, Call
    <3> QED BY <1>1, <1>3, <2>2, <3>1, RowsOnlyVanish DEF NothingOfItsOwn, CallsNameStored
  <2>3. CASE calls[j].pc # "explain"
    BY <1>2, <1>3, <2>3
  <2> QED BY <2>1, <2>2, <2>3
<1>4. ASSUME Proceed(j, "explain", {}), UNCHANGED tableVars,
             IF calls[j].op = "DeleteComment"
             THEN \/ comments[calls[j].id] = Absent \/ comments[calls[j].id].deleted
                  \/ comments[calls[j].id].authorID # calls[j].authorID
             ELSE \/ posts[calls[j].postID] = Absent
                  \/ posts[calls[j].postID].authorID # calls[j].authorID
      PROVE  NothingOfItsOwn(j)'
  BY <1>4, ProceedKeepsTheCall DEF NothingOfItsOwn, tableVars
<1>5. CASE UNCHANGED vars
  BY <1>3, <1>5 DEF vars
<1>6. ASSUME NEW k \in Clients, k # j,
             NewCall(k) \/ StatementStep(k) \/ Cancel(k) \/ DeadlockDetected(k)
      PROVE  calls'[j] = calls[j]
  BY <1>6 DEF NewCall, CallCreateComment, CallDeletePost, CallDeleteComment,
              CallSetCommentsEnabled, Start, CreatePost, StatementStep, Begin, SelectParent,
              Insert, CommitCreate, LockPost, CascadeLock, CascadeEnds, CommitDelete,
              UpdateComment, UpdatePost, Explain, Cancel, DeadlockDetected, Answer, Proceed,
              IInv, TypeOK
<1>7. CASE NewCall(j)
  <2>1. CASE UNCHANGED calls
    BY <1>3, <2>1
  <2>2. ASSUME NEW call, Start(j, call), call.pc = "begin"
        PROVE  calls'[j].pc # "explain"
    BY <2>2 DEF Start, IInv, TypeOK
  <2> QED BY <1>2, <1>7, <2>1, <2>2
          DEF NewCall, CallCreateComment, CallDeletePost, CallDeleteComment,
              CallSetCommentsEnabled, CreatePost, Idle
<1>8. ASSUME calls' = [calls EXCEPT ![j] = Idle]
      PROVE  NothingOfItsOwn(j)'
  BY <1>2, <1>8 DEF IInv, TypeOK, Idle
<1>9. CASE LockPost(j)
  <2>1. calls[j].op = "DeletePost"
    BY <1>1, <1>9 DEF LockPost, CallOK, IInv, TypeOK, Call
  <2> QED BY <1>2, <1>4, <1>9, <2>1, ProceedKeepsTheCall DEF LockPost
<1>10. CASE UpdateComment(j) \/ UpdatePost(j)
  <2>1. CASE UpdateComment(j)
    <3>1. CASE /\ comments[calls[j].id] # Absent
               /\ comments[calls[j].id].authorID = calls[j].authorID
               /\ ~ comments[calls[j].id].deleted
      BY <1>8, <2>1, <3>1 DEF UpdateComment
    <3>2. CASE \/ comments[calls[j].id] = Absent \/ comments[calls[j].id].deleted
               \/ comments[calls[j].id].authorID # calls[j].authorID
      <4>1. Proceed(j, "explain", {}) /\ UNCHANGED tableVars /\ calls[j].op = "DeleteComment"
        BY <2>1, <3>2 DEF UpdateComment, tableVars
      <4> QED BY <1>4, <3>2, <4>1
    <3> QED BY <3>1, <3>2
  <2>2. CASE UpdatePost(j)
    <3>1. CASE /\ posts[calls[j].postID] # Absent
               /\ posts[calls[j].postID].authorID = calls[j].authorID
      BY <1>8, <2>2, <3>1 DEF UpdatePost, Answer
    <3>2. CASE \/ posts[calls[j].postID] = Absent
               \/ posts[calls[j].postID].authorID # calls[j].authorID
      <4>1. /\ Proceed(j, "explain", {}) /\ UNCHANGED tableVars
            /\ calls[j].op = "SetCommentsEnabled"
        BY <2>2, <3>2 DEF UpdatePost, tableVars
      <4> QED BY <1>4, <3>2, <4>1
    <3> QED BY <3>1, <3>2
  <2> QED BY <1>10, <2>1, <2>2
<1>11. CASE \/ Begin(j) \/ SelectParent(j) \/ Insert(j) \/ CascadeEnds(j)
            \/ \E c \in CommentIDs : CascadeLock(j, c)
  <2>1. ASSUME NEW pc, NEW taken, Proceed(j, pc, taken), pc # "explain"
        PROVE  NothingOfItsOwn(j)'
    BY <1>2, <2>1, ProceedKeepsTheCall
  <2>2. ASSUME NEW result, Answer(j, result) PROVE NothingOfItsOwn(j)'
    BY <1>8, <2>2 DEF Answer
  <2>3. FirstStatement(calls[j]) # "explain"
    BY DEF FirstStatement
  <2> QED BY <1>11, <2>1, <2>2, <2>3 DEF Begin, SelectParent, Insert, CascadeEnds, CascadeLock
<1>12. CASE \/ CommitCreate(j) \/ CommitDelete(j) \/ Explain(j) \/ Cancel(j)
            \/ DeadlockDetected(j)
  BY <1>8, <1>12 DEF CommitCreate, CommitDelete, Explain, Cancel, DeadlockDetected, Answer
<1> QED BY <1>3, <1>5, <1>6, <1>7, <1>9, <1>10, <1>11, <1>12 DEF Next, StatementStep

LEMMA ExplanationAlways == Spec => []ExplanationInv
<1>1. Init => ExplanationInv
  BY DEF Init, Idle, ExplanationInv, CallsNameStored, NothingOfItsOwn
<1>2. IInv /\ ExplanationInv /\ [Next]_vars => ExplanationInv'
  BY CallsNameStoredStep, NothingOfItsOwnStep DEF ExplanationInv
<1> QED BY <1>1, <1>2, Invariance, PTL DEF Spec

\* One answer, as AnswersAreTrue wants it
TrueAnswer(k) ==
  LET call == calls[k] IN
    answer'.client = k /\ call.pc # "idle" =>
      /\ answer'.result \notin {"nil", "error"} => UNCHANGED tableVars
      /\ call.op = "CreateComment" /\ answer'.result = "nil" => comments'[call.id] # Absent
      /\ call.op = "DeleteComment" /\ answer'.result = "nil" => comments'[call.id].deleted
      /\ answer'.result = "ErrForbidden" =>
           IF call.op = "DeleteComment"
           THEN comments[call.id].authorID # call.authorID
           ELSE posts[call.postID].authorID # call.authorID

LEMMA AnswersAreTrueStep ==
  ASSUME IInv, ExplanationInv, Next, NEW k \in Clients
  PROVE  TrueAnswer(k)
<1>1. calls[k] \in Call /\ CallOK(calls[k]) /\ NothingOfItsOwn(k)
  BY DEF IInv, TypeOK, ExplanationInv
<1>2. CASE answer'.client # k
  BY <1>2 DEF TrueAnswer
<1>3. CASE answer' = NoAnswer
  BY <1>2, <1>3, NoIDIsNoClient DEF NoAnswer
<1>4. ASSUME NEW j \in Clients, j # k,
             NewCall(j) \/ StatementStep(j) \/ Cancel(j) \/ DeadlockDetected(j)
      PROVE  TrueAnswer(k)
  <2>1. ASSUME NEW result, Answer(j, result) PROVE answer'.client = j
    BY <2>1 DEF Answer
  <2>2. CASE NewCall(j)
    <3>1. ASSUME NEW call, Start(j, call) PROVE answer' = NoAnswer
      BY <3>1 DEF Start
    <3>2. CASE \E p \in PostIDs, a \in Writers, e \in BOOLEAN : CreatePost(j, p, a, e)
      <4>1. answer' = [client |-> j, result |-> "nil"]
        BY <3>2 DEF CreatePost
      <4> QED BY <1>2, <1>4, <4>1
    <3> QED BY <1>3, <2>2, <3>1, <3>2
            DEF NewCall, CallCreateComment, CallDeletePost, CallDeleteComment,
                CallSetCommentsEnabled
  <2>3. CASE \/ Begin(j) \/ SelectParent(j) \/ Insert(j) \/ LockPost(j) \/ CascadeEnds(j)
             \/ \E c \in CommentIDs : CascadeLock(j, c)
    BY <1>2, <1>3, <1>4, <2>1, <2>3
       DEF Begin, SelectParent, Insert, LockPost, CascadeEnds, CascadeLock, Proceed
  <2>5. CASE UpdateComment(j)
    <3>1. answer' = NoAnswer \/ \E result : answer' = [client |-> j, result |-> result]
      BY <2>5 DEF UpdateComment, Proceed
    <3> QED BY <1>2, <1>3, <1>4, <3>1
  <2>6. CASE UpdatePost(j)
    <3>1. answer' = NoAnswer \/ \E result : Answer(j, result)
      BY <2>6 DEF UpdatePost, Proceed
    <3> QED BY <1>2, <1>3, <1>4, <2>1, <3>1
  <2>4. CASE \/ CommitCreate(j) \/ CommitDelete(j) \/ Explain(j) \/ Cancel(j)
             \/ DeadlockDetected(j)
    BY <1>2, <1>4, <2>1, <2>4 DEF CommitCreate, CommitDelete, Explain, Cancel, DeadlockDetected
  <2> QED BY <1>4, <2>2, <2>3, <2>4, <2>5, <2>6 DEF StatementStep
<1>5. CASE NewCall(k)
  BY <1>3, <1>5 DEF NewCall, CallCreateComment, CallDeletePost, CallDeleteComment,
                    CallSetCommentsEnabled, Start, CreatePost, TrueAnswer
<1>6. ASSUME NEW result, Answer(k, result), UNCHANGED tableVars,
             result \in {"ErrPostNotFound", "ErrCommentNotFound", "ErrInvalidParentComment",
                         "error"}
      PROVE  TrueAnswer(k)
  BY <1>6 DEF Answer, TrueAnswer
<1>7. CASE SelectParent(k) \/ Insert(k) \/ Cancel(k) \/ DeadlockDetected(k)
  BY <1>3, <1>6, <1>7
     DEF SelectParent, Insert, Cancel, DeadlockDetected, Proceed, mapCommonPostgresError
<1>8. CASE \/ Begin(k) \/ LockPost(k) \/ CascadeEnds(k)
           \/ \E c \in CommentIDs : CascadeLock(k, c)
  BY <1>3, <1>8 DEF Begin, LockPost, CascadeEnds, CascadeLock, Proceed
<1>9. CASE CommitCreate(k)
  <2>1. RowOf(calls[k]) \in CommentRow /\ calls[k].id \in CommentIDs
    BY <1>1, <1>9 DEF CommitCreate, RowOf, CommentRow, CallOK
  <2>2. comments'[calls[k].id] # Absent
    BY <1>9, <2>1, AbsentIsNoRow DEF CommitCreate, IInv, TypeOK
  <2> QED BY <1>9, <2>2 DEF CommitCreate, Answer, TrueAnswer
<1>10. CASE CommitDelete(k)
  BY <1>10 DEF CommitDelete, Answer, TrueAnswer
<1>11. CASE UpdateComment(k)
  <2>1. calls[k].op = "DeleteComment" /\ calls[k].id \in CommentIDs
    BY <1>1, <1>11 DEF UpdateComment, CallOK
  <2>2. ASSUME comments' = [comments EXCEPT ![calls[k].id].deleted = TRUE],
               comments[calls[k].id] # Absent
        PROVE  comments'[calls[k].id].deleted
    <3>1. comments[calls[k].id] \in CommentRow
      BY <2>1, <2>2 DEF IInv, TypeOK
    <3> QED BY <2>1, <2>2, <3>1 DEF IInv, TypeOK, CommentRow
  <2> QED BY <1>3, <1>11, <2>1, <2>2 DEF UpdateComment, Proceed, TrueAnswer
<1>12. CASE UpdatePost(k)
  BY <1>3, <1>12 DEF UpdatePost, Proceed, Answer, TrueAnswer
<1>13. CASE Explain(k)
  <2>1. calls[k].pc = "explain" /\ calls[k].op # "CreateComment"
    BY <1>1, <1>13 DEF Explain, CallOK
  <2>2. /\ answer'.client = k /\ answer'.result = Explanation(calls[k])
        /\ UNCHANGED tableVars
    BY <1>13 DEF Explain, Answer
  <2> QED BY <1>1, <2>1, <2>2 DEF Explanation, NothingOfItsOwn, TrueAnswer
<1> QED BY <1>4, <1>5, <1>7, <1>8, <1>9, <1>10, <1>11, <1>12, <1>13 DEF Next, StatementStep

\* Answers are true although several statements make them: a domain error means
\* that nothing has changed, nil that the row is there or is deleted, and nobody is
\* told ErrForbidden of a row of his own (comment_repository.go 114-125,
\* post_repository.go 183-189 and 220-226).
THEOREM AnswersAreTrueAlways == Spec => AnswersAreTrue
<1>1. ASSUME IInv, ExplanationInv, [Next]_vars
      PROVE  [\A k \in Clients : TrueAnswer(k)]_vars
  BY <1>1, AnswersAreTrueStep
<1>2. AnswersAreTrue <=> [][\A k \in Clients : TrueAnswer(k)]_vars
  BY DEF AnswersAreTrue, TrueAnswer
<1> QED BY <1>1, <1>2, Invariance, ExplanationAlways, PTL DEF Spec

(***************************************************************************)
(* The refinement.                                                         *)
(***************************************************************************)
LEMMA CommitCreateImplements ==
  ASSUME IInv, NEW k \in Clients, CommitCreate(k)
  PROVE  Contract!Next
<1> DEFINE call == calls[k]
           row == RowOf(calls[k])
<1>1. /\ call.op = "CreateComment" /\ call.pc = "commit" /\ CallOK(call) /\ Secured(k)
      /\ call.id \in CommentIDs /\ call.id \notin knownComments
  BY DEF CommitCreate, IInv, CallOK, IDsAreFresh
<1>2. row \in Contract!StoredComment
  BY <1>1 DEF RowOf, Contract!StoredComment, CallOK
<1>3. /\ row.postID = call.postID /\ row.parentID = call.parentID /\ ~ row.deleted
  BY DEF RowOf
<1>4. Contract!ParentFits(row)
  BY <1>1, <1>3 DEF Contract!ParentFits, Secured
<1>5. comments[call.id] = Absent /\ posts[row.postID] # Absent
  BY <1>1, <1>3 DEF IInv, IDsAreFresh, Secured
<1>6. comments' = [comments EXCEPT ![call.id] = row] /\ UNCHANGED posts
  BY DEF CommitCreate
<1> HIDE DEF row
<1>7. Contract!CreateComment(call.id, row)
  BY <1>3, <1>4, <1>5, <1>6 DEF Contract!CreateComment
<1> QED BY <1>1, <1>2, <1>7 DEF Contract!Next

LEMMA CommitDeleteImplements ==
  ASSUME IInv, NEW k \in Clients, CommitDelete(k)
  PROVE  Contract!Next
<1> DEFINE p == calls[k].postID
<1>1. /\ calls[k].op = "DeletePost" /\ calls[k].pc = "commit" /\ Secured(k) /\ p \in PostIDs
  BY DEF CommitDelete, IInv, CallOK
<1>2. posts[p] # Absent /\ ToCascade(k) = {}
  BY <1>1 DEF Secured
<1>3. \A c \in CommentIDs :
        CommentLock(c, "Update") \in locks[k] <=> comments[c] # Absent /\ comments[c].postID = p
  BY <1>1, <1>2 DEF Secured, ToCascade
<1>4. comments' = [c \in CommentIDs |->
                     IF comments[c] # Absent /\ comments[c].postID = p
                     THEN Absent ELSE comments[c]]
  BY <1>3 DEF CommitDelete
<1>5. Contract!DeletePost(p)
  BY <1>2, <1>4 DEF CommitDelete, Contract!DeletePost
<1> QED BY <1>1, <1>5 DEF Contract!Next

LEMMA UpdateImplements ==
  ASSUME IInv, NEW k \in Clients, UpdateComment(k) \/ UpdatePost(k)
  PROVE  Contract!Next \/ UNCHANGED tableVars
<1>1. CASE UpdateComment(k)
  <2>1. calls[k].id \in CommentIDs
    BY <1>1 DEF UpdateComment, IInv, CallOK
  <2>2. CASE UNCHANGED comments
    BY <1>1, <2>2 DEF UpdateComment, tableVars
  <2>3. CASE /\ comments[calls[k].id] # Absent
             /\ comments' = [comments EXCEPT ![calls[k].id].deleted = TRUE]
    <3>1. Contract!DeleteComment(calls[k].id)
      BY <1>1, <2>3 DEF UpdateComment, Contract!DeleteComment
    <3> QED BY <2>1, <3>1 DEF Contract!Next
  <2> QED BY <1>1, <2>2, <2>3 DEF UpdateComment
<1>2. CASE UpdatePost(k)
  <2>1. calls[k].postID \in PostIDs /\ calls[k].enabled \in BOOLEAN
    BY <1>2 DEF UpdatePost, IInv, CallOK, TypeOK, Call
  <2>2. CASE UNCHANGED posts
    BY <1>2, <2>2 DEF UpdatePost, tableVars
  <2>3. CASE /\ posts[calls[k].postID] # Absent
             /\ posts' = [posts EXCEPT ![calls[k].postID].commentsEnabled = calls[k].enabled]
    <3>1. Contract!SetCommentsEnabled(calls[k].postID, calls[k].enabled)
      BY <1>2, <2>3 DEF UpdatePost, Contract!SetCommentsEnabled
    <3> QED BY <2>1, <3>1 DEF Contract!Next
  <2> QED BY <1>2, <2>2, <2>3 DEF UpdatePost
<1> QED BY <1>1, <1>2

\* Every step of the repositories is one successful write of the contract or leaves
\* the tables alone: no interleaving of the transactions of Create (26-73) and
\* Delete (172-192) stores a comment without its post or its parent, or lets a
\* comment outlive the post.
THEOREM PostgresImplementsContract == Spec => ImplementsContract
<1>1. Init => Contract!Init
  BY DEF Init, Contract!Init
<1>2. ASSUME IInv, [Next]_vars
      PROVE  [Contract!Next]_(Contract!contractVars)
  <2> SUFFICES Contract!Next \/ UNCHANGED tableVars
    BY DEF Contract!contractVars, tableVars
  <2>1. CASE UNCHANGED vars
    BY <2>1 DEF vars, tableVars
  <2>2. ASSUME NEW k \in Clients, NewCall(k)
        PROVE  Contract!Next \/ UNCHANGED tableVars
    <3>1. ASSUME NEW p \in PostIDs, NEW a \in Writers, NEW e \in BOOLEAN, CreatePost(k, p, a, e)
          PROVE  Contract!Next
      <4> DEFINE post == [authorID |-> a, commentsEnabled |-> e]
      <4>1. post \in Contract!StoredPost
        BY WritersAreAuthors DEF Contract!StoredPost
      <4>2. Contract!CreatePost(p, post)
        BY <1>2, <3>1 DEF CreatePost, Contract!CreatePost, IInv, IDsAreFresh
      <4> HIDE DEF post
      <4> QED BY <4>1, <4>2 DEF Contract!Next
    <3> QED BY <2>2, <3>1 DEF NewCall, CallCreateComment, CallDeletePost, CallDeleteComment,
                             CallSetCommentsEnabled, Start
  <2>3. ASSUME NEW k \in Clients, StatementStep(k)
        PROVE  Contract!Next \/ UNCHANGED tableVars
    <3>1. CASE CommitCreate(k) \/ CommitDelete(k)
      BY <1>2, <3>1, CommitCreateImplements, CommitDeleteImplements
    <3>2. CASE UpdateComment(k) \/ UpdatePost(k)
      BY <1>2, <3>2, UpdateImplements
    <3> QED BY <2>3, <3>1, <3>2
            DEF StatementStep, Begin, SelectParent, Insert, LockPost, CascadeLock, CascadeEnds,
                Explain
  <2>4. ASSUME NEW k \in Clients, Cancel(k) \/ DeadlockDetected(k)
        PROVE  UNCHANGED tableVars
    BY <2>4 DEF Cancel, DeadlockDetected
  <2> QED BY <1>2, <2>1, <2>2, <2>3, <2>4 DEF Next
<1> QED BY <1>1, <1>2, Invariance, PTL DEF Spec, ImplementsContract, Contract!Spec

(***************************************************************************)
(* Somebody can always go on.                                              *)
(***************************************************************************)

\* Some of those who wait for each other do so without a smaller such circle among
\* them: that is what the detector sees.
LEMMA StuckContainsDeadlock ==
  ASSUME NEW S \in SUBSET Clients, Stuck(S)
  PROVE  \E T \in SUBSET Clients : Deadlock(T)
<1> DEFINE R == StrictSubsetOrdering(Clients)
           Circles == {T \in SUBSET Clients : Stuck(T)}
<1>1. IsWellFoundedOn(R, SUBSET Clients)
  BY ClientsAreFinite, FS_StrictSubsetOrderingWellFounded, FS_FiniteSubsetsOfFinite
<1>2. Circles \subseteq SUBSET Clients /\ Circles # {}
  OBVIOUS
<1> HIDE DEF R, Circles
<1>3. PICK T \in Circles : \A U \in Circles : <<U, T>> \notin R
  BY <1>1, <1>2, WFMin
<1>4. T \in SUBSET Clients /\ Stuck(T)
  BY DEF Circles
<1>5. ASSUME NEW U \in SUBSET T, Stuck(U) PROVE U = T
  <2>1. U \in Circles
    BY <1>4, <1>5 DEF Circles
  <2>2. <<U, T>> \notin R
    BY <1>3, <2>1
  <2> QED BY <1>4, <1>5, <2>2 DEF R, StrictSubsetOrdering
<1> QED BY <1>4, <1>5 DEF Deadlock

\* CanGoOn names the guards of the statements: only who can go on does.
LEMMA OnlyWhoCanGoesOn ==
  ASSUME NEW k \in Clients, StatementStep(k)
  PROVE  CanGoOn(k)
<1>1. Begin(k) \/ Explain(k) => CanGoOn(k)
  BY DEF Begin, Explain, CanGoOn
<1>2. SelectParent(k) \/ Insert(k) => CanGoOn(k)
  BY DEF SelectParent, Insert, CanGoOn
<1>3. LockPost(k) \/ CascadeEnds(k) => CanGoOn(k)
  BY DEF LockPost, CascadeEnds, CanGoOn
<1>4. ASSUME NEW c \in CommentIDs, CascadeLock(k, c) PROVE CanGoOn(k)
  BY <1>4 DEF CascadeLock, CanGoOn
<1>5. UpdateComment(k) \/ UpdatePost(k) => CanGoOn(k)
  BY DEF UpdateComment, UpdatePost, CanGoOn
<1>6. CommitCreate(k) \/ CommitDelete(k) => CanGoOn(k)
  BY DEF CommitCreate, CommitDelete, CanGoOn
<1> QED BY <1>1, <1>2, <1>3, <1>4, <1>5, <1>6 DEF StatementStep

\* Calls that hold locks while they wait, or may
Contender(k) == calls[k].pc \in {"selectParent", "insert", "lockPost", "cascade"}

\* Who is in somebody's way holds a lock, and commits or waits itself.
LEMMA HoldersContend ==
  ASSUME IInv, NEW j \in Clients, NEW k \in Clients, NEW lock, InTheWay(j, k, lock)
  PROVE  Contender(j) \/ calls[j].pc = "commit"
BY DEF IInv, Secured, InTheWay, Contender

\* A contender that cannot go on waits for another transaction: the reply's own lock
\* on its parent is one it need not wait for again.
LEMMA ContenderWaits ==
  ASSUME IInv, NEW k \in Clients, Contender(k), ~ CanGoOn(k)
  PROVE  \E j \in Clients : WaitsFor(k, j)
<1> DEFINE call == calls[k]
<1>1. CASE call.pc = "selectParent"
  BY <1>1 DEF CanGoOn, CanLock, WaitsFor, Wanted
<1>2. CASE call.pc = "insert"
  <2>1. PICK lock \in ForeignKeyLocks(call) : ~ CanLock(k, lock)
    BY <1>2 DEF CanGoOn
  <2>2. PICK j \in Clients : InTheWay(j, k, lock)
    BY <2>1 DEF CanLock
  <2>3. call \in Call /\ CallOK(call) /\ call.op = "CreateComment"
    BY <1>2 DEF IInv, TypeOK, CallOK, Call
  <2>4. CASE lock = PostLock(call.postID, "KeyShare")
    BY <1>2, <2>2, <2>4 DEF WaitsFor, Wanted
  <2>5. CASE call.parentID # NoParent /\ lock = CommentLock(call.parentID, "KeyShare")
    <3>1. lock \in locks[k]
      BY <1>2, <2>3, <2>5 DEF IInv, Secured
    <3>2. ~ InTheWay(j, k, lock)
      BY <3>1 DEF IInv, LocksAreExclusive
    <3> QED BY <2>2, <3>2
  <2> QED BY <2>1, <2>4, <2>5 DEF ForeignKeyLocks
<1>3. CASE call.pc = "lockPost"
  BY <1>3 DEF CanGoOn, CanLock, WaitsFor, Wanted
<1>4. CASE call.pc = "cascade"
  <2>1. PICK c \in ToCascade(k) : ~ CanLock(k, CommentLock(c, "Update"))
    BY <1>4 DEF CanGoOn
  <2>2. CommentLock(c, "Update") \in Wanted(k)
    BY <1>4 DEF Wanted
  <2> QED BY <2>1, <2>2 DEF CanLock, WaitsFor
<1> QED BY <1>1, <1>2, <1>3, <1>4 DEF Contender

\* An update that cannot go on waits for a lock that somebody holds.
LEMMA UpdateWaits ==
  ASSUME IInv, NEW k \in Clients, calls[k].pc = "update", ~ CanGoOn(k)
  PROVE  \E j \in Clients, lock \in {CommentLock(calls[k].id, "NoKeyUpdate"),
                                     PostLock(calls[k].postID, "NoKeyUpdate")} : InTheWay(j, k, lock)
<1>1. CallOK(calls[k]) /\ calls[k] \in Call
  BY DEF IInv, TypeOK
<1>2. calls[k].op \in {"DeleteComment", "SetCommentsEnabled"}
  BY <1>1 DEF CallOK, Call
<1> QED BY <1>2 DEF CanGoOn, CanLock

\* Whoever waits for a connection finds one when nobody is connected.
LEMMA PoolIsFree ==
  ASSUME \A k \in Clients : ~ Connected(k)
  PROVE  FreeConnection
<1>1. {k \in Clients : Connected(k)} = {}
  OBVIOUS
<1>2. Cardinality({k \in Clients : Connected(k)}) = 0
  BY <1>1, FS_EmptySet
<1> QED BY <1>2, MaxConnsIsPositive DEF FreeConnection

\* Whatever calls are in flight, in any number and over any pool, one of them can go
\* on or the detector has a deadlock to break.
THEOREM SomebodyAlwaysGoesOn == Spec => []SomebodyGoesOn
<1>1. ASSUME IInv PROVE SomebodyGoesOn
  <2> USE <1>1
  <2> SUFFICES ASSUME NEW b \in Clients, calls[b].pc # "idle", \A k \in Clients : ~ CanGoOn(k)
               PROVE  \E S \in SUBSET Clients : Deadlock(S)
    BY DEF SomebodyGoesOn
  <2>1. \A k \in Clients : calls[k].pc # "commit"
    BY DEF CanGoOn
  <2>2. \E k \in Clients : Contender(k)
    <3>1. \E k \in Clients : Connected(k)
      <4>1. SUFFICES ASSUME \A k \in Clients : ~ Connected(k) PROVE FALSE
        OBVIOUS
      <4>2. FreeConnection /\ ~ Connected(b)
        BY <4>1, PoolIsFree
      <4>3. calls[b].pc \in {"begin", "explain"}
        BY <4>2 DEF Connected
      <4> QED BY <4>2, <4>3 DEF CanGoOn
    <3>2. PICK k \in Clients : Connected(k)
      BY <3>1
    <3>3. calls[k].pc \in {"selectParent", "insert", "lockPost", "cascade", "update"}
      <4>1. calls[k] \in Call
        BY DEF IInv, TypeOK
      <4> QED BY <2>1, <3>2, <4>1 DEF Connected, Call
    <3>4. CASE calls[k].pc = "update"
      BY <2>1, <3>4, UpdateWaits, HoldersContend
    <3> QED BY <3>3, <3>4 DEF Contender
  <2> DEFINE S == {k \in Clients : Contender(k)}
  <2>3. ASSUME NEW k \in S PROVE \E j \in S : WaitsFor(k, j)
    <3>1. PICK j \in Clients : WaitsFor(k, j)
      BY ContenderWaits
    <3>2. Contender(j)
      BY <2>1, <3>1, HoldersContend DEF WaitsFor
    <3> QED BY <3>1, <3>2
  <2>4. Stuck(S) /\ S \in SUBSET Clients
    BY <2>2, <2>3 DEF Stuck
  <2> HIDE DEF S
  <2> QED BY <2>4, StuckContainsDeadlock
<1> QED BY <1>1, Invariance, PTL
==============================================================================
