------------------------ MODULE CommentService_proofs ------------------------
(***************************************************************************)
(* Proofs about CommentService, for any number of concurrent requests:     *)
(* the services use the store as MemoryStore specifies it, so that the     *)
(* theorems about the store hold under them, the comments that a removed   *)
(* post leaves behind are lone roots, the comments that come late on a     *)
(* closed post are no more than the requests, and the answer of            *)
(* SetCommentsEnabled carries the flag it set.                             *)
(***************************************************************************)
EXTENDS CommentService, MemoryStore_proofs, FiniteSetTheorems

(***************************************************************************)
(* Type correctness and the steps of the store.                            *)
(***************************************************************************)

\* The calls with a given next step are of the type of that step.
LEMMA CallsByStep ==
  ASSUME ServiceTypeOK, NEW k \in Clients
  PROVE  /\ calls[k].pc = "create" => calls[k] \in AddCall
         /\ calls[k].pc = "publish" => calls[k] \in PublishCall
         /\ calls[k].pc = "reread" => calls[k] \in RereadCall
<1>1. calls[k] \in {Idle} \cup AddCall \cup PublishCall \cup RereadCall
  BY DEF ServiceTypeOK
<1>2. Idle.pc = "idle"
  BY DEF Idle
<1>3. \A c \in AddCall : c.pc = "create"
  BY DEF AddCall
<1>4. \A c \in PublishCall : c.pc = "publish"
  BY DEF PublishCall
<1>5. \A c \in RereadCall : c.pc = "reread"
  BY DEF RereadCall
<1> QED BY <1>1, <1>2, <1>3, <1>4, <1>5

\* Every step of a request is a call of the store or leaves the store alone.
LEMMA ServiceStepIsStoreStep ==
  ASSUME ServiceTypeOK, [ServiceNext]_serviceVars
  PROVE  [StoreStep]_storeVars
<1>1. CASE \E k \in Clients, id \in CommentIDs, t \in Times : AddCommentCreate(k, id, t)
  <2>1. PICK k \in Clients, id \in CommentIDs, t \in Times : AddCommentCreate(k, id, t)
    BY <1>1
  <2>2. calls[k] \in AddCall
    BY <2>1, CallsByStep DEF AddCommentCreate
  <2>3. NewComment(calls[k], t) \in Comment /\ ~ NewComment(calls[k], t).deleted
    BY <2>2 DEF NewComment, Comment, AddCall
  <2>4. CreateComment(id, NewComment(calls[k], t))
    BY <2>1 DEF AddCommentCreate
  <2> HIDE DEF NewComment
  <2> QED BY <2>3, <2>4 DEF StoreStep
<1>2. CASE \E k \in Clients, p \in PostIDs, a \in AuthorIDs, e \in BOOLEAN :
             SetCommentsEnabledUpdate(k, p, a, e)
  BY <1>2 DEF SetCommentsEnabledUpdate, StoreStep
<1>3. CASE \E p \in PostIDs, a \in AuthorIDs, e \in BOOLEAN, t \in Times :
             CreatePostCall(p, a, e, t)
  <2>1. PICK p \in PostIDs, a \in AuthorIDs, e \in BOOLEAN, t \in Times :
             CreatePostCall(p, a, e, t)
    BY <1>3
  <2> DEFINE post == [authorID |-> a, commentsEnabled |-> e, createdAt |-> t]
  <2>2. post \in Post /\ CreatePost(p, post)
    BY <2>1 DEF CreatePostCall, Post
  <2> HIDE DEF post
  <2> QED BY <2>2 DEF StoreStep
<1>4. CASE \E p \in PostIDs, a \in AuthorIDs : DeletePostCall(p, a)
  BY <1>4 DEF DeletePostCall, StoreStep
<1>5. CASE \E id \in CommentIDs, a \in AuthorIDs : DeleteCommentCall(id, a)
  BY <1>5 DEF DeleteCommentCall, StoreStep
<1>6. CASE UNCHANGED <<posts, comments, commentsByParent>>
  BY <1>6 DEF storeVars
<1>7. ASSUME \/ \E k \in Clients, p \in usedPostIDs, parent \in usedCommentIDs \cup {NoParent},
                   a \in AuthorIDs : AddCommentCheck(k, p, parent, a)
             \/ \E k \in Clients : \/ AddCommentRejected(k)
                                   \/ AddCommentPublish(k)
                                   \/ SetCommentsEnabledReread(k)
                                   \/ CancelCall(k)
             \/ UNCHANGED serviceVars
      PROVE  UNCHANGED <<posts, comments, commentsByParent>>
  BY <1>7 DEF AddCommentCheck, AddCommentRejected, AddCommentPublish,
              SetCommentsEnabledReread, CancelCall, serviceVars
<1> QED BY <1>1, <1>2, <1>3, <1>4, <1>5, <1>6, <1>7 DEF ServiceNext

\* Requests are typed initially and after every step.
LEMMA ServiceTypeInductive ==
  /\ ServiceInit => ServiceTypeOK
  /\ TypeOK /\ ServiceTypeOK /\ [ServiceNext]_serviceVars => ServiceTypeOK'
<1>1. ServiceInit => ServiceTypeOK
  BY DEF ServiceInit, ServiceTypeOK
<1>2. ASSUME TypeOK, ServiceTypeOK, [ServiceNext]_serviceVars PROVE ServiceTypeOK'
  <2> DEFINE Call == {Idle} \cup AddCall \cup PublishCall \cup RereadCall
  <2>0. calls \in [Clients -> Call] /\ Idle \in Call
    BY <1>2 DEF ServiceTypeOK
  <2>1. CASE \E k \in Clients, p \in usedPostIDs, parent \in usedCommentIDs \cup {NoParent},
                a \in AuthorIDs : AddCommentCheck(k, p, parent, a)
    <3>1. PICK k \in Clients, p \in usedPostIDs, parent \in usedCommentIDs \cup {NoParent},
               a \in AuthorIDs : AddCommentCheck(k, p, parent, a)
      BY <2>1
    <3>2. [pc |-> "create", postID |-> p, parentID |-> parent, authorID |-> a] \in AddCall
      BY <1>2, <3>1 DEF AddCall, ServiceTypeOK
    <3> QED BY <1>2, <3>1, <3>2 DEF AddCommentCheck, ServiceTypeOK
  <2>2. CASE \E k \in Clients, id \in CommentIDs, t \in Times : AddCommentCreate(k, id, t)
    <3>1. PICK k \in Clients, id \in CommentIDs, t \in Times : AddCommentCreate(k, id, t)
      BY <2>2
    <3>2. [pc |-> "publish", id |-> id] \in PublishCall
      BY DEF PublishCall
    <3>3. calls' \in [Clients -> Call]
      BY <2>0, <3>1, <3>2 DEF AddCommentCreate
    <3>4. lateComments' \in [PostIDs -> SUBSET CommentIDs]
      BY <1>2, <3>1 DEF AddCommentCreate, ServiceTypeOK
    <3> QED BY <1>2, <3>1, <3>3, <3>4 DEF AddCommentCreate, ServiceTypeOK
  <2>3. ASSUME NEW p \in PostIDs
        PROVE  MarkOverwritten(p) \in [Clients -> Call]
    <3>1. ASSUME NEW k \in Clients, calls[k].pc = "reread"
          PROVE  [calls[k] EXCEPT !.overwritten = TRUE] \in Call
      <4>1. calls[k] \in RereadCall BY <1>2, <3>1, CallsByStep
      <4> QED BY <4>1 DEF RereadCall
    <3> QED BY <2>0, <3>1 DEF MarkOverwritten
  <2>4. CASE \E k \in Clients, p \in PostIDs, a \in AuthorIDs, e \in BOOLEAN :
               SetCommentsEnabledUpdate(k, p, a, e)
    <3>1. PICK k \in Clients, p \in PostIDs, a \in AuthorIDs, e \in BOOLEAN :
               SetCommentsEnabledUpdate(k, p, a, e)
      BY <2>4
    <3> DEFINE call == [pc |-> "reread", postID |-> p, enabled |-> e, overwritten |-> FALSE]
    <3>2. call \in RereadCall
      BY DEF RereadCall
    <3>3. calls' = [MarkOverwritten(p) EXCEPT ![k] = call]
      BY <3>1 DEF SetCommentsEnabledUpdate
    <3>4. calls' \in [Clients -> Call]
      <4> HIDE DEF call, Call
      <4>1. call \in Call BY <3>2 DEF Call
      <4> QED BY <2>3, <3>3, <4>1
    <3>5. lateComments' \in [PostIDs -> SUBSET CommentIDs]
      BY <1>2, <3>1 DEF SetCommentsEnabledUpdate, ServiceTypeOK
    <3> QED BY <1>2, <3>1, <3>4, <3>5 DEF SetCommentsEnabledUpdate, ServiceTypeOK
  <2>5. CASE \E p \in PostIDs, a \in AuthorIDs, e \in BOOLEAN, t \in Times :
               CreatePostCall(p, a, e, t)
    BY <1>2, <2>5 DEF CreatePostCall, ServiceTypeOK
  <2>6. CASE \E p \in PostIDs, a \in AuthorIDs : DeletePostCall(p, a)
    <3>1. PICK p \in PostIDs, a \in AuthorIDs : DeletePostCall(p, a)
      BY <2>6
    <3>2. calls' \in [Clients -> Call]
      BY <2>3, <3>1 DEF DeletePostCall
    <3>3. lateComments' \in [PostIDs -> SUBSET CommentIDs]
      BY <1>2, <3>1 DEF DeletePostCall, ServiceTypeOK
    <3> QED BY <1>2, <3>1, <3>2, <3>3 DEF DeletePostCall, ServiceTypeOK
  <2>7. CASE \E id \in CommentIDs, a \in AuthorIDs : DeleteCommentCall(id, a)
    BY <1>2, <2>7 DEF DeleteCommentCall, ServiceTypeOK
  <2>8. CASE \E k \in Clients : \/ AddCommentRejected(k)
                                \/ AddCommentPublish(k)
                                \/ SetCommentsEnabledReread(k)
                                \/ CancelCall(k)
    <3>1. PICK k \in Clients : calls' = [calls EXCEPT ![k] = Idle]
      BY <2>8 DEF AddCommentRejected, AddCommentPublish, SetCommentsEnabledReread, CancelCall
    <3>2. UNCHANGED <<usedPostIDs, usedCommentIDs, lateComments>>
      BY <2>8 DEF AddCommentRejected, AddCommentPublish, SetCommentsEnabledReread, CancelCall
    <3> QED BY <1>2, <2>0, <3>1, <3>2 DEF ServiceTypeOK
  <2>9. CASE UNCHANGED serviceVars
    BY <1>2, <2>9 DEF ServiceTypeOK, serviceVars
  <2> QED BY <1>2, <2>1, <2>2, <2>4, <2>5, <2>6, <2>7, <2>8, <2>9 DEF ServiceNext
<1> QED BY <1>1, <1>2

\* Concurrent requests, in any number, do to the store only what a sequence of
\* repository calls could do: each of their steps makes one call of it or none.
LEMMA ServiceUsesTheStore == ServiceSpec => Spec
<1>1. ServiceInit => Init /\ TypeOK /\ ServiceTypeOK
  BY TypeInductive, ServiceTypeInductive DEF ServiceInit
<1>2. TypeOK /\ ServiceTypeOK /\ [ServiceNext]_serviceVars
        => [StoreStep]_storeVars /\ TypeOK' /\ ServiceTypeOK'
  BY ServiceStepIsStoreStep, TypeInductive, ServiceTypeInductive
<1> QED BY <1>1, <1>2, PTL DEF ServiceSpec, Spec

\* So what is proved of the store holds of the running service.
COROLLARY ServiceKeepsStoreCorrect ==
  ServiceSpec => /\ []IndexIsFaithful
                 /\ []ThreadsAreTrees
                 /\ CascadeIsExact
                 /\ CommentHistory
                 /\ ImplementsContract
BY ServiceUsesTheStore, IndexCorrect, ThreadsCorrect, CascadeCorrect,
   CommentsKeepTheirHistory, MemoryImplementsContract

(***************************************************************************)
(* Orphans.                                                                *)
(***************************************************************************)
StoreInv == TypeOK /\ IndexInv /\ ThreadInv

\* Ids are handed out once, and clients name only ids that were handed out.
IdsAreUsed ==
  /\ \A c \in CommentIDs : comments[c] # Absent => c \in usedCommentIDs
  /\ \A p \in PostIDs : posts[p] # Absent => p \in usedPostIDs
  /\ \A c \in CommentIDs : comments[c] # Absent => comments[c].postID \in usedPostIDs
  /\ \A k \in Clients :
       calls[k].pc = "create" => /\ calls[k].postID \in usedPostIDs
                                 /\ calls[k].parentID \in usedCommentIDs \cup {NoParent}

Orphan(c) == comments[c] # Absent /\ posts[comments[c].postID] = Absent

\* No request about to store a reply names an orphan of its own post: when it
\* saw the post, every comment of the post it could name was removed later by
\* the same step that removed the post.
NoReplyToOrphanPending ==
  \A k \in Clients :
    calls[k].pc = "create" /\ calls[k].parentID # NoParent /\ Orphan(calls[k].parentID)
      => comments[calls[k].parentID].postID # calls[k].postID

OrphanInv == IdsAreUsed /\ NoReplyToOrphanPending /\ OrphansAreLoneRoots

\* The one step that makes an orphan.
LEMMA CreateKeepsOrphansLone ==
  ASSUME StoreInv, ServiceTypeOK, OrphanInv,
         NEW k \in Clients, NEW id \in CommentIDs, NEW t \in Times,
         AddCommentCreate(k, id, t)
  PROVE  OrphanInv'
<1> DEFINE c == NewComment(calls[k], t)
<1>1. calls[k] \in AddCall /\ calls[k].pc = "create"
  BY CallsByStep DEF AddCommentCreate
<1>2. /\ c \in Comment
      /\ c.postID = calls[k].postID /\ c.parentID = calls[k].parentID
  BY <1>1 DEF NewComment, Comment, AddCall
<1>3. CreateComment(id, c) /\ id \notin usedCommentIDs
  BY DEF AddCommentCreate
<1> HIDE DEF c
<1>4. /\ comments[id] = Absent
      /\ c.parentID # NoParent => /\ c.parentID \in CommentIDs
                                  /\ comments[c.parentID] # Absent
                                  /\ comments[c.parentID].postID = c.postID
  BY <1>2, <1>3, CreateCommentGuard DEF StoreInv
<1>5. /\ \A d \in CommentIDs : comments'[d] = IF d = id THEN c ELSE comments[d]
      /\ posts' = posts
      /\ usedPostIDs' = usedPostIDs
      /\ usedCommentIDs' = usedCommentIDs \cup {id}
  BY <1>3 DEF CreateComment, StoreInv, TypeOK, AddCommentCreate
<1>6. \A j \in Clients : calls'[j].pc = "create" => j # k /\ calls'[j] = calls[j]
  BY DEF AddCommentCreate, ServiceTypeOK
<1>7. c # Absent /\ id # NoParent
  BY <1>2, AbsentIsNoValue, NoParentIsNoComment
<1>8. \A d \in CommentIDs : comments[d] # Absent => comments[d].parentID # id
  BY <1>4, <1>7 DEF StoreInv, ThreadInv, ThreadIntegrity
<1>9. IdsAreUsed'
  BY <1>1, <1>2, <1>5, <1>6 DEF OrphanInv, IdsAreUsed
<1>10. NoReplyToOrphanPending'
  <2>1. SUFFICES ASSUME NEW j \in Clients, calls'[j].pc = "create",
                        calls'[j].parentID # NoParent, Orphan(calls[j].parentID)'
                 PROVE  comments'[calls'[j].parentID].postID # calls'[j].postID
    BY DEF NoReplyToOrphanPending
  <2>2. calls'[j] = calls[j] /\ calls[j].parentID \in usedCommentIDs
    BY <2>1, <1>6 DEF OrphanInv, IdsAreUsed
  <2>3. calls[j].parentID # id /\ calls[j].parentID \in CommentIDs
    BY <2>2, <1>3 DEF ServiceTypeOK
  <2>4. comments'[calls[j].parentID] = comments[calls[j].parentID]
    BY <2>3, <1>5
  <2> QED BY <2>1, <2>2, <2>4, <1>5 DEF OrphanInv, NoReplyToOrphanPending, Orphan
<1>11. OrphansAreLoneRoots'
  <2>1. ASSUME posts[c.postID] = Absent PROVE c.parentID = NoParent
    BY <2>1, <1>1, <1>2, <1>4 DEF OrphanInv, NoReplyToOrphanPending, Orphan
  <2>2. ASSUME NEW d \in CommentIDs, d # id, Orphan(d) PROVE c.parentID # d
    <3>1. SUFFICES ASSUME c.parentID = d PROVE FALSE OBVIOUS
    <3>2. d # NoParent BY NoParentIsNoComment
    <3>3. comments[d].postID = c.postID BY <3>1, <3>2, <1>4
    <3> QED BY <2>2, <3>1, <3>2, <3>3, <1>1, <1>2
         DEF OrphanInv, NoReplyToOrphanPending
  <2>3. c.parentID # id
    BY <1>4, <1>7
  <2> QED BY <2>1, <2>2, <2>3, <1>5, <1>8 DEF OrphanInv, OrphansAreLoneRoots, Orphan
<1> QED BY <1>9, <1>10, <1>11 DEF OrphanInv

\* Every other step, given what it does to each comment and each pending reply.
LEMMA OtherStepsKeepOrphansLone ==
  ASSUME StoreInv, ServiceTypeOK, OrphanInv,
         usedPostIDs \subseteq usedPostIDs', usedCommentIDs' = usedCommentIDs,
         \A p \in PostIDs : posts'[p] # Absent => p \in usedPostIDs',
         \A c \in CommentIDs :
           comments'[c] # Absent =>
             /\ comments[c] # Absent
             /\ comments'[c].postID = comments[c].postID
             /\ comments'[c].parentID = comments[c].parentID
             /\ posts'[comments[c].postID] = Absent => posts[comments[c].postID] = Absent,
         \A k \in Clients :
           calls'[k].pc = "create" =>
             \/ calls'[k] = calls[k]
             \/ /\ calls'[k].postID \in usedPostIDs
                /\ calls'[k].parentID \in usedCommentIDs \cup {NoParent}
                /\ posts'[calls'[k].postID] # Absent
  PROVE  OrphanInv'
<1>1. IdsAreUsed'
  BY DEF OrphanInv, IdsAreUsed
<1>2. \A c \in CommentIDs : Orphan(c)' => Orphan(c)
  BY DEF Orphan
<1>3. NoReplyToOrphanPending'
  <2>1. SUFFICES ASSUME NEW k \in Clients, calls'[k].pc = "create",
                        calls'[k].parentID # NoParent, Orphan(calls[k].parentID)'
                 PROVE  comments'[calls'[k].parentID].postID # calls'[k].postID
    BY DEF NoReplyToOrphanPending
  <2>2. calls'[k].parentID \in CommentIDs
    BY <2>1, <1>1 DEF IdsAreUsed, ServiceTypeOK
  <2>3. CASE calls'[k] = calls[k]
    BY <2>1, <2>2, <2>3, <1>2 DEF OrphanInv, NoReplyToOrphanPending, Orphan
  <2>4. CASE posts'[calls'[k].postID] # Absent
    BY <2>1, <2>4 DEF Orphan
  <2> QED BY <2>1, <2>3, <2>4
<1>4. OrphansAreLoneRoots'
  BY <1>2 DEF OrphanInv, OrphansAreLoneRoots, Orphan
<1> QED BY <1>1, <1>3, <1>4 DEF OrphanInv

\* Marking a pending read leaves pending insertions as they are.
LEMMA MarkOverwrittenKeepsCreates ==
  ASSUME ServiceTypeOK, NEW p \in PostIDs, NEW k \in Clients,
         MarkOverwritten(p)[k].pc = "create"
  PROVE  MarkOverwritten(p)[k] = calls[k]
<1>1. CASE calls[k].pc = "reread" /\ calls[k].postID = p
  <2>1. calls[k] \in RereadCall
    BY <1>1, CallsByStep
  <2>2. [calls[k] EXCEPT !.overwritten = TRUE].pc = "reread"
    BY <2>1, <1>1 DEF RereadCall
  <2> QED BY <1>1, <2>2 DEF MarkOverwritten
<1>2. CASE ~ (calls[k].pc = "reread" /\ calls[k].postID = p)
  BY <1>2 DEF MarkOverwritten
<1> QED BY <1>1, <1>2

LEMMA OrphanInductive ==
  /\ ServiceInit => OrphanInv
  /\ StoreInv /\ ServiceTypeOK /\ OrphanInv /\ [ServiceNext]_serviceVars => OrphanInv'
<1>1. ASSUME ServiceInit PROVE OrphanInv
  BY <1>1 DEF ServiceInit, Init, Idle, OrphanInv, IdsAreUsed,
              NoReplyToOrphanPending, OrphansAreLoneRoots
<1>2. ASSUME StoreInv, ServiceTypeOK, OrphanInv, [ServiceNext]_serviceVars PROVE OrphanInv'
  <2>0. TypeOK /\ IndexInv
    BY <1>2 DEF StoreInv
  <2>1. CASE \E k \in Clients, id \in CommentIDs, t \in Times : AddCommentCreate(k, id, t)
    BY <1>2, <2>1, CreateKeepsOrphansLone
  <2>2. CASE \E k \in Clients, p \in usedPostIDs, parent \in usedCommentIDs \cup {NoParent},
                a \in AuthorIDs : AddCommentCheck(k, p, parent, a)
    <3>1. PICK k \in Clients, p \in usedPostIDs, parent \in usedCommentIDs \cup {NoParent},
               a \in AuthorIDs : AddCommentCheck(k, p, parent, a)
      BY <2>2
    <3>2. UNCHANGED <<posts, comments, usedPostIDs, usedCommentIDs>> /\ posts[p] # Absent
      BY <3>1 DEF AddCommentCheck
    <3>3. \A j \in Clients :
            calls'[j].pc = "create" =>
              \/ calls'[j] = calls[j]
              \/ /\ calls'[j].postID \in usedPostIDs
                 /\ calls'[j].parentID \in usedCommentIDs \cup {NoParent}
                 /\ posts'[calls'[j].postID] # Absent
      BY <1>2, <3>1, <3>2 DEF AddCommentCheck, ServiceTypeOK
    <3> QED BY <1>2, <3>2, <3>3, OtherStepsKeepOrphansLone DEF OrphanInv, IdsAreUsed
  <2>3. CASE \E k \in Clients : \/ AddCommentRejected(k)
                                \/ AddCommentPublish(k)
                                \/ SetCommentsEnabledReread(k)
                                \/ CancelCall(k)
    <3>1. PICK k \in Clients : calls' = [calls EXCEPT ![k] = Idle]
      BY <2>3 DEF AddCommentRejected, AddCommentPublish, SetCommentsEnabledReread, CancelCall
    <3>2. UNCHANGED <<posts, comments, usedPostIDs, usedCommentIDs>>
      BY <2>3 DEF AddCommentRejected, AddCommentPublish, SetCommentsEnabledReread, CancelCall
    <3>3. \A j \in Clients : calls'[j].pc = "create" => calls'[j] = calls[j]
      BY <1>2, <3>1 DEF ServiceTypeOK, Idle
    <3> QED BY <1>2, <3>2, <3>3, OtherStepsKeepOrphansLone DEF OrphanInv, IdsAreUsed
  <2>4. CASE \E k \in Clients, p \in PostIDs, a \in AuthorIDs, e \in BOOLEAN :
               SetCommentsEnabledUpdate(k, p, a, e)
    <3>1. PICK k \in Clients, p \in PostIDs, a \in AuthorIDs, e \in BOOLEAN :
               SetCommentsEnabledUpdate(k, p, a, e)
      BY <2>4
    <3>2. UNCHANGED <<comments, usedPostIDs, usedCommentIDs>>
      BY <3>1 DEF SetCommentsEnabledUpdate, SetCommentsEnabled
    <3>3. \A q \in PostIDs : posts'[q] = Absent <=> posts[q] = Absent
      <4>1. posts[p] \in Post
        BY <2>0, <3>1 DEF SetCommentsEnabledUpdate, SetCommentsEnabled, PostAccessError, TypeOK
      <4>2. [posts[p] EXCEPT !.commentsEnabled = e] \in Post
        BY <4>1 DEF Post
      <4>3. posts' = [posts EXCEPT ![p] = [posts[p] EXCEPT !.commentsEnabled = e]]
        BY <3>1 DEF SetCommentsEnabledUpdate, SetCommentsEnabled
      <4> QED BY <2>0, <4>1, <4>2, <4>3, AbsentIsNoValue DEF TypeOK
    <3>4. \A j \in Clients : calls'[j].pc = "create" => calls'[j] = calls[j]
      <4> DEFINE call == [pc |-> "reread", postID |-> p, enabled |-> e, overwritten |-> FALSE]
      <4>1. calls' = [MarkOverwritten(p) EXCEPT ![k] = call] /\ call.pc = "reread"
        BY <3>1 DEF SetCommentsEnabledUpdate
      <4> HIDE DEF call
      <4>2. \A j \in Clients : calls'[j] = IF j = k THEN call ELSE MarkOverwritten(p)[j]
        BY <4>1 DEF MarkOverwritten
      <4> QED BY <1>2, <4>1, <4>2, MarkOverwrittenKeepsCreates
    <3> QED BY <1>2, <2>0, <3>2, <3>3, <3>4, OtherStepsKeepOrphansLone
         DEF OrphanInv, IdsAreUsed, TypeOK, Comment
  <2>5. CASE \E p \in PostIDs, a \in AuthorIDs, e \in BOOLEAN, t \in Times :
               CreatePostCall(p, a, e, t)
    <3>1. PICK p \in PostIDs, a \in AuthorIDs, e \in BOOLEAN, t \in Times :
               CreatePostCall(p, a, e, t)
      BY <2>5
    <3>2. UNCHANGED <<comments, calls, usedCommentIDs>> /\ usedPostIDs' = usedPostIDs \cup {p}
      BY <3>1 DEF CreatePostCall, CreatePost
    <3>3. posts[p] = Absent /\ \A q \in PostIDs : q # p => posts'[q] = posts[q]
      BY <2>0, <3>1 DEF CreatePostCall, CreatePost, TypeOK
    <3> QED BY <1>2, <2>0, <3>2, <3>3, OtherStepsKeepOrphansLone
         DEF OrphanInv, IdsAreUsed, TypeOK, Comment
  <2>6. CASE \E p \in PostIDs, a \in AuthorIDs : DeletePostCall(p, a)
    <3>1. PICK p \in PostIDs, a \in AuthorIDs : DeletePostCall(p, a)
      BY <2>6
    <3>2. UNCHANGED <<usedPostIDs, usedCommentIDs>> /\ DeletePost(p, a)
      BY <3>1 DEF DeletePostCall
    <3>3. /\ \A c \in CommentIDs :
               comments'[c] = IF comments[c] # Absent /\ comments[c].postID = p
                              THEN Absent ELSE comments[c]
          /\ \A q \in PostIDs : posts'[q] = IF q = p THEN Absent ELSE posts[q]
      BY <2>0, <3>2, DeletePostEffect DEF IndexInv
    <3>4. \A j \in Clients : calls'[j].pc = "create" => calls'[j] = calls[j]
      BY <1>2, <3>1, MarkOverwrittenKeepsCreates DEF DeletePostCall
    <3> QED BY <1>2, <2>0, <3>2, <3>3, <3>4, OtherStepsKeepOrphansLone
         DEF OrphanInv, IdsAreUsed, TypeOK, Comment
  <2>7. CASE \E id \in CommentIDs, a \in AuthorIDs : DeleteCommentCall(id, a)
    <3>1. PICK id \in CommentIDs, a \in AuthorIDs : DeleteCommentCall(id, a)
      BY <2>7
    <3>2. UNCHANGED <<calls, usedPostIDs, usedCommentIDs>> /\ DeleteComment(id, a)
      BY <3>1 DEF DeleteCommentCall
    <3>3. /\ posts' = posts
          /\ \A c \in CommentIDs :
               /\ comments'[c] = Absent <=> comments[c] = Absent
               /\ comments[c] # Absent => /\ comments'[c].postID = comments[c].postID
                                          /\ comments'[c].parentID = comments[c].parentID
      BY <2>0, <3>2, DeleteCommentEffect
    <3> QED BY <1>2, <3>2, <3>3, OtherStepsKeepOrphansLone DEF OrphanInv, IdsAreUsed
  <2>8. CASE UNCHANGED serviceVars
    BY <1>2, <2>8, OtherStepsKeepOrphansLone DEF serviceVars, OrphanInv, IdsAreUsed
  <2> QED BY <1>2, <2>1, <2>2, <2>3, <2>4, <2>5, <2>6, <2>7, <2>8 DEF ServiceNext
<1> QED BY <1>1, <1>2

\* A comment that outlives its post, as the race between AddComment and
\* DeletePost allows, is always a root without replies: no thread is ever left
\* behind, for any number of requests in flight.
THEOREM OrphansAreAlwaysLoneRoots == ServiceSpec => []OrphansAreLoneRoots
<1>1. ServiceInit => StoreInv /\ ServiceTypeOK /\ OrphanInv
  BY TypeInductive, IndexInductive, ThreadInductive, ServiceTypeInductive, OrphanInductive
     DEF ServiceInit, StoreInv
<1>2. StoreInv /\ ServiceTypeOK /\ OrphanInv /\ [ServiceNext]_serviceVars
        => StoreInv' /\ ServiceTypeOK' /\ OrphanInv'
  BY ServiceStepIsStoreStep, TypeInductive, IndexInductive, ThreadInductive,
     ServiceTypeInductive, OrphanInductive DEF StoreInv
<1>3. OrphanInv => OrphansAreLoneRoots
  BY DEF OrphanInv
<1> QED BY <1>1, <1>2, <1>3, PTL DEF ServiceSpec

(***************************************************************************)
(* Late comments, and the answer of SetCommentsEnabled.                    *)
(***************************************************************************)

\* The requests that have passed the check of p and have not stored their comment
Creating(p) == {k \in Clients : calls[k].pc = "create" /\ calls[k].postID = p}

Closed(p) == posts[p] # Absent /\ ~ posts[p].commentsEnabled

\* Each late comment of p was stored by a request that has left Creating(p) since
\* p was closed, and none can enter it.
LateInv(p) ==
  /\ IsFiniteSet(lateComments[p])
  /\ posts[p] = Absent => lateComments[p] = {}
  /\ Closed(p) => Cardinality(lateComments[p]) + Cardinality(Creating(p))
                    <= Cardinality(Clients)

RequestInv == AnswerIsExplained /\ \A p \in PostIDs : LateInv(p)

LEMMA CreatingIsFinite ==
  ASSUME NEW p
  PROVE  /\ IsFiniteSet(Creating(p)) /\ Cardinality(Creating(p)) \in Nat
         /\ Cardinality(Creating(p)) <= Cardinality(Clients) /\ Cardinality(Clients) \in Nat
<1>1. Creating(p) \subseteq Clients
  BY DEF Creating
<1> QED BY <1>1, ClientsAreFinite, FS_Subset, FS_CardinalityType

\* Whoever stores a comment on a closed post leaves Creating(p).
LEMMA CreateKeepsLate ==
  ASSUME ServiceTypeOK, NEW k \in Clients, NEW id \in CommentIDs, NEW t \in Times,
         AddCommentCreate(k, id, t), NEW p \in PostIDs, LateInv(p)
  PROVE  LateInv(p)'
<1>1. calls[k] \in AddCall /\ calls[k].pc = "create"
  BY CallsByStep DEF AddCommentCreate
<1>2. posts' = posts
  BY DEF AddCommentCreate, CreateComment
<1>3. \A j \in Clients : calls'[j].pc = "create" => j # k /\ calls'[j] = calls[j]
  BY DEF AddCommentCreate, ServiceTypeOK
<1>4. CASE Closed(p) /\ calls[k].postID = p
  <2>1. lateComments'[p] = lateComments[p] \cup {id}
    BY <1>4 DEF AddCommentCreate, Closed, ServiceTypeOK
  <2>2. /\ IsFiniteSet(lateComments'[p])
        /\ Cardinality(lateComments'[p]) <= Cardinality(lateComments[p]) + 1
        /\ Cardinality(lateComments[p]) \in Nat /\ Cardinality(lateComments'[p]) \in Nat
    <3>1. IsFiniteSet(lateComments[p]) /\ Cardinality(lateComments[p]) \in Nat
      BY FS_CardinalityType DEF LateInv
    <3>2. /\ IsFiniteSet(lateComments[p] \cup {id})
          /\ Cardinality(lateComments[p] \cup {id}) =
               IF id \in lateComments[p] THEN Cardinality(lateComments[p])
                                         ELSE Cardinality(lateComments[p]) + 1
      BY <3>1, FS_AddElement, Zenon
    <3> QED BY <2>1, <3>1, <3>2
  <2>3. k \in Creating(p) /\ Creating(p)' \subseteq Creating(p) \ {k}
    BY <1>1, <1>3, <1>4 DEF Creating
  <2>4. /\ IsFiniteSet(Creating(p) \ {k})
        /\ Cardinality(Creating(p) \ {k}) = Cardinality(Creating(p)) - 1
    BY <2>3, CreatingIsFinite, FS_RemoveElement
  <2>5. Cardinality(Creating(p)') <= Cardinality(Creating(p)) - 1 /\ Cardinality(Creating(p)') \in Nat
    BY <2>3, <2>4, FS_Subset, FS_CardinalityType
  <2>6. /\ Cardinality(Creating(p)) \in Nat /\ Cardinality(Clients) \in Nat
        /\ Cardinality(lateComments[p]) + Cardinality(Creating(p)) <= Cardinality(Clients)
    BY <1>4, CreatingIsFinite DEF LateInv
  <2> QED BY <1>2, <1>4, <2>2, <2>5, <2>6 DEF LateInv, Closed
<1>5. CASE ~ (Closed(p) /\ calls[k].postID = p)
  <2>1. lateComments'[p] = lateComments[p]
    BY <1>1, <1>5 DEF AddCommentCreate, Closed, ServiceTypeOK, AddCall
  <2>2. Creating(p)' \subseteq Creating(p)
    BY <1>3 DEF Creating
  <2>3. Cardinality(Creating(p)') <= Cardinality(Creating(p)) /\ Cardinality(Creating(p)') \in Nat
    BY <2>2, CreatingIsFinite, FS_Subset, FS_CardinalityType
  <2> QED BY <1>2, <2>1, <2>3, CreatingIsFinite, FS_CardinalityType DEF LateInv, Closed
<1> QED BY <1>4, <1>5

\* Every other step clears the late comments of a post or lets nobody pass its
\* check while it is closed.
LEMMA OtherStepsKeepLate ==
  ASSUME NEW p \in PostIDs, LateInv(p),
         lateComments'[p] \in {lateComments[p], {}},
         posts'[p] = Absent => posts[p] = Absent \/ lateComments'[p] = {},
         Closed(p)' => \/ lateComments'[p] = {}
                       \/ Closed(p) /\ Creating(p)' \subseteq Creating(p)
  PROVE  LateInv(p)'
<1>1. Creating(p)' \subseteq Clients
  BY DEF Creating
<1>2. /\ Cardinality(Creating(p)') \in Nat /\ Cardinality(Clients) \in Nat
      /\ Cardinality(Creating(p)') <= Cardinality(Clients)
  BY <1>1, ClientsAreFinite, FS_Subset, FS_CardinalityType
<1>3. CASE lateComments'[p] = {}
  BY <1>2, <1>3, FS_EmptySet DEF LateInv
<1>4. CASE lateComments'[p] = lateComments[p]
  <2>1. CASE Closed(p) /\ Creating(p)' \subseteq Creating(p)
    <3>1. Cardinality(Creating(p)') <= Cardinality(Creating(p))
      BY <2>1, CreatingIsFinite, FS_Subset
    <3> QED BY <1>2, <1>4, <2>1, <3>1, CreatingIsFinite, FS_CardinalityType DEF LateInv
  <2>2. CASE ~ Closed(p)'
    BY <1>4, <2>2 DEF LateInv
  <2> QED BY <1>3, <2>1, <2>2
<1> QED BY <1>3, <1>4

\* A write to p marks the requests that are about to read p back, and no other.
LEMMA MarkOverwrittenMarksRereads ==
  ASSUME ServiceTypeOK, NEW p \in PostIDs, NEW k \in Clients,
         MarkOverwritten(p)[k].pc = "reread", ~ MarkOverwritten(p)[k].overwritten
  PROVE  MarkOverwritten(p)[k] = calls[k] /\ calls[k].postID # p
<1>1. CASE calls[k].pc = "reread" /\ calls[k].postID = p
  <2>1. calls[k] \in RereadCall
    BY <1>1, CallsByStep
  <2>2. [calls[k] EXCEPT !.overwritten = TRUE].overwritten
    BY <2>1 DEF RereadCall
  <2> QED BY <1>1, <2>2 DEF MarkOverwritten
<1>2. CASE ~ (calls[k].pc = "reread" /\ calls[k].postID = p)
  BY <1>2 DEF MarkOverwritten
<1> QED BY <1>1, <1>2

\* A request keeps its answer while its post stays as it is.
LEMMA OtherStepsKeepAnswers ==
  ASSUME AnswerIsExplained,
         \A k \in Clients :
           calls'[k].pc = "reread" /\ ~ calls'[k].overwritten =>
             \/ calls'[k] = calls[k] /\ posts'[calls[k].postID] = posts[calls[k].postID]
             \/ /\ posts'[calls'[k].postID] # Absent
                /\ posts'[calls'[k].postID].commentsEnabled = calls'[k].enabled
  PROVE  AnswerIsExplained'
BY DEF AnswerIsExplained

LEMMA RequestInductive ==
  /\ ServiceInit => RequestInv
  /\ TypeOK /\ IndexInv /\ ServiceTypeOK /\ RequestInv /\ [ServiceNext]_serviceVars => RequestInv'
<1>1. ASSUME ServiceInit PROVE RequestInv
  <2>1. AnswerIsExplained
    BY <1>1 DEF ServiceInit, Idle, AnswerIsExplained
  <2>2. ASSUME NEW p \in PostIDs PROVE LateInv(p)
    <3>1. lateComments[p] = {} /\ ~ Closed(p)
      BY <1>1 DEF ServiceInit, Init, Closed
    <3> QED BY <3>1, FS_EmptySet DEF LateInv
  <2> QED BY <2>1, <2>2 DEF RequestInv
<1>2. ASSUME TypeOK, IndexInv, ServiceTypeOK, RequestInv, [ServiceNext]_serviceVars
      PROVE  RequestInv'
  <2>0. AnswerIsExplained /\ \A p \in PostIDs : LateInv(p)
    BY <1>2 DEF RequestInv
  <2> SUFFICES AnswerIsExplained' /\ \A p \in PostIDs : LateInv(p)'
    BY DEF RequestInv
  <2>1. CASE \E k \in Clients, id \in CommentIDs, t \in Times : AddCommentCreate(k, id, t)
    <3>1. PICK k \in Clients, id \in CommentIDs, t \in Times : AddCommentCreate(k, id, t)
      BY <2>1
    <3>2. posts' = posts /\ \A j \in Clients : calls'[j].pc = "reread" => calls'[j] = calls[j]
      BY <1>2, <3>1 DEF AddCommentCreate, CreateComment, ServiceTypeOK
    <3> QED BY <1>2, <2>0, <3>1, <3>2, CreateKeepsLate, OtherStepsKeepAnswers
  <2>2. CASE \E k \in Clients, p \in usedPostIDs, parent \in usedCommentIDs \cup {NoParent},
                a \in AuthorIDs : AddCommentCheck(k, p, parent, a)
    <3>1. PICK k \in Clients, p \in usedPostIDs, parent \in usedCommentIDs \cup {NoParent},
               a \in AuthorIDs : AddCommentCheck(k, p, parent, a)
      BY <2>2
    <3>2. /\ posts' = posts /\ lateComments' = lateComments
          /\ posts[p] # Absent /\ posts[p].commentsEnabled
          /\ \A j \in Clients : \/ calls'[j] = calls[j]
                                \/ calls'[j].pc = "create" /\ calls'[j].postID = p
      BY <1>2, <3>1 DEF AddCommentCheck, ServiceTypeOK
    <3>3. \A q \in PostIDs : Closed(q)' => Closed(q) /\ Creating(q)' \subseteq Creating(q)
      BY <3>2 DEF Closed, Creating
    <3> QED BY <2>0, <3>2, <3>3, OtherStepsKeepLate, OtherStepsKeepAnswers
  <2>3. CASE \E k \in Clients : \/ AddCommentRejected(k)
                                \/ AddCommentPublish(k)
                                \/ SetCommentsEnabledReread(k)
                                \/ CancelCall(k)
    <3>1. PICK k \in Clients : calls' = [calls EXCEPT ![k] = Idle]
      BY <2>3 DEF AddCommentRejected, AddCommentPublish, SetCommentsEnabledReread, CancelCall
    <3>2. posts' = posts /\ lateComments' = lateComments
      BY <2>3 DEF AddCommentRejected, AddCommentPublish, SetCommentsEnabledReread, CancelCall
    <3>3. \A j \in Clients : calls'[j] = calls[j] \/ calls'[j].pc = "idle"
      BY <1>2, <3>1 DEF ServiceTypeOK, Idle
    <3>4. \A q \in PostIDs : Closed(q)' => Closed(q) /\ Creating(q)' \subseteq Creating(q)
      BY <3>2, <3>3 DEF Closed, Creating
    <3> QED BY <2>0, <3>2, <3>3, <3>4, OtherStepsKeepLate, OtherStepsKeepAnswers
  <2>4. CASE \E k \in Clients, p \in PostIDs, a \in AuthorIDs, e \in BOOLEAN :
               SetCommentsEnabledUpdate(k, p, a, e)
    <3>1. PICK k \in Clients, p \in PostIDs, a \in AuthorIDs, e \in BOOLEAN :
               SetCommentsEnabledUpdate(k, p, a, e)
      BY <2>4
    <3> DEFINE call == [pc |-> "reread", postID |-> p, enabled |-> e, overwritten |-> FALSE]
    <3>2. /\ posts[p] \in Post /\ posts'[p].commentsEnabled = e /\ posts'[p] # Absent
          /\ \A q \in PostIDs : q # p => posts'[q] = posts[q]
      <4>1. posts[p] \in Post
        BY <1>2, <3>1 DEF SetCommentsEnabledUpdate, SetCommentsEnabled, PostAccessError, TypeOK
      <4>2. /\ [posts[p] EXCEPT !.commentsEnabled = e] \in Post
            /\ [posts[p] EXCEPT !.commentsEnabled = e].commentsEnabled = e
        BY <4>1 DEF Post
      <4>3. posts' = [posts EXCEPT ![p] = [posts[p] EXCEPT !.commentsEnabled = e]]
        BY <3>1 DEF SetCommentsEnabledUpdate, SetCommentsEnabled
      <4> QED BY <1>2, <4>1, <4>2, <4>3, AbsentIsNoValue DEF TypeOK
    <3>3. /\ calls' = [MarkOverwritten(p) EXCEPT ![k] = call] /\ call.pc = "reread"
          /\ call.postID = p /\ call.enabled = e
      BY <3>1 DEF SetCommentsEnabledUpdate
    <3> HIDE DEF call
    <3>4. \A j \in Clients : calls'[j] = IF j = k THEN call ELSE MarkOverwritten(p)[j]
      BY <3>3 DEF MarkOverwritten
    <3>5. \A j \in Clients : calls'[j].pc = "create" => calls'[j] = calls[j]
      BY <1>2, <3>3, <3>4, MarkOverwrittenKeepsCreates
    <3>6. \A j \in Clients :
            calls'[j].pc = "reread" /\ ~ calls'[j].overwritten =>
              \/ calls'[j] = call
              \/ calls'[j] = calls[j] /\ calls[j].postID # p
      BY <1>2, <3>4, MarkOverwrittenMarksRereads
    <3>7. ASSUME NEW j \in Clients, calls'[j].pc = "reread", ~ calls'[j].overwritten
          PROVE  \/ calls'[j] = calls[j] /\ posts'[calls[j].postID] = posts[calls[j].postID]
                 \/ /\ posts'[calls'[j].postID] # Absent
                    /\ posts'[calls'[j].postID].commentsEnabled = calls'[j].enabled
      <4>1. CASE calls'[j] = call
        BY <4>1, <3>2, <3>3
      <4>2. CASE calls'[j] = calls[j] /\ calls[j].postID # p
        <5>1. calls[j].postID \in PostIDs
          BY <1>2, <3>7, <4>2, CallsByStep DEF RereadCall
        <5> QED BY <4>2, <5>1, <3>2
      <4> QED BY <3>6, <3>7, <4>1, <4>2
    <3>8. AnswerIsExplained'
      BY <2>0, <3>7, OtherStepsKeepAnswers
    <3>9. ASSUME NEW q \in PostIDs PROVE LateInv(q)'
      <4>1. Creating(q)' \subseteq Creating(q)
        BY <3>5 DEF Creating
      <4>2. /\ lateComments'[q] \in {lateComments[q], {}}
            /\ Closed(q)' => Closed(q) \/ lateComments'[q] = {}
            /\ posts'[q] = Absent => posts[q] = Absent
        <5>1. CASE q = p
          BY <1>2, <3>1, <3>2, <5>1 DEF SetCommentsEnabledUpdate, SetCommentsEnabled,
             PostAccessError, ServiceTypeOK, Closed
        <5>2. CASE q # p
          BY <1>2, <3>1, <3>2, <5>2 DEF SetCommentsEnabledUpdate, ServiceTypeOK, Closed
        <5> QED BY <5>1, <5>2
      <4> QED BY <2>0, <4>1, <4>2, OtherStepsKeepLate
    <3> QED BY <3>8, <3>9
  <2>5. CASE \E p \in PostIDs, a \in AuthorIDs, e \in BOOLEAN, t \in Times :
               CreatePostCall(p, a, e, t)
    <3>1. PICK p \in PostIDs, a \in AuthorIDs, e \in BOOLEAN, t \in Times :
               CreatePostCall(p, a, e, t)
      BY <2>5
    <3> DEFINE post == [authorID |-> a, commentsEnabled |-> e, createdAt |-> t]
    <3>2. /\ posts[p] = Absent /\ posts' = [posts EXCEPT ![p] = post] /\ post \in Post
          /\ UNCHANGED <<calls, lateComments>>
      BY <3>1 DEF CreatePostCall, CreatePost, Post
    <3> HIDE DEF post
    <3>3. posts'[p] # Absent /\ \A q \in PostIDs : q # p => posts'[q] = posts[q]
      BY <1>2, <3>2, AbsentIsNoValue DEF TypeOK
    <3>4. ASSUME NEW j \in Clients, calls'[j].pc = "reread", ~ calls'[j].overwritten
          PROVE  calls'[j] = calls[j] /\ posts'[calls[j].postID] = posts[calls[j].postID]
      <4>1. calls[j] \in RereadCall
        BY <1>2, <3>2, <3>4, CallsByStep
      <4>2. calls[j].postID # p /\ calls[j].postID \in PostIDs
        BY <2>0, <3>2, <3>4, <4>1 DEF AnswerIsExplained, RereadCall
      <4> QED BY <3>2, <3>3, <4>2
    <3>5. ASSUME NEW q \in PostIDs PROVE LateInv(q)'
      <4>1. q = p => lateComments'[q] = {}
        BY <2>0, <3>2 DEF LateInv
      <4>2. q # p => (Closed(q)' => Closed(q) /\ Creating(q)' \subseteq Creating(q))
        BY <3>2, <3>3 DEF Closed, Creating
      <4> QED BY <2>0, <3>2, <3>3, <4>1, <4>2, OtherStepsKeepLate
    <3> QED BY <2>0, <3>4, <3>5, OtherStepsKeepAnswers
  <2>6. CASE \E p \in PostIDs, a \in AuthorIDs : DeletePostCall(p, a)
    <3>1. PICK p \in PostIDs, a \in AuthorIDs : DeletePostCall(p, a)
      BY <2>6
    <3>2. /\ lateComments' = [lateComments EXCEPT ![p] = {}] /\ calls' = MarkOverwritten(p)
          /\ posts' = [posts EXCEPT ![p] = Absent]
      BY <3>1 DEF DeletePostCall, DeletePost
    <3>3. \A j \in Clients : calls'[j].pc = "create" => calls'[j] = calls[j]
      BY <1>2, <3>2, MarkOverwrittenKeepsCreates
    <3>4. ASSUME NEW j \in Clients, calls'[j].pc = "reread", ~ calls'[j].overwritten
          PROVE  calls'[j] = calls[j] /\ posts'[calls[j].postID] = posts[calls[j].postID]
      <4>1. calls'[j] = calls[j] /\ calls[j].postID # p
        BY <1>2, <3>2, <3>4, MarkOverwrittenMarksRereads
      <4>2. calls[j].postID \in PostIDs
        BY <1>2, <3>4, <4>1, CallsByStep DEF RereadCall
      <4> QED BY <1>2, <3>2, <4>1, <4>2 DEF TypeOK
    <3>5. ASSUME NEW q \in PostIDs PROVE LateInv(q)'
      <4>1. Creating(q)' \subseteq Creating(q)
        BY <3>3 DEF Creating
      <4>2. /\ lateComments'[q] \in {lateComments[q], {}}
            /\ Closed(q)' => Closed(q)
            /\ posts'[q] = Absent => posts[q] = Absent \/ lateComments'[q] = {}
        BY <1>2, <3>2 DEF ServiceTypeOK, Closed, TypeOK
      <4> QED BY <2>0, <4>1, <4>2, OtherStepsKeepLate
    <3> QED BY <2>0, <3>4, <3>5, OtherStepsKeepAnswers
  <2>7. CASE \E id \in CommentIDs, a \in AuthorIDs : DeleteCommentCall(id, a)
    <3>1. UNCHANGED <<posts, calls, lateComments>>
      BY <2>7 DEF DeleteCommentCall, DeleteComment
    <3> QED BY <2>0, <3>1 DEF AnswerIsExplained, LateInv, Closed, Creating
  <2>8. CASE UNCHANGED serviceVars
    BY <2>0, <2>8 DEF serviceVars, AnswerIsExplained, LateInv, Closed, Creating
  <2> QED BY <1>2, <2>1, <2>2, <2>3, <2>4, <2>5, <2>6, <2>7, <2>8 DEF ServiceNext
<1> QED BY <1>1, <1>2

LEMMA RequestAlways == ServiceSpec => [](ServiceTypeOK /\ RequestInv)
<1>1. ServiceInit => StoreInv /\ ServiceTypeOK /\ RequestInv
  BY TypeInductive, IndexInductive, ThreadInductive, ServiceTypeInductive, RequestInductive
     DEF ServiceInit, StoreInv
<1>2. StoreInv /\ ServiceTypeOK /\ RequestInv /\ [ServiceNext]_serviceVars
        => StoreInv' /\ ServiceTypeOK' /\ RequestInv'
  BY ServiceStepIsStoreStep, TypeInductive, IndexInductive, ThreadInductive,
     ServiceTypeInductive, RequestInductive DEF StoreInv
<1> QED BY <1>1, <1>2, PTL DEF ServiceSpec

\* Of the comments that AddComment stores on a post behind the back of the request
\* that closed it (comment_service.go:76-91), and of those it may still store, there
\* are never more than there are requests.
THEOREM LateCommentsAreAlwaysBounded == ServiceSpec => []LateCommentsAreBounded
<1>1. RequestInv => LateCommentsAreBounded
  BY DEF RequestInv, LateInv, LateCommentsAreBounded, Closed, Creating
<1> QED BY <1>1, RequestAlways, PTL

\* The post that SetCommentsEnabled reads back (post_service.go:111-115) is there and carries
\* the flag that was asked for, unless another request wrote the post in between.
THEOREM AnswersAreExplained == ServiceSpec => []AnswerIsExplained
<1>1. RequestInv => AnswerIsExplained
  BY DEF RequestInv
<1> QED BY <1>1, RequestAlways, PTL
==============================================================================
