------------------------- MODULE StoreContract_proofs -------------------------
(***************************************************************************)
(* What follows from the contract of a storage back end, for both of them. *)
(***************************************************************************)
EXTENDS StoreContract, TLAPS

\* Asked of the constants, as both back ends do
AbsentIsNoRecord == Absent \notin StoredPost /\ Absent \notin StoredComment

ContractTypeOK ==
  /\ posts \in [PostIDs -> StoredPost \cup {Absent}]
  /\ comments \in [CommentIDs -> StoredComment \cup {Absent}]

\* A parent never goes before its replies: they leave together, with their post.
ContractInv == ContractTypeOK /\ ParentsAreStored /\ PostsAreStored

LEMMA ContractStep ==
  ASSUME AbsentIsNoRecord, ContractInv, [Next]_contractVars
  PROVE  ContractInv'
<1>1. CASE UNCHANGED contractVars
  BY <1>1 DEF contractVars, ContractInv, ContractTypeOK, ParentsAreStored, PostsAreStored
<1>2. ASSUME NEW p \in PostIDs, NEW post \in StoredPost, CreatePost(p, post)
      PROVE  ContractInv'
  <2>1. \A q \in PostIDs : posts'[q] = IF q = p THEN post ELSE posts[q]
    BY <1>2 DEF CreatePost, ContractInv, ContractTypeOK
  <2>2. post # Absent
    BY DEF AbsentIsNoRecord
  <2>3. ContractTypeOK' /\ comments' = comments
    BY <1>2 DEF CreatePost, ContractInv, ContractTypeOK
  <2>4. ParentsAreStored'
    BY <2>3 DEF ContractInv, ParentsAreStored
  <2>5. PostsAreStored'
    BY <2>1, <2>2, <2>3 DEF ContractInv, ContractTypeOK, PostsAreStored, StoredComment
  <2> QED BY <2>3, <2>4, <2>5 DEF ContractInv
<1>3. ASSUME NEW p \in PostIDs, NEW e \in BOOLEAN, SetCommentsEnabled(p, e)
      PROVE  ContractInv'
  <2> DEFINE set == [posts[p] EXCEPT !.commentsEnabled = e]
  <2>1. posts[p] \in StoredPost
    BY <1>3 DEF SetCommentsEnabled, ContractInv, ContractTypeOK
  <2>2. set \in StoredPost /\ set # Absent
    BY <2>1 DEF AbsentIsNoRecord, StoredPost
  <2>3. posts' = [posts EXCEPT ![p] = set] /\ comments' = comments
    BY <1>3 DEF SetCommentsEnabled
  <2> HIDE DEF set
  <2>4. ContractTypeOK' /\ \A q \in PostIDs : posts[q] # Absent => posts'[q] # Absent
    BY <2>2, <2>3 DEF ContractInv, ContractTypeOK
  <2> QED BY <2>3, <2>4 DEF ContractInv, ParentsAreStored, PostsAreStored, ContractTypeOK, StoredComment
<1>4. ASSUME NEW p \in PostIDs, DeletePost(p)
      PROVE  ContractInv'
  <2>1. /\ \A q \in PostIDs : posts'[q] = IF q = p THEN Absent ELSE posts[q]
        /\ \A c \in CommentIDs :
             comments'[c] = IF comments[c] # Absent /\ comments[c].postID = p
                            THEN Absent ELSE comments[c]
        /\ ContractTypeOK'
    BY <1>4 DEF DeletePost, ContractInv, ContractTypeOK
  <2>2. ASSUME NEW c \in CommentIDs, comments'[c] # Absent
        PROVE  /\ comments[c] # Absent /\ comments'[c] = comments[c] /\ comments[c].postID # p
               /\ comments[c] \in StoredComment
    BY <2>1, <2>2 DEF ContractInv, ContractTypeOK
  <2>3. ParentsAreStored'
    BY <2>1, <2>2 DEF ContractInv, ParentsAreStored, StoredComment
  <2>4. PostsAreStored'
    BY <2>1, <2>2 DEF ContractInv, PostsAreStored, StoredComment
  <2> QED BY <2>1, <2>3, <2>4 DEF ContractInv
<1>5. ASSUME NEW c \in CommentIDs, NEW comment \in StoredComment, CreateComment(c, comment)
      PROVE  ContractInv'
  <2>1. /\ \A d \in CommentIDs : comments'[d] = IF d = c THEN comment ELSE comments[d]
        /\ ContractTypeOK' /\ posts' = posts /\ comments[c] = Absent
        /\ PostRequired => posts[comment.postID] # Absent
        /\ ParentFits(comment)
    BY <1>5 DEF CreateComment, ContractInv, ContractTypeOK
  <2>2. comment # Absent /\ comment.parentID \in CommentIDs \cup {NoParent}
    BY DEF AbsentIsNoRecord, StoredComment
  <2>3. ASSUME NEW d \in CommentIDs, comments'[d] # Absent, comments'[d].parentID # NoParent
        PROVE  /\ comments'[comments'[d].parentID] # Absent
               /\ comments'[comments'[d].parentID].postID = comments'[d].postID
    <3>1. CASE d = c
      BY <2>1, <2>2, <2>3, <3>1 DEF ParentFits
    <3>2. CASE d # c
      <4>1. comments'[d] = comments[d] /\ comments[d].parentID \in CommentIDs
        BY <2>1, <2>3, <3>2 DEF ContractInv, ContractTypeOK, StoredComment
      <4> QED BY <2>1, <2>3, <4>1 DEF ContractInv, ParentsAreStored
    <3> QED BY <3>1, <3>2
  <2>4. PostsAreStored'
    BY <2>1 DEF ContractInv, PostsAreStored
  <2> QED BY <2>1, <2>3, <2>4 DEF ContractInv, ParentsAreStored
<1>6. ASSUME NEW c \in CommentIDs, DeleteComment(c)
      PROVE  ContractInv'
  <2> DEFINE deleted == [comments[c] EXCEPT !.deleted = TRUE]
  <2>1. comments[c] \in StoredComment
    BY <1>6 DEF DeleteComment, ContractInv, ContractTypeOK
  <2>2. /\ deleted \in StoredComment /\ deleted # Absent
        /\ deleted.postID = comments[c].postID /\ deleted.parentID = comments[c].parentID
    BY <2>1 DEF AbsentIsNoRecord, StoredComment
  <2>3. comments' = [comments EXCEPT ![c] = deleted] /\ posts' = posts /\ comments[c] # Absent
    BY <1>6 DEF DeleteComment
  <2> HIDE DEF deleted
  <2>4. /\ ContractTypeOK'
        /\ \A d \in CommentIDs : comments'[d] = IF d = c THEN deleted ELSE comments[d]
    BY <2>2, <2>3 DEF ContractInv, ContractTypeOK
  <2>5. \A d \in CommentIDs :
          /\ comments'[d] # Absent <=> comments[d] # Absent
          /\ comments'[d] # Absent => /\ comments'[d].postID = comments[d].postID
                                      /\ comments'[d].parentID = comments[d].parentID
                                      /\ comments[d].parentID \in CommentIDs \cup {NoParent}
    BY <2>2, <2>3, <2>4 DEF ContractInv, ContractTypeOK, StoredComment
  <2>6. ParentsAreStored'
    BY <2>5 DEF ContractInv, ParentsAreStored
  <2>7. PostsAreStored'
    BY <2>3, <2>5 DEF ContractInv, PostsAreStored
  <2> QED BY <2>4, <2>6, <2>7 DEF ContractInv
<1> QED BY <1>1, <1>2, <1>3, <1>4, <1>5, <1>6 DEF Next

\* In a back end that keeps the contract a stored reply has its parent stored, under
\* the same post, and where comments require their post (PostgreSQL) no comment is
\* ever stored without it.
THEOREM ContractKeepsThreads ==
  ASSUME AbsentIsNoRecord
  PROVE  Spec => [](ParentsAreStored /\ PostsAreStored)
<1>1. Init => ContractInv
  BY DEF Init, ContractInv, ContractTypeOK, ParentsAreStored, PostsAreStored
<1>2. ContractInv /\ [Next]_contractVars => ContractInv'
  BY ContractStep
<1>3. ContractInv => ParentsAreStored /\ PostsAreStored
  BY DEF ContractInv
<1> QED BY <1>1, <1>2, <1>3, PTL DEF Spec
==============================================================================
