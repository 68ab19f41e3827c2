--------------------------- MODULE MemoryStore_proofs ---------------------------
(***************************************************************************)
(* Proofs about MemoryStore, for any sets of posts, comments, authors and  *)
(* times: the index is typed, exact, complete and sorted, replies form     *)
(* forests within one post, and a page cut out of the index is the page    *)
(* that a scan of all comments would give.                                 *)
(***************************************************************************)
EXTENDS MemoryStore, WellFoundedInduction, SequenceTheorems, FiniteSetTheorems, TLAPS

(***************************************************************************)
(* Searching and inserting.                                                *)
(***************************************************************************)

\* Min returns the least element of a non-empty set of naturals.
LEMMA MinOfNats ==
  ASSUME NEW T \in SUBSET Nat, T # {}
  PROVE  Min(T) \in T /\ \A n \in T : Min(T) <= n
<1> DEFINE R == {ss \in Nat \X Nat : ss[1] < ss[2]}
<1>1. IsWellFoundedOn(R, Nat)
  BY NatLessThanWellFounded, Zenon DEF OpToRel
<1>2. PICK m \in T : \A n \in T : ~ (<<n, m>> \in R)
  <2> HIDE DEF R
  <2> QED BY <1>1, WFMin, Zenon
<1>3. ASSUME NEW n \in T PROVE ~ (n < m)
  <2>1. <<n, m>> \in Nat \X Nat OBVIOUS
  <2>2. ~ (<<n, m>> \in R) BY <1>2
  <2> QED BY <2>1, <2>2, Zenon
<1>4. \A n \in T : m <= n
  BY <1>3
<1> QED BY <1>4 DEF Min

\* sort.Search as insertSortedEntry uses it: the position it returns has only
\* smaller entries below it and does not itself hold a smaller one.
LEMMA FirstNotBeforeSplits ==
  ASSUME NEW s \in Seq(Entry), NEW e \in Entry
  PROVE  LET pos == FirstNotBefore(s, e)
         IN  /\ pos \in 1..Len(s) + 1
             /\ \A j \in 1..Len(s) : j < pos => Precedes(s[j], e)
             /\ pos <= Len(s) => ~ Precedes(s[pos], e)
<1> DEFINE T == {i \in 1..Len(s) : ~ Precedes(s[i], e)} \cup {Len(s) + 1}
<1>1. Len(s) \in Nat
  OBVIOUS
<1>2. T \in SUBSET Nat /\ T # {}
  BY <1>1
<1>3. Min(T) \in T /\ \A n \in T : Min(T) <= n
  <2> HIDE DEF T
  <2> QED BY <1>2, MinOfNats
<1>4. FirstNotBefore(s, e) = Min(T)
  BY DEF FirstNotBefore
<1>5. Min(T) \in 1..Len(s) + 1
  BY <1>1, <1>3
<1>6. Min(T) <= Len(s) => ~ Precedes(s[Min(T)], e)
  BY <1>1, <1>3
<1>7. ASSUME NEW j \in 1..Len(s), j < Min(T), ~ Precedes(s[j], e)
      PROVE  FALSE
  <2>1. j \in T BY <1>7
  <2>2. Min(T) <= j BY <2>1, <1>3
  <2> QED BY <2>2, <1>5, <1>7
<1> QED BY <1>4, <1>5, <1>6, <1>7

\* t is s with e inserted at i, element by element.
IsInsertion(t, s, i, e) ==
  /\ t \in Seq(Entry)
  /\ Len(t) = Len(s) + 1
  /\ \A j \in 1..Len(s) + 1 :
       t[j] = IF j < i THEN s[j] ELSE IF j = i THEN e ELSE s[j - 1]

\* The element-wise meaning of InsertAt.
LEMMA InsertAtElements ==
  ASSUME NEW s \in Seq(Entry), NEW i \in 1..Len(s) + 1, NEW e \in Entry
  PROVE  IsInsertion(InsertAt(s, i, e), s, i, e)
<1> DEFINE a == SubSeq(s, 1, i - 1)
           b == SubSeq(s, i, Len(s))
           ae == a \o <<e>>
           t == ae \o b
<1>0. Len(s) \in Nat /\ i \in Nat
  OBVIOUS
<1>1. a \in Seq(Entry) /\ Len(a) = i - 1 /\ \A j \in 1..i - 1 : a[j] = s[j]
  BY SubSeqProperties
<1>2. b \in Seq(Entry) /\ Len(b) = Len(s) - i + 1 /\ \A j \in 1..Len(s) - i + 1 : b[j] = s[i + j - 1]
  BY SubSeqProperties
<1> HIDE DEF a, b
<1>3. ae \in Seq(Entry) /\ Len(ae) = i /\ \A j \in 1..i : ae[j] = IF j < i THEN s[j] ELSE e
  <2>1. <<e>> \in Seq(Entry) /\ Len(<<e>>) = 1 /\ <<e>>[1] = e OBVIOUS
  <2> QED BY <1>1, <2>1, ConcatProperties
<1> HIDE DEF ae
<1>4. /\ t \in Seq(Entry)
      /\ Len(t) = Len(ae) + Len(b)
      /\ \A j \in 1..Len(ae) + Len(b) : t[j] = IF j <= Len(ae) THEN ae[j] ELSE b[j - Len(ae)]
  BY <1>2, <1>3, ConcatProperties
<1>5. InsertAt(s, i, e) = t
  BY DEF InsertAt, a, b, ae
<1> HIDE DEF t
<1>6. Len(t) = Len(s) + 1
  BY <1>0, <1>2, <1>3, <1>4
<1>7. ASSUME NEW j \in 1..Len(s) + 1
      PROVE  t[j] = IF j < i THEN s[j] ELSE IF j = i THEN e ELSE s[j - 1]
  <2>0. j \in Nat /\ t[j] = IF j <= i THEN ae[j] ELSE b[j - i]
    BY <1>0, <1>2, <1>3, <1>4
  <2>1. CASE j <= i
    BY <2>0, <2>1, <1>0, <1>3
  <2>2. CASE j > i
    <3>1. j - i \in 1..Len(s) - i + 1 BY <1>0, <2>0, <2>2
    <3>2. b[j - i] = s[i + (j - i) - 1] BY <3>1, <1>2
    <3>3. i + (j - i) - 1 = j - 1 BY <1>0, <2>0
    <3> QED BY <1>0, <2>0, <2>2, <3>2, <3>3
  <2> QED BY <1>0, <2>0, <2>1, <2>2
<1>8. /\ InsertAt(s, i, e) \in Seq(Entry)
      /\ Len(InsertAt(s, i, e)) = Len(s) + 1
      /\ \A j \in 1..Len(s) + 1 :
           InsertAt(s, i, e)[j] = IF j < i THEN s[j]
                                  ELSE IF j = i THEN e ELSE s[j - 1]
  BY <1>4, <1>5, <1>6, <1>7
<1> QED BY <1>8 DEF IsInsertion

\* insertSortedEntry returns the entries it was given and the new one, each
\* old entry at its place or one further.
LEMMA InsertedEntries ==
  ASSUME NEW s \in Seq(Entry), NEW e \in Entry
  PROVE  LET t == insertSortedEntry(s, e)
             pos == FirstNotBefore(s, e)
         IN  /\ t \in Seq(Entry)
             /\ Len(t) = Len(s) + 1
             /\ \A j \in 1..Len(s) + 1 :
                  t[j] = IF j < pos THEN s[j] ELSE IF j = pos THEN e ELSE s[j - 1]
<1>1. FirstNotBefore(s, e) \in 1..Len(s) + 1
  BY FirstNotBeforeSplits
<1>2. IsInsertion(InsertAt(s, FirstNotBefore(s, e), e), s, FirstNotBefore(s, e), e)
  BY <1>1, InsertAtElements
<1>3. IsInsertion(insertSortedEntry(s, e), s, FirstNotBefore(s, e), e)
  BY <1>2 DEF insertSortedEntry
<1> QED BY <1>3 DEF IsInsertion

\* Precedes is a strict order in which entries with different ids compare.
LEMMA PrecedesIsAnOrder ==
  ASSUME NEW a \in Entry, NEW b \in Entry, NEW c \in Entry
  PROVE  /\ Precedes(a, b) /\ Precedes(b, c) => Precedes(a, c)
         /\ a.id # b.id /\ ~ Precedes(a, b) => Precedes(b, a)
<1>1. /\ a.createdAt \in Nat /\ b.createdAt \in Nat /\ c.createdAt \in Nat
      /\ a.id \in Nat /\ b.id \in Nat /\ c.id \in Nat
  BY IDsAreOrdered, TimesAreOrdered DEF Entry
<1> QED BY <1>1 DEF Precedes

\* Inserting an entry with an id that is not in a sorted slice keeps it sorted.
LEMMA InsertionKeepsOrder ==
  ASSUME NEW s \in Seq(Entry), NEW e \in Entry,
         \A i, j \in 1..Len(s) : i < j => Precedes(s[i], s[j]),
         \A i \in 1..Len(s) : s[i].id # e.id
  PROVE  LET t == insertSortedEntry(s, e)
         IN  \A i, j \in 1..Len(t) : i < j => Precedes(t[i], t[j])
<1> DEFINE t == insertSortedEntry(s, e)
           pos == FirstNotBefore(s, e)
<1>1. /\ Len(t) = Len(s) + 1
      /\ \A j \in 1..Len(s) + 1 :
           t[j] = IF j < pos THEN s[j] ELSE IF j = pos THEN e ELSE s[j - 1]
  BY InsertedEntries
<1>2. /\ pos \in 1..Len(s) + 1
      /\ \A j \in 1..Len(s) : j < pos => Precedes(s[j], e)
      /\ pos <= Len(s) => ~ Precedes(s[pos], e)
  BY FirstNotBeforeSplits
<1> HIDE DEF t, pos
<1>3. Len(s) \in Nat /\ \A i \in 1..Len(s) : s[i] \in Entry
  OBVIOUS
<1>4. ASSUME NEW j \in 1..Len(s), pos <= j
      PROVE  Precedes(e, s[j])
  <2>1. Precedes(e, s[pos])
    BY <1>2, <1>3, <1>4, PrecedesIsAnOrder
  <2>2. CASE j = pos BY <2>1, <2>2
  <2>3. CASE pos < j
    <3>1. Precedes(s[pos], s[j]) BY <2>3, <1>2, <1>3, <1>4
    <3>2. s[pos] \in Entry /\ s[j] \in Entry BY <1>2, <1>3, <1>4
    <3> QED BY <2>1, <3>1, <3>2, PrecedesIsAnOrder
  <2> QED BY <1>2, <1>3, <1>4, <2>2, <2>3
<1>5. ASSUME NEW i \in 1..Len(s) + 1, NEW j \in 1..Len(s) + 1, i < j
      PROVE  Precedes(t[i], t[j])
  <2>1. CASE j < pos
    BY <2>1, <1>1, <1>2, <1>3, <1>5
  <2>2. CASE j = pos
    BY <2>2, <1>1, <1>2, <1>3, <1>5
  <2>3. CASE i < pos /\ pos < j
    <3>1. t[i] = s[i] /\ t[j] = s[j - 1] BY <2>3, <1>1, <1>2, <1>3
    <3>2. i \in 1..Len(s) /\ j - 1 \in 1..Len(s) /\ i < j - 1 BY <2>3, <1>2, <1>3
    <3> QED BY <3>1, <3>2
  <2>4. CASE i = pos
    <3>1. t[i] = e /\ t[j] = s[j - 1] BY <2>4, <1>1, <1>2, <1>3, <1>5
    <3>2. j - 1 \in 1..Len(s) /\ pos <= j - 1 BY <2>4, <1>2, <1>3, <1>5
    <3> QED BY <3>1, <3>2, <1>4
  <2>5. CASE pos < i
    <3>1. t[i] = s[i - 1] /\ t[j] = s[j - 1] BY <2>5, <1>1, <1>2, <1>3, <1>5
    <3>2. i - 1 \in 1..Len(s) /\ j - 1 \in 1..Len(s) /\ i - 1 < j - 1
      BY <2>5, <1>2, <1>3, <1>5
    <3> QED BY <3>1, <3>2
  <2> QED BY <1>2, <1>3, <1>5, <2>1, <2>2, <2>3, <2>4, <2>5
<1> QED BY <1>1, <1>5 DEF t

(***************************************************************************)
(* Type correctness.                                                       *)
(***************************************************************************)

\* What a successful Create knows of its arguments and of the parent.
LEMMA CreateCommentGuard ==
  ASSUME TypeOK, NEW id \in CommentIDs, NEW c \in Comment, CreateComment(id, c)
  PROVE  /\ comments[id] = Absent
         /\ c.parentID # NoParent =>
              /\ c.parentID \in CommentIDs
              /\ comments[c.parentID] # Absent
              /\ comments[c.parentID].postID = c.postID
         /\ makePostParentKey(c) \in Key
         /\ EntryOf(id, c) \in Entry
<1>1. CreateCommentError(id, c) = "nil"
  BY DEF CreateComment
<1>2. comments[id] = Absent
  BY <1>1 DEF CreateCommentError
<1>3. ASSUME c.parentID # NoParent
      PROVE  /\ comments[c.parentID] # Absent
             /\ comments[c.parentID].postID = c.postID
  BY <1>1, <1>3 DEF CreateCommentError
<1>4. c.parentID \in CommentIDs \cup {NoParent} /\ c.postID \in PostIDs /\ c.createdAt \in Times
  BY DEF Comment
<1> QED BY <1>2, <1>3, <1>4 DEF makePostParentKey, EntryOf, Key, Entry

\* The store is typed initially and after every repository call.
LEMMA TypeInductive ==
  /\ Init => TypeOK
  /\ TypeOK /\ [StoreStep]_storeVars => TypeOK'
<1>1. Init => TypeOK
  BY EmptySeq DEF Init, TypeOK
<1>2. ASSUME TypeOK, [StoreStep]_storeVars PROVE TypeOK'
  <2> USE <1>2
  <2>1. CASE \E id \in CommentIDs, c \in Comment : ~ c.deleted /\ CreateComment(id, c)
    <3>1. PICK id \in CommentIDs, c \in Comment : CreateComment(id, c)
      BY <2>1
    <3> DEFINE key == makePostParentKey(c)
               new == insertSortedEntry(commentsByParent[key], EntryOf(id, c))
    <3>2. key \in Key /\ EntryOf(id, c) \in Entry
      BY <3>1, CreateCommentGuard
    <3>3. commentsByParent[key] \in Seq(Entry)
      BY <3>2 DEF TypeOK
    <3>4. new \in Seq(Entry)
      BY <3>2, <3>3, InsertedEntries
    <3>5. /\ comments' = [comments EXCEPT ![id] = c]
          /\ commentsByParent' = [commentsByParent EXCEPT ![key] = new]
          /\ posts' = posts
      BY <3>1 DEF CreateComment
    <3> HIDE DEF key, new
    <3> QED BY <3>2, <3>4, <3>5 DEF TypeOK
  <2>2. CASE \E id \in CommentIDs, a \in AuthorIDs : DeleteComment(id, a)
    <3>1. PICK id \in CommentIDs, a \in AuthorIDs : DeleteComment(id, a)
      BY <2>2
    <3>2. comments[id] \in Comment
      BY <3>1 DEF TypeOK, DeleteComment, DeleteCommentError
    <3>3. [comments[id] EXCEPT !.deleted = TRUE] \in Comment
      BY <3>2 DEF Comment
    <3>4. comments' = [comments EXCEPT ![id] = [comments[id] EXCEPT !.deleted = TRUE]]
      BY <3>1 DEF DeleteComment
    <3> QED BY <3>1, <3>3, <3>4 DEF TypeOK, DeleteComment
  <2>3. CASE \E id \in PostIDs, p \in Post : CreatePost(id, p)
    BY <2>3 DEF TypeOK, CreatePost
  <2>4. CASE \E id \in PostIDs, a \in AuthorIDs, e \in BOOLEAN : SetCommentsEnabled(id, a, e)
    <3>1. PICK id \in PostIDs, a \in AuthorIDs, e \in BOOLEAN : SetCommentsEnabled(id, a, e)
      BY <2>4
    <3>2. posts[id] \in Post
      BY <3>1 DEF TypeOK, SetCommentsEnabled, PostAccessError
    <3>3. [posts[id] EXCEPT !.commentsEnabled = e] \in Post
      BY <3>2 DEF Post
    <3>4. posts' = [posts EXCEPT ![id] = [posts[id] EXCEPT !.commentsEnabled = e]]
      BY <3>1 DEF SetCommentsEnabled
    <3> QED BY <3>1, <3>3, <3>4 DEF TypeOK, SetCommentsEnabled
  <2>5. CASE \E id \in PostIDs, a \in AuthorIDs : DeletePost(id, a)
    BY <2>5, EmptySeq DEF TypeOK, DeletePost
  <2>6. CASE UNCHANGED storeVars
    BY <2>6 DEF TypeOK, storeVars
  <2> QED BY <2>1, <2>2, <2>3, <2>4, <2>5, <2>6 DEF StoreStep
<1> QED BY <1>1, <1>2

\* The maps and the index of the store hold what their Go types say, in every
\* reachable state.
THEOREM TypeCorrect == Spec => []TypeOK
<1>1. Init => TypeOK
  BY TypeInductive
<1>2. TypeOK /\ [StoreStep]_storeVars => TypeOK'
  BY TypeInductive
<1> QED BY <1>1, <1>2, PTL DEF Spec

(***************************************************************************)
(* The index.                                                              *)
(***************************************************************************)
IndexInv == IndexExact /\ IndexComplete /\ IndexSorted

\* The effect of Create on the slice of one thread.
LEMMA CreateCommentEffect ==
  ASSUME TypeOK, NEW id \in CommentIDs, NEW c \in Comment, CreateComment(id, c),
         NEW key \in Key
  PROVE  LET old == commentsByParent[key]
             pos == FirstNotBefore(old, EntryOf(id, c))
         IN  IF key = makePostParentKey(c)
             THEN /\ pos \in 1..Len(old) + 1
                  /\ Len(commentsByParent'[key]) = Len(old) + 1
                  /\ \A j \in 1..Len(old) + 1 :
                       commentsByParent'[key][j] =
                         IF j < pos THEN old[j]
                         ELSE IF j = pos THEN EntryOf(id, c) ELSE old[j - 1]
             ELSE commentsByParent'[key] = old
<1> DEFINE old == commentsByParent[key]
           entry == EntryOf(id, c)
           ckey == makePostParentKey(c)
           new == insertSortedEntry(old, entry)
<1>1. ckey \in Key /\ entry \in Entry
  BY CreateCommentGuard
<1>2. old \in Seq(Entry)
  BY DEF TypeOK
<1>3. commentsByParent \in [Key -> Seq(Entry)]
  BY DEF TypeOK
<1>4. commentsByParent' =
        [commentsByParent EXCEPT ![ckey] = insertSortedEntry(commentsByParent[ckey], entry)]
  BY DEF CreateComment
<1> HIDE DEF entry, ckey
<1>5. key = ckey => commentsByParent'[key] = new
  BY <1>1, <1>3, <1>4
<1>6. key # ckey => commentsByParent'[key] = old
  BY <1>1, <1>3, <1>4
<1>7. /\ FirstNotBefore(old, entry) \in 1..Len(old) + 1
      /\ Len(new) = Len(old) + 1
      /\ \A j \in 1..Len(old) + 1 :
           new[j] = IF j < FirstNotBefore(old, entry) THEN old[j]
                    ELSE IF j = FirstNotBefore(old, entry) THEN entry ELSE old[j - 1]
  <2> HIDE DEF old
  <2> QED BY <1>1, <1>2, FirstNotBeforeSplits, InsertedEntries
<1> HIDE DEF old, new
<1>8. CASE key = ckey
  BY <1>8, <1>5, <1>7 DEF old, entry, ckey
<1>9. CASE key # ckey
  BY <1>9, <1>6 DEF old, ckey
<1> QED BY <1>8, <1>9

LEMMA CreateCommentKeepsIndex ==
  ASSUME TypeOK, IndexInv, NEW id \in CommentIDs, NEW c \in Comment,
         CreateComment(id, c)
  PROVE  IndexInv'
<1> DEFINE ckey == makePostParentKey(c)
           entry == EntryOf(id, c)
           pos == FirstNotBefore(commentsByParent[ckey], entry)
<1>1. comments[id] = Absent /\ ckey \in Key /\ entry \in Entry
  BY CreateCommentGuard
<1>2. \A d \in CommentIDs : comments'[d] = IF d = id THEN c ELSE comments[d]
  BY DEF CreateComment, TypeOK
<1>3. \A key \in Key : \A i \in 1..Len(commentsByParent[key]) :
        commentsByParent[key][i] \in Entry /\ commentsByParent[key][i].id # id
  <2>1. \A key \in Key : commentsByParent[key] \in Seq(Entry) BY DEF TypeOK
  <2> QED BY <2>1, <1>1 DEF IndexInv, IndexExact
<1>4. /\ Len(commentsByParent[ckey]) \in Nat
      /\ pos \in 1..Len(commentsByParent[ckey]) + 1
      /\ Len(commentsByParent'[ckey]) = Len(commentsByParent[ckey]) + 1
      /\ \A j \in 1..Len(commentsByParent[ckey]) + 1 :
           commentsByParent'[ckey][j] =
             IF j < pos THEN commentsByParent[ckey][j]
             ELSE IF j = pos THEN entry ELSE commentsByParent[ckey][j - 1]
  <2>1. commentsByParent[ckey] \in Seq(Entry) BY <1>1 DEF TypeOK
  <2> QED BY <2>1, <1>1, CreateCommentEffect
<1>5. \A key \in Key \ {ckey} : commentsByParent'[key] = commentsByParent[key]
  BY CreateCommentEffect
<1>6. entry.id = id /\ entry.createdAt = c.createdAt
  BY DEF EntryOf
<1>7. c # Absent
  BY AbsentIsNoValue
<1>8. IndexSorted'
  <2>1. ASSUME NEW key \in Key, key # ckey
        PROVE  \A i, j \in 1..Len(commentsByParent'[key]) :
                 i < j => Precedes(commentsByParent'[key][i], commentsByParent'[key][j])
    BY <1>5, <2>1 DEF IndexInv, IndexSorted
  <2>2. \A i, j \in 1..Len(commentsByParent'[ckey]) :
                 i < j => Precedes(commentsByParent'[ckey][i], commentsByParent'[ckey][j])
    <3>1. commentsByParent[ckey] \in Seq(Entry)
      BY <1>1 DEF TypeOK
    <3>2. \A i, j \in 1..Len(commentsByParent[ckey]) :
            i < j => Precedes(commentsByParent[ckey][i], commentsByParent[ckey][j])
      BY <1>1 DEF IndexInv, IndexSorted
    <3>3. \A i \in 1..Len(commentsByParent[ckey]) : commentsByParent[ckey][i].id # entry.id
      BY <1>1, <1>3, <1>6
    <3>4. commentsByParent'[ckey] = insertSortedEntry(commentsByParent[ckey], entry)
      BY <1>1 DEF CreateComment, TypeOK
    <3> HIDE DEF ckey, entry
    <3> QED BY <1>1, <3>1, <3>2, <3>3, <3>4, InsertionKeepsOrder
  <2> QED BY <2>1, <2>2 DEF IndexSorted
<1>9. ASSUME NEW key \in Key, NEW i \in 1..Len(commentsByParent'[key])
      PROVE  LET e == commentsByParent'[key][i]
             IN  /\ comments'[e.id] # Absent
                 /\ makePostParentKey(comments'[e.id]) = key
                 /\ comments'[e.id].createdAt = e.createdAt
  <2>1. ASSUME NEW k \in 1..Len(commentsByParent[key]),
               commentsByParent'[key][i] = commentsByParent[key][k]
        PROVE  LET e == commentsByParent'[key][i]
               IN  /\ comments'[e.id] # Absent
                   /\ makePostParentKey(comments'[e.id]) = key
                   /\ comments'[e.id].createdAt = e.createdAt
    <3>1. commentsByParent[key][k] \in Entry /\ commentsByParent[key][k].id # id
      BY <1>3
    <3>2. commentsByParent[key][k].id \in CommentIDs
      BY <3>1 DEF Entry
    <3> QED BY <2>1, <3>1, <3>2, <1>2 DEF IndexInv, IndexExact
  <2>2. CASE key # ckey
    BY <2>1, <2>2, <1>5
  <2>3. CASE key = ckey /\ i = pos
    BY <2>3, <1>2, <1>4, <1>6, <1>7
  <2>4. CASE key = ckey /\ i < pos
    <3>1. i \in 1..Len(commentsByParent[key]) BY <2>4, <1>4
    <3> QED BY <2>1, <2>4, <3>1, <1>4
  <2>5. CASE key = ckey /\ pos < i
    <3>1. i - 1 \in 1..Len(commentsByParent[key]) BY <2>5, <1>4
    <3>2. commentsByParent'[key][i] = commentsByParent[key][i - 1] BY <2>5, <1>4
    <3> QED BY <2>1, <3>1, <3>2
  <2>6. key = ckey => i < pos \/ i = pos \/ pos < i
    BY <1>4
  <2> QED BY <2>2, <2>3, <2>4, <2>5, <2>6
<1>10. ASSUME NEW d \in CommentIDs, comments'[d] # Absent
       PROVE  \E i \in 1..Len(commentsByParent'[makePostParentKey(comments'[d])]) :
                commentsByParent'[makePostParentKey(comments'[d])][i].id = d
  <2>1. CASE d = id
    <3>1. comments'[d] = c BY <2>1, <1>2
    <3>2. pos \in 1..Len(commentsByParent'[ckey]) /\ commentsByParent'[ckey][pos].id = id
      BY <1>4, <1>6
    <3> QED BY <2>1, <3>1, <3>2
  <2>2. CASE d # id
    <3> DEFINE key == makePostParentKey(comments[d])
    <3>1. comments'[d] = comments[d] BY <2>2, <1>2
    <3>2. PICK i \in 1..Len(commentsByParent[key]) : commentsByParent[key][i].id = d
      BY <3>1, <1>10 DEF IndexInv, IndexComplete
    <3>3. key \in Key
      BY <3>1, <1>10 DEF TypeOK, makePostParentKey, Comment, Key
    <3> HIDE DEF key
    <3>4. CASE key # ckey
      BY <3>1, <3>2, <3>3, <3>4, <1>5 DEF key
    <3>5. CASE key = ckey /\ i < pos
      <4>1. i \in 1..Len(commentsByParent'[key]) /\ commentsByParent'[key][i].id = d
        BY <3>2, <3>5, <1>4
      <4> QED BY <3>1, <4>1 DEF key
    <3>6. CASE key = ckey /\ ~ (i < pos)
      <4>1. i + 1 \in 1..Len(commentsByParent'[key]) /\ i + 1 \in 1..Len(commentsByParent[key]) + 1
        BY <3>6, <1>4
      <4>2. ~ (i + 1 < pos) /\ i + 1 # pos /\ (i + 1) - 1 = i
        BY <3>6, <1>4
      <4>3. commentsByParent'[key][i + 1].id = d
        BY <3>2, <3>6, <4>1, <4>2, <1>4
      <4> QED BY <3>1, <4>1, <4>3 DEF key
    <3> QED BY <3>4, <3>5, <3>6
  <2> QED BY <2>1, <2>2
<1> QED BY <1>8, <1>9, <1>10 DEF IndexInv, IndexExact, IndexComplete

\* What an index slice holds.
LEMMA EntriesAreTyped ==
  ASSUME TypeOK, NEW key \in Key, NEW i \in 1..Len(commentsByParent[key])
  PROVE  commentsByParent[key][i] \in Entry /\ commentsByParent[key][i].id \in CommentIDs
<1>1. commentsByParent[key] \in Seq(Entry)
  BY DEF TypeOK
<1>2. commentsByParent[key][i] \in Entry
  BY <1>1
<1> QED BY <1>2 DEF Entry

\* A soft delete changes none of the fields the index is made from.
LEMMA DeleteCommentEffect ==
  ASSUME TypeOK, NEW id \in CommentIDs, NEW a \in AuthorIDs, DeleteComment(id, a)
  PROVE  /\ commentsByParent' = commentsByParent
         /\ posts' = posts
         /\ \A c \in CommentIDs :
              /\ comments'[c] = Absent <=> comments[c] = Absent
              /\ c # id => comments'[c] = comments[c]
              /\ comments[c] # Absent =>
                   /\ comments'[c].postID = comments[c].postID
                   /\ comments'[c].parentID = comments[c].parentID
                   /\ comments'[c].authorID = comments[c].authorID
                   /\ comments'[c].createdAt = comments[c].createdAt
         /\ ~ comments[id].deleted
         /\ comments'[id] = [comments[id] EXCEPT !.deleted = TRUE]
<1> DEFINE new == [comments[id] EXCEPT !.deleted = TRUE]
<1>1. comments[id] \in Comment /\ ~ comments[id].deleted
  BY DEF TypeOK, DeleteComment, DeleteCommentError
<1>2. /\ new \in Comment
      /\ new.postID = comments[id].postID
      /\ new.parentID = comments[id].parentID
      /\ new.authorID = comments[id].authorID
      /\ new.createdAt = comments[id].createdAt
  BY <1>1 DEF Comment
<1>3. \A c \in CommentIDs : comments'[c] = IF c = id THEN new ELSE comments[c]
  BY DEF TypeOK, DeleteComment
<1>4. commentsByParent' = commentsByParent /\ posts' = posts
  BY DEF DeleteComment
<1>5. comments[id] # Absent /\ new # Absent
  BY <1>1, <1>2, AbsentIsNoValue
<1>6. comments'[id] = new
  BY <1>3
<1> HIDE DEF new
<1>7. ASSUME NEW c \in CommentIDs
      PROVE  /\ comments'[c] = Absent <=> comments[c] = Absent
             /\ c # id => comments'[c] = comments[c]
             /\ comments[c] # Absent =>
                  /\ comments'[c].postID = comments[c].postID
                  /\ comments'[c].parentID = comments[c].parentID
                  /\ comments'[c].authorID = comments[c].authorID
                  /\ comments'[c].createdAt = comments[c].createdAt
  BY <1>2, <1>3, <1>5
<1> QED BY <1>1, <1>4, <1>6, <1>7 DEF new

LEMMA DeleteCommentKeepsIndex ==
  ASSUME TypeOK, IndexInv, NEW id \in CommentIDs, NEW a \in AuthorIDs,
         DeleteComment(id, a)
  PROVE  IndexInv'
<1>1. \A c \in CommentIDs :
        /\ comments'[c] = Absent <=> comments[c] = Absent
        /\ comments[c] # Absent =>
             /\ makePostParentKey(comments'[c]) = makePostParentKey(comments[c])
             /\ comments'[c].createdAt = comments[c].createdAt
  BY DeleteCommentEffect DEF makePostParentKey
<1>2. commentsByParent' = commentsByParent
  BY DeleteCommentEffect
<1>3. \A key \in Key : \A i \in 1..Len(commentsByParent[key]) :
        commentsByParent[key][i].id \in CommentIDs
  BY EntriesAreTyped
<1>4. IndexExact'
  BY <1>1, <1>2, <1>3 DEF IndexInv, IndexExact
<1>5. IndexComplete'
  BY <1>1, <1>2 DEF IndexInv, IndexComplete
<1>6. IndexSorted'
  BY <1>2 DEF IndexInv, IndexSorted
<1> QED BY <1>4, <1>5, <1>6 DEF IndexInv

\* The ids the cascade finds in the index are those of the comments that
\* carry the id of the post: this is where the cascade needs the index to be
\* exact and complete.
LEMMA IndexedUnderIsExact ==
  ASSUME TypeOK, IndexExact, IndexComplete, NEW p \in PostIDs, NEW c \in CommentIDs
  PROVE  c \in IndexedUnder(p) <=> comments[c] # Absent /\ comments[c].postID = p
<1>1. ASSUME c \in IndexedUnder(p)
      PROVE  comments[c] # Absent /\ comments[c].postID = p
  <2>1. PICK key \in Key : /\ key.postID = p
                           /\ \E i \in 1..Len(commentsByParent[key]) :
                                commentsByParent[key][i].id = c
    BY <1>1 DEF IndexedUnder
  <2>2. PICK i \in 1..Len(commentsByParent[key]) : commentsByParent[key][i].id = c
    BY <2>1
  <2>3. comments[c] # Absent /\ makePostParentKey(comments[c]) = key
    BY <2>2 DEF IndexExact
  <2> QED BY <2>1, <2>3 DEF makePostParentKey
<1>2. ASSUME comments[c] # Absent, comments[c].postID = p
      PROVE  c \in IndexedUnder(p)
  <2> DEFINE key == makePostParentKey(comments[c])
  <2>1. key \in Key /\ key.postID = p
    BY <1>2 DEF TypeOK, makePostParentKey, Comment, Key
  <2>2. \E i \in 1..Len(commentsByParent[key]) : commentsByParent[key][i].id = c
    BY <1>2 DEF IndexComplete
  <2> HIDE DEF key
  <2> QED BY <2>1, <2>2 DEF IndexedUnder
<1> QED BY <1>1, <1>2

\* What DeletePost leaves behind.
LEMMA DeletePostEffect ==
  ASSUME TypeOK, IndexExact, IndexComplete, NEW p \in PostIDs, NEW a \in AuthorIDs,
         DeletePost(p, a)
  PROVE  /\ \A c \in CommentIDs :
              comments'[c] = IF comments[c] # Absent /\ comments[c].postID = p
                             THEN Absent ELSE comments[c]
         /\ \A key \in Key :
              commentsByParent'[key] = IF key.postID = p THEN <<>> ELSE commentsByParent[key]
         /\ posts[p] # Absent
         /\ \A q \in PostIDs : posts'[q] = IF q = p THEN Absent ELSE posts[q]
<1>1. \A c \in CommentIDs :
        comments'[c] = IF c \in IndexedUnder(p) THEN Absent ELSE comments[c]
  BY DEF DeletePost
<1>2. \A c \in CommentIDs :
        comments'[c] = IF comments[c] # Absent /\ comments[c].postID = p
                       THEN Absent ELSE comments[c]
  BY <1>1, IndexedUnderIsExact
<1> QED BY <1>2 DEF DeletePost, PostAccessError, TypeOK

LEMMA DeletePostKeepsIndex ==
  ASSUME TypeOK, IndexInv, NEW p \in PostIDs, NEW a \in AuthorIDs, DeletePost(p, a)
  PROVE  IndexInv'
<1>1. /\ \A c \in CommentIDs :
           comments'[c] = IF comments[c] # Absent /\ comments[c].postID = p
                          THEN Absent ELSE comments[c]
      /\ \A key \in Key :
           commentsByParent'[key] = IF key.postID = p THEN <<>> ELSE commentsByParent[key]
  BY DeletePostEffect DEF IndexInv
<1>2. \A key \in Key : key.postID = p => Len(commentsByParent'[key]) = 0
  BY <1>1, EmptySeq
<1>3. \A key \in Key : key.postID # p => commentsByParent'[key] = commentsByParent[key]
  BY <1>1
<1>4. ASSUME NEW key \in Key, NEW i \in 1..Len(commentsByParent'[key])
      PROVE  LET e == commentsByParent'[key][i]
             IN  /\ comments'[e.id] # Absent
                 /\ makePostParentKey(comments'[e.id]) = key
                 /\ comments'[e.id].createdAt = e.createdAt
  <2>1. key.postID # p
    BY <1>2
  <2>2. i \in 1..Len(commentsByParent[key]) /\ commentsByParent'[key] = commentsByParent[key]
    BY <2>1, <1>3
  <2> DEFINE e == commentsByParent[key][i]
  <2>3. e.id \in CommentIDs
    BY <2>2, EntriesAreTyped
  <2>4. /\ comments[e.id] # Absent
        /\ makePostParentKey(comments[e.id]) = key
        /\ comments[e.id].createdAt = e.createdAt
    BY <2>2 DEF IndexInv, IndexExact
  <2>5. comments[e.id].postID # p
    BY <2>1, <2>4 DEF makePostParentKey
  <2> QED BY <2>2, <2>3, <2>4, <2>5, <1>1
<1>5. IndexComplete'
  <2>1. ASSUME NEW c \in CommentIDs, comments'[c] # Absent
        PROVE  /\ comments'[c] = comments[c]
               /\ makePostParentKey(comments[c]) \in Key
               /\ makePostParentKey(comments[c]).postID # p
    <3>1. comments'[c] = comments[c] /\ comments[c] # Absent /\ comments[c].postID # p
      BY <1>1, <2>1
    <3> QED BY <3>1 DEF TypeOK, Comment, Key, makePostParentKey
  <2> QED BY <2>1, <1>3 DEF IndexInv, IndexComplete
<1>6. IndexSorted'
  BY <1>2, <1>3 DEF IndexInv, IndexSorted
<1> QED BY <1>4, <1>5, <1>6 DEF IndexInv, IndexExact

LEMMA IndexInductive ==
  /\ Init => IndexInv
  /\ TypeOK /\ IndexInv /\ [StoreStep]_storeVars => IndexInv'
<1>1. ASSUME Init PROVE IndexInv
  <2>1. \A key \in Key : Len(commentsByParent[key]) = 0
    BY <1>1, EmptySeq DEF Init
  <2> QED BY <1>1, <2>1 DEF Init, IndexInv, IndexExact, IndexComplete, IndexSorted
<1>2. ASSUME TypeOK, IndexInv, [StoreStep]_storeVars PROVE IndexInv'
  <2>1. CASE \E id \in CommentIDs, c \in Comment : ~ c.deleted /\ CreateComment(id, c)
    BY <1>2, <2>1, CreateCommentKeepsIndex
  <2>2. CASE \E id \in CommentIDs, a \in AuthorIDs : DeleteComment(id, a)
    BY <1>2, <2>2, DeleteCommentKeepsIndex
  <2>3. CASE \E id \in PostIDs, a \in AuthorIDs : DeletePost(id, a)
    BY <1>2, <2>3, DeletePostKeepsIndex
  <2>4. CASE UNCHANGED <<comments, commentsByParent>>
    BY <1>2, <2>4 DEF IndexInv, IndexExact, IndexComplete, IndexSorted
  <2>5. CASE \E id \in PostIDs, p \in Post : CreatePost(id, p)
    BY <2>4, <2>5 DEF CreatePost
  <2>6. CASE \E id \in PostIDs, a \in AuthorIDs, e \in BOOLEAN : SetCommentsEnabled(id, a, e)
    BY <2>4, <2>6 DEF SetCommentsEnabled
  <2>7. CASE UNCHANGED storeVars
    BY <2>4, <2>7 DEF storeVars
  <2> QED BY <1>2, <2>1, <2>2, <2>3, <2>5, <2>6, <2>7 DEF StoreStep
<1> QED BY <1>1, <1>2

\* The index of the memory store lists every stored comment exactly where it
\* belongs, nothing else, and in order: whatever the sequence of calls, both
\* binary searches find a sorted slice and the cascade finds every comment.
THEOREM IndexCorrect == Spec => []IndexIsFaithful
<1>1. Init => TypeOK /\ IndexInv
  BY TypeInductive, IndexInductive
<1>2. TypeOK /\ IndexInv /\ [StoreStep]_storeVars => TypeOK' /\ IndexInv'
  BY TypeInductive, IndexInductive
<1>3. IndexInv => IndexIsFaithful
  BY DEF IndexInv, IndexIsFaithful
<1> QED BY <1>1, <1>2, <1>3, PTL DEF Spec

(***************************************************************************)
(* Threads.                                                                *)
(***************************************************************************)
ThreadInv == ThreadIntegrity /\ NoReplyCycle

\* A new reply hangs under a comment stored before it, and no stored comment
\* can be hanging under the id it is given: threads stay whole and acyclic.
LEMMA CreateCommentKeepsThreads ==
  ASSUME TypeOK, ThreadInv, NEW id \in CommentIDs, NEW c \in Comment,
         CreateComment(id, c)
  PROVE  ThreadInv'
<1>1. comments[id] = Absent
  BY CreateCommentGuard
<1>2. c.parentID # NoParent => /\ c.parentID \in CommentIDs
                               /\ comments[c.parentID] # Absent
                               /\ comments[c.parentID].postID = c.postID
  BY CreateCommentGuard
<1>3. \A d \in CommentIDs : comments'[d] = IF d = id THEN c ELSE comments[d]
  BY DEF CreateComment, TypeOK
<1>4. \A d \in CommentIDs : comments[d] # Absent => comments[d].parentID \in CommentIDs \cup {NoParent}
  BY DEF TypeOK, Comment
<1>5. ThreadIntegrity'
  BY <1>1, <1>2, <1>3, <1>4 DEF ThreadInv, ThreadIntegrity
<1>6. \A d \in CommentIDs : comments[d] # Absent => comments[d].parentID # id
  BY <1>1, NoParentIsNoComment DEF ThreadInv, ThreadIntegrity
<1>7. ASSUME NEW S \in SUBSET {d \in CommentIDs : comments'[d] # Absent}, S # {}
      PROVE  \E d \in S : comments'[d].parentID \notin S
  <2> DEFINE Old == S \ {id}
  <2>1. Old \in SUBSET {d \in CommentIDs : comments[d] # Absent}
    BY <1>3
  <2>2. CASE Old = {}
    <3>1. S = {id} BY <1>7, <2>2
    <3>2. comments'[id] = c /\ c.parentID # id BY <1>1, <1>2, <1>3, NoParentIsNoComment
    <3> QED BY <3>1, <3>2
  <2>3. CASE Old # {}
    <3>1. PICK d \in Old : comments[d].parentID \notin Old
      BY <2>1, <2>3 DEF ThreadInv, NoReplyCycle
    <3>2. d \in CommentIDs /\ comments[d] # Absent /\ comments'[d] = comments[d]
      BY <2>1, <3>1, <1>3
    <3>3. comments[d].parentID # id
      BY <3>2, <1>6
    <3> QED BY <3>1, <3>2, <3>3
  <2> QED BY <2>2, <2>3
<1> QED BY <1>5, <1>7 DEF ThreadInv, NoReplyCycle

\* A step that changes comments only outside their post and parent fields, or
\* removes all the comments of one post, keeps threads whole and acyclic.
LEMMA DeleteCommentKeepsThreads ==
  ASSUME TypeOK, ThreadInv, NEW id \in CommentIDs, NEW a \in AuthorIDs,
         DeleteComment(id, a)
  PROVE  ThreadInv'
<1>1. \A c \in CommentIDs :
        /\ comments'[c] = Absent <=> comments[c] = Absent
        /\ comments[c] # Absent => /\ comments'[c].postID = comments[c].postID
                                   /\ comments'[c].parentID = comments[c].parentID
  BY DeleteCommentEffect
<1>2. \A c \in CommentIDs :
        comments[c] # Absent /\ comments[c].parentID # NoParent => comments[c].parentID \in CommentIDs
  BY DEF TypeOK, Comment
<1>3. ThreadIntegrity'
  BY <1>1, <1>2 DEF ThreadInv, ThreadIntegrity
<1>4. NoReplyCycle'
  <2>1. SUFFICES ASSUME NEW S \in SUBSET {c \in CommentIDs : comments'[c] # Absent}, S # {}
                 PROVE  \E c \in S : comments'[c].parentID \notin S
    BY DEF NoReplyCycle
  <2>2. S \in SUBSET {c \in CommentIDs : comments[c] # Absent}
    BY <1>1
  <2>3. PICK c \in S : comments[c].parentID \notin S
    BY <2>1, <2>2 DEF ThreadInv, NoReplyCycle
  <2> QED BY <2>2, <2>3, <1>1
<1> QED BY <1>3, <1>4 DEF ThreadInv

LEMMA DeletePostKeepsThreads ==
  ASSUME TypeOK, IndexInv, ThreadInv, NEW p \in PostIDs, NEW a \in AuthorIDs,
         DeletePost(p, a)
  PROVE  ThreadInv'
<1>1. \A c \in CommentIDs :
        comments'[c] = IF comments[c] # Absent /\ comments[c].postID = p
                       THEN Absent ELSE comments[c]
  BY DeletePostEffect DEF IndexInv
<1>2. \A c \in CommentIDs :
        comments[c] # Absent /\ comments[c].parentID # NoParent => comments[c].parentID \in CommentIDs
  BY DEF TypeOK, Comment
<1>3. ThreadIntegrity'
  BY <1>1, <1>2 DEF ThreadInv, ThreadIntegrity
<1>4. NoReplyCycle'
  <2>1. SUFFICES ASSUME NEW S \in SUBSET {c \in CommentIDs : comments'[c] # Absent}, S # {}
                 PROVE  \E c \in S : comments'[c].parentID \notin S
    BY DEF NoReplyCycle
  <2>2. /\ S \in SUBSET {c \in CommentIDs : comments[c] # Absent}
        /\ \A c \in S : comments'[c] = comments[c]
    BY <1>1
  <2>3. PICK c \in S : comments[c].parentID \notin S
    BY <2>1, <2>2 DEF ThreadInv, NoReplyCycle
  <2> QED BY <2>2, <2>3
<1> QED BY <1>3, <1>4 DEF ThreadInv

LEMMA ThreadInductive ==
  /\ Init => ThreadInv
  /\ TypeOK /\ IndexInv /\ ThreadInv /\ [StoreStep]_storeVars => ThreadInv'
<1>1. ASSUME Init PROVE ThreadInv
  BY <1>1 DEF Init, ThreadInv, ThreadIntegrity, NoReplyCycle
<1>2. ASSUME TypeOK, IndexInv, ThreadInv, [StoreStep]_storeVars PROVE ThreadInv'
  <2>1. CASE \E id \in CommentIDs, c \in Comment : ~ c.deleted /\ CreateComment(id, c)
    BY <1>2, <2>1, CreateCommentKeepsThreads
  <2>2. CASE \E id \in CommentIDs, a \in AuthorIDs : DeleteComment(id, a)
    BY <1>2, <2>2, DeleteCommentKeepsThreads
  <2>3. CASE \E id \in PostIDs, a \in AuthorIDs : DeletePost(id, a)
    BY <1>2, <2>3, DeletePostKeepsThreads
  <2>4. CASE UNCHANGED comments
    BY <1>2, <2>4 DEF ThreadInv, ThreadIntegrity, NoReplyCycle
  <2>5. CASE \E id \in PostIDs, p \in Post : CreatePost(id, p)
    BY <2>4, <2>5 DEF CreatePost
  <2>6. CASE \E id \in PostIDs, a \in AuthorIDs, e \in BOOLEAN : SetCommentsEnabled(id, a, e)
    BY <2>4, <2>6 DEF SetCommentsEnabled
  <2>7. CASE UNCHANGED storeVars
    BY <2>4, <2>7 DEF storeVars
  <2> QED BY <1>2, <2>1, <2>2, <2>3, <2>5, <2>6, <2>7 DEF StoreStep
<1> QED BY <1>1, <1>2

\* Whatever the sequence of calls, every stored reply has its parent, under the
\* same post, and no thread is cyclic.
THEOREM ThreadsCorrect == Spec => []ThreadsAreTrees
<1>1. Init => TypeOK /\ IndexInv /\ ThreadInv
  BY TypeInductive, IndexInductive, ThreadInductive
<1>2. TypeOK /\ IndexInv /\ ThreadInv /\ [StoreStep]_storeVars
        => TypeOK' /\ IndexInv' /\ ThreadInv'
  BY TypeInductive, IndexInductive, ThreadInductive
<1>3. ThreadInv => ThreadsAreTrees
  BY DEF ThreadInv, ThreadsAreTrees
<1> QED BY <1>1, <1>2, <1>3, PTL DEF Spec

(***************************************************************************)
(* What a step may do.                                                     *)
(***************************************************************************)

\* Removing a post removes exactly its comments, in any number and any shape
\* of thread.
THEOREM CascadeCorrect == Spec => CascadeIsExact
<1> DEFINE Exact == \A p \in PostIDs :
                      posts[p] # Absent /\ posts'[p] = Absent =>
                        \A c \in CommentIDs :
                          comments'[c] = IF comments[c] # Absent /\ comments[c].postID = p
                                         THEN Absent ELSE comments[c]
<1>1. ASSUME TypeOK, IndexInv, [StoreStep]_storeVars PROVE [Exact]_storeVars
  <2>1. SUFFICES ASSUME NEW p \in PostIDs, posts[p] # Absent, posts'[p] = Absent
                 PROVE  \A c \in CommentIDs :
                          comments'[c] = IF comments[c] # Absent /\ comments[c].postID = p
                                         THEN Absent ELSE comments[c]
    OBVIOUS
  <2>2. CASE \E id \in PostIDs, a \in AuthorIDs : DeletePost(id, a)
    <3>1. PICK id \in PostIDs, a \in AuthorIDs : DeletePost(id, a) BY <2>2
    <3>2. \A q \in PostIDs : posts'[q] = IF q = id THEN Absent ELSE posts[q]
      BY <1>1, <3>1, DeletePostEffect DEF IndexInv
    <3>3. id = p BY <2>1, <3>2
    <3> QED BY <1>1, <3>1, <3>3, DeletePostEffect DEF IndexInv
  <2>3. CASE \E id \in PostIDs, q \in Post : CreatePost(id, q)
    BY <1>1, <2>1, <2>3, AbsentIsNoValue DEF CreatePost, TypeOK
  <2>4. CASE \E id \in PostIDs, a \in AuthorIDs, e \in BOOLEAN : SetCommentsEnabled(id, a, e)
    <3>1. PICK id \in PostIDs, a \in AuthorIDs, e \in BOOLEAN : SetCommentsEnabled(id, a, e)
      BY <2>4
    <3>2. posts[id] \in Post
      BY <1>1, <3>1 DEF SetCommentsEnabled, PostAccessError, TypeOK
    <3>3. [posts[id] EXCEPT !.commentsEnabled = e] \in Post
      BY <3>2 DEF Post
    <3>4. posts' = [posts EXCEPT ![id] = [posts[id] EXCEPT !.commentsEnabled = e]]
      BY <3>1 DEF SetCommentsEnabled
    <3> QED BY <1>1, <2>1, <3>3, <3>4, AbsentIsNoValue DEF TypeOK
  <2>5. CASE UNCHANGED posts
    BY <2>1, <2>5
  <2> QED BY <1>1, <2>2, <2>3, <2>4, <2>5
       DEF StoreStep, CreateComment, DeleteComment, storeVars
<1>2. Init => TypeOK /\ IndexInv
  BY TypeInductive, IndexInductive
<1>3. TypeOK /\ IndexInv /\ [StoreStep]_storeVars => TypeOK' /\ IndexInv'
  BY TypeInductive, IndexInductive
<1> QED BY <1>1, <1>2, <1>3, PTL DEF Spec, CascadeIsExact

\* A stored comment keeps its post, parent, author and creation time, its
\* deletion is final, and only the removal of its post removes it.
THEOREM CommentsKeepTheirHistory == Spec => CommentHistory
<1> DEFINE Kept(c) == IF comments'[c] # Absent
                      THEN /\ [comments[c] EXCEPT !.deleted = TRUE]
                                = [comments'[c] EXCEPT !.deleted = TRUE]
                           /\ comments[c].deleted => comments'[c].deleted
                      ELSE posts[comments[c].postID] # posts'[comments[c].postID]
           Step == \A c \in CommentIDs : comments[c] # Absent => Kept(c)
<1>1. ASSUME TypeOK, IndexInv, [StoreStep]_storeVars PROVE [Step]_storeVars
  <2>1. SUFFICES ASSUME NEW c \in CommentIDs, comments[c] # Absent PROVE Kept(c)
    OBVIOUS
  <2>2. CASE \E id \in CommentIDs, d \in Comment : ~ d.deleted /\ CreateComment(id, d)
    <3>1. PICK id \in CommentIDs, d \in Comment : CreateComment(id, d) BY <2>2
    <3>2. c # id BY <1>1, <2>1, <3>1, CreateCommentGuard
    <3>3. comments'[c] = comments[c] BY <1>1, <3>1, <3>2 DEF CreateComment, TypeOK
    <3> QED BY <2>1, <3>3
  <2>3. CASE \E id \in CommentIDs, a \in AuthorIDs : DeleteComment(id, a)
    <3>1. PICK id \in CommentIDs, a \in AuthorIDs : DeleteComment(id, a) BY <2>3
    <3>2. CASE c # id
      <4>1. comments'[c] = comments[c] BY <1>1, <3>1, <3>2, DeleteCommentEffect
      <4> QED BY <2>1, <4>1
    <3>3. CASE c = id
      <4>1. /\ comments'[c] = [comments[c] EXCEPT !.deleted = TRUE]
            /\ comments'[c] # Absent
            /\ ~ comments[c].deleted
        BY <1>1, <2>1, <3>1, <3>3, DeleteCommentEffect
      <4>2. comments[c] \in Comment BY <1>1, <2>1 DEF TypeOK
      <4>3. [comments'[c] EXCEPT !.deleted = TRUE] = comments'[c]
        BY <4>1, <4>2 DEF Comment
      <4> QED BY <4>1, <4>3
    <3> QED BY <3>2, <3>3
  <2>4. CASE \E id \in PostIDs, a \in AuthorIDs : DeletePost(id, a)
    <3>1. PICK id \in PostIDs, a \in AuthorIDs : DeletePost(id, a) BY <2>4
    <3>2. CASE comments[c].postID = id
      <4>1. comments'[c] = Absent /\ posts[id] # Absent /\ posts'[id] = Absent
        BY <1>1, <2>1, <3>1, <3>2, DeletePostEffect DEF IndexInv
      <4> QED BY <3>2, <4>1
    <3>3. CASE comments[c].postID # id
      <4>1. comments'[c] = comments[c]
        BY <1>1, <2>1, <3>1, <3>3, DeletePostEffect DEF IndexInv
      <4> QED BY <2>1, <4>1
    <3> QED BY <3>2, <3>3
  <2>5. CASE UNCHANGED comments
    BY <2>1, <2>5
  <2> QED BY <1>1, <2>2, <2>3, <2>4, <2>5
       DEF StoreStep, CreatePost, SetCommentsEnabled, storeVars
<1>2. Init => TypeOK /\ IndexInv
  BY TypeInductive, IndexInductive
<1>3. TypeOK /\ IndexInv /\ [StoreStep]_storeVars => TypeOK' /\ IndexInv'
  BY TypeInductive, IndexInductive
<1> QED BY <1>1, <1>2, <1>3, PTL DEF Spec, CommentHistory

(***************************************************************************)
(* The contract.                                                           *)
(***************************************************************************)
LEMMA MappedComment ==
  ASSUME TypeOK, NEW c \in CommentIDs
  PROVE  /\ ContractComments[c] = Absent <=> comments[c] = Absent
         /\ comments[c] # Absent => ContractComments[c] = CommentRow(comments[c])
<1>1. comments[c] # Absent => CommentRow(comments[c]) \in Contract!StoredComment
  BY DEF TypeOK, Comment, CommentRow, Contract!StoredComment
<1>2. ContractComments[c] = IF comments[c] = Absent THEN Absent ELSE CommentRow(comments[c])
  BY DEF ContractComments
<1> QED BY <1>1, <1>2, AbsentIsNoRow

LEMMA MappedPost ==
  ASSUME TypeOK, NEW p \in PostIDs
  PROVE  /\ ContractPosts[p] = Absent <=> posts[p] = Absent
         /\ posts[p] # Absent => ContractPosts[p] = PostRow(posts[p])
<1>1. posts[p] # Absent => PostRow(posts[p]) \in Contract!StoredPost
  BY DEF TypeOK, Post, PostRow, Contract!StoredPost
<1>2. ContractPosts[p] = IF posts[p] = Absent THEN Absent ELSE PostRow(posts[p])
  BY DEF ContractPosts
<1> QED BY <1>1, <1>2, AbsentIsNoRow

LEMMA CreateCommentImplements ==
  ASSUME TypeOK, NEW id \in CommentIDs, NEW c \in Comment, ~ c.deleted, CreateComment(id, c)
  PROVE  Contract!Next
<1>1. CreateCommentError(id, c) = "nil"
  BY DEF CreateComment
<1>2. comments[id] = Absent
  BY <1>1 DEF CreateCommentError
<1>3. ASSUME c.parentID # NoParent
      PROVE  /\ c.parentID \in CommentIDs /\ comments[c.parentID] # Absent
             /\ comments[c.parentID].postID = c.postID /\ ~ comments[c.parentID].deleted
  BY <1>1, <1>3 DEF CreateCommentError, Comment
<1>4. CommentRow(c) \in Contract!StoredComment /\ CommentRow(c) # Absent
  BY AbsentIsNoRow DEF CommentRow, Comment, Contract!StoredComment
<1>5. Contract!ParentFits(CommentRow(c))
  <2>1. CommentRow(c).parentID = c.parentID /\ CommentRow(c).postID = c.postID
    BY DEF CommentRow
  <2>2. ASSUME c.parentID # NoParent
        PROVE  /\ ContractComments[c.parentID] # Absent
               /\ ContractComments[c.parentID].postID = c.postID
               /\ ~ ContractComments[c.parentID].deleted
    <3>1. ContractComments[c.parentID] = CommentRow(comments[c.parentID])
      BY <1>3, <2>2, MappedComment
    <3> QED BY <3>1, <1>3, <2>2, MappedComment DEF CommentRow
  <2> QED BY <2>1, <2>2 DEF Contract!ParentFits
<1>6. ContractComments' = [ContractComments EXCEPT ![id] = CommentRow(c)]
  <2>1. \A d \in CommentIDs : comments'[d] = IF d = id THEN c ELSE comments[d]
    BY DEF CreateComment, TypeOK
  <2>2. c # Absent
    BY AbsentIsNoValue
  <2> QED BY <2>1, <2>2 DEF ContractComments
<1>7. ContractPosts' = ContractPosts
  BY DEF CreateComment, ContractPosts
<1>8. ContractComments[id] = Absent /\ ~ CommentRow(c).deleted
  BY <1>2, MappedComment DEF CommentRow
<1> QED BY <1>4, <1>5, <1>6, <1>7, <1>8 DEF Contract!Next, Contract!CreateComment

LEMMA RowOfDeleted ==
  ASSUME NEW comment \in Comment, NEW flag \in BOOLEAN
  PROVE  CommentRow([comment EXCEPT !.deleted = flag]) = [CommentRow(comment) EXCEPT !.deleted = flag]
BY DEF CommentRow, Comment

LEMMA DeleteCommentImplements ==
  ASSUME TypeOK, NEW id \in CommentIDs, NEW a \in AuthorIDs, DeleteComment(id, a)
  PROVE  Contract!Next
<1>1. comments[id] # Absent /\ comments[id] \in Comment
  BY DEF DeleteComment, DeleteCommentError, TypeOK
<1> DEFINE kept == [comments[id] EXCEPT !.deleted = TRUE]
<1>2. kept \in Comment /\ kept # Absent
  BY <1>1, AbsentIsNoValue DEF Comment
<1>3. CommentRow(kept) = [CommentRow(comments[id]) EXCEPT !.deleted = TRUE]
  BY <1>1, RowOfDeleted
<1>4. \A d \in CommentIDs : comments'[d] = IF d = id THEN kept ELSE comments[d]
  BY DEF DeleteComment, TypeOK
<1>5. ContractComments[id] = CommentRow(comments[id]) /\ ContractComments[id] # Absent
  BY <1>1, MappedComment
<1> HIDE DEF kept
<1>6. ContractComments' = [ContractComments EXCEPT ![id] = CommentRow(kept)]
  BY <1>2, <1>4 DEF ContractComments
<1>7. ContractComments' = [ContractComments EXCEPT ![id].deleted = TRUE]
  BY <1>3, <1>5, <1>6
<1>8. ContractPosts' = ContractPosts
  BY DEF DeleteComment, ContractPosts
<1> QED BY <1>5, <1>7, <1>8 DEF Contract!Next, Contract!DeleteComment

LEMMA PostStepsImplement ==
  ASSUME TypeOK, IndexInv, NEW p \in PostIDs,
         \/ \E post \in Post : CreatePost(p, post)
         \/ \E a \in AuthorIDs, e \in BOOLEAN : SetCommentsEnabled(p, a, e)
         \/ \E a \in AuthorIDs : DeletePost(p, a)
  PROVE  Contract!Next
<1>1. ASSUME NEW post \in Post, CreatePost(p, post) PROVE Contract!Next
  <2>1. PostRow(post) \in Contract!StoredPost /\ post # Absent
    BY AbsentIsNoValue DEF PostRow, Post, Contract!StoredPost
  <2>2. \A q \in PostIDs : posts'[q] = IF q = p THEN post ELSE posts[q]
    BY <1>1 DEF CreatePost, TypeOK
  <2>3. ContractPosts' = [ContractPosts EXCEPT ![p] = PostRow(post)]
    BY <2>1, <2>2 DEF ContractPosts
  <2>4. ContractPosts[p] = Absent /\ ContractComments' = ContractComments
    BY <1>1, MappedPost DEF CreatePost, ContractComments
  <2> QED BY <2>1, <2>3, <2>4 DEF Contract!Next, Contract!CreatePost
<1>2. ASSUME NEW a \in AuthorIDs, NEW e \in BOOLEAN, SetCommentsEnabled(p, a, e)
      PROVE  Contract!Next
  <2> DEFINE set == [posts[p] EXCEPT !.commentsEnabled = e]
  <2>1. posts[p] # Absent /\ posts[p] \in Post
    BY <1>2 DEF SetCommentsEnabled, PostAccessError, TypeOK
  <2>2. set \in Post /\ set # Absent
    BY <2>1, AbsentIsNoValue DEF Post
  <2>3. PostRow(set) = [PostRow(posts[p]) EXCEPT !.commentsEnabled = e]
    BY <2>1 DEF PostRow, Post
  <2>4. \A q \in PostIDs : posts'[q] = IF q = p THEN set ELSE posts[q]
    BY <1>2 DEF SetCommentsEnabled, TypeOK
  <2>5. ContractPosts[p] = PostRow(posts[p]) /\ ContractPosts[p] # Absent
    BY <2>1, MappedPost
  <2> HIDE DEF set
  <2>6. ContractPosts' = [ContractPosts EXCEPT ![p] = PostRow(set)]
    BY <2>2, <2>4 DEF ContractPosts
  <2>7. ContractPosts' = [ContractPosts EXCEPT ![p].commentsEnabled = e]
    BY <2>3, <2>5, <2>6
  <2>8. ContractComments' = ContractComments
    BY <1>2 DEF SetCommentsEnabled, ContractComments
  <2> QED BY <2>5, <2>7, <2>8 DEF Contract!Next, Contract!SetCommentsEnabled
<1>3. ASSUME NEW a \in AuthorIDs, DeletePost(p, a) PROVE Contract!Next
  <2>1. /\ \A c \in CommentIDs :
              comments'[c] = IF comments[c] # Absent /\ comments[c].postID = p
                             THEN Absent ELSE comments[c]
        /\ posts[p] # Absent
        /\ \A q \in PostIDs : posts'[q] = IF q = p THEN Absent ELSE posts[q]
    BY <1>3, DeletePostEffect DEF IndexInv
  <2>2. ContractPosts' = [ContractPosts EXCEPT ![p] = Absent]
    BY <2>1 DEF ContractPosts
  <2>3. \A c \in CommentIDs :
          (ContractComments[c] # Absent /\ ContractComments[c].postID = p)
            <=> (comments[c] # Absent /\ comments[c].postID = p)
    <3> TAKE c \in CommentIDs
    <3>1. CommentRow(comments[c]).postID = comments[c].postID
      BY DEF CommentRow
    <3> QED BY <3>1, MappedComment
  <2>4. ContractComments' = [c \in CommentIDs |->
                               IF ContractComments[c] # Absent /\ ContractComments[c].postID = p
                               THEN Absent ELSE ContractComments[c]]
    BY <2>1, <2>3 DEF ContractComments
  <2>5. ContractPosts[p] # Absent
    BY <2>1, MappedPost
  <2> QED BY <2>2, <2>4, <2>5 DEF Contract!Next, Contract!DeletePost
<1> QED BY <1>1, <1>2, <1>3

\* The in-memory back end implements its contract, for any ids, authors and times:
\* the cascade of Delete, which goes by the index alone, removes what the contract
\* says.
THEOREM MemoryImplementsContract == Spec => ImplementsContract
<1>1. Init => Contract!Init
  BY DEF Init, Contract!Init, ContractPosts, ContractComments
<1>2. ASSUME TypeOK, IndexInv, [StoreStep]_storeVars
      PROVE  [Contract!Next]_(Contract!contractVars)
  <2>1. CASE UNCHANGED storeVars
    BY <2>1 DEF storeVars, Contract!contractVars, ContractPosts, ContractComments
  <2>2. CASE StoreStep
    BY <1>2, <2>2, CreateCommentImplements, DeleteCommentImplements, PostStepsImplement
       DEF StoreStep
  <2> QED BY <1>2, <2>1, <2>2
<1>3. Init => TypeOK /\ IndexInv
  BY TypeInductive, IndexInductive
<1>4. TypeOK /\ IndexInv /\ [StoreStep]_storeVars => TypeOK' /\ IndexInv'
  BY TypeInductive, IndexInductive
<1> QED BY <1>1, <1>2, <1>3, <1>4, PTL DEF Spec, ImplementsContract, Contract!Spec

(***************************************************************************)
(* Pages.                                                                  *)
(***************************************************************************)

\* Min of two numbers.
LEMMA MinOfTwo ==
  ASSUME NEW a \in Nat, NEW b \in Nat
  PROVE  Min({a, b}) = IF a <= b THEN a ELSE b
<1>1. {a, b} \in SUBSET Nat /\ {a, b} # {}
  OBVIOUS
<1>2. Min({a, b}) \in {a, b} /\ \A n \in {a, b} : Min({a, b}) <= n
  BY <1>1, MinOfNats
<1> QED BY <1>2

\* sort.Search as ListByPostAndParent uses it: in a sorted slice the entries
\* from the position it returns on are those after the cursor.
LEMMA FirstAfterSplits ==
  ASSUME NEW s \in Seq(Entry), NEW cursor \in Entry,
         \A i, j \in 1..Len(s) : i < j => Precedes(s[i], s[j])
  PROVE  /\ FirstAfter(s, cursor) \in 1..Len(s) + 1
         /\ \A j \in 1..Len(s) : FirstAfter(s, cursor) <= j <=> Precedes(cursor, s[j])
<1> DEFINE T == {i \in 1..Len(s) : Precedes(cursor, s[i])} \cup {Len(s) + 1}
<1>1. Len(s) \in Nat /\ \A i \in 1..Len(s) : s[i] \in Entry
  OBVIOUS
<1>2. T \in SUBSET Nat /\ T # {}
  BY <1>1
<1>3. Min(T) \in T /\ \A n \in T : Min(T) <= n
  <2> HIDE DEF T
  <2> QED BY <1>2, MinOfNats
<1>4. FirstAfter(s, cursor) = Min(T)
  BY DEF FirstAfter
<1>5. Min(T) \in 1..Len(s) + 1
  BY <1>1, <1>3
<1>6. ASSUME NEW j \in 1..Len(s), Precedes(cursor, s[j]) PROVE Min(T) <= j
  BY <1>3, <1>6
<1>7. ASSUME NEW j \in 1..Len(s), Min(T) <= j PROVE Precedes(cursor, s[j])
  <2>1. Min(T) \in 1..Len(s) /\ Precedes(cursor, s[Min(T)])
    BY <1>1, <1>3, <1>5, <1>7
  <2> HIDE DEF T
  <2>2. CASE Min(T) = j
    BY <2>1, <2>2
  <2>3. CASE Min(T) < j
    <3>1. Precedes(s[Min(T)], s[j]) BY <2>1, <2>3
    <3> QED BY <1>1, <2>1, <3>1, PrecedesIsAnOrder
  <2> QED BY <1>5, <1>7, <2>2, <2>3
<1> QED BY <1>4, <1>5, <1>6, <1>7

\* The loop over entries that all have their comment finds all of them.
LEMMA FoundAll ==
  ASSUME NEW s \in Seq(Entry), \A i \in 1..Len(s) : comments[s[i].id] # Absent
  PROVE  Found(s) = [i \in 1..Len(s) |-> s[i].id]
<1> DEFINE N == Len(s)
           upTo(i) == [j \in 1..i |-> s[j].id]
           f == [i \in 0..N |-> upTo(i)]
           Body(g, i) == IF i = 0 THEN <<>>
                         ELSE IF comments[s[i].id] # Absent THEN Append(g[i - 1], s[i].id)
                         ELSE g[i - 1]
           Solves(g) == g = [i \in 0..N |-> Body(g, i)]
           loop == CHOOSE g : Solves(g)
<1>1. N \in Nat
  OBVIOUS
<1>2. Solves(f)
  <2>1. ASSUME NEW i \in 0..N PROVE f[i] = Body(f, i)
    <3>1. CASE i = 0
      <4>1. upTo(0) = <<>>
        OBVIOUS
      <4> QED BY <1>1, <3>1, <4>1
    <3>2. CASE i # 0
      <4>1. i \in 1..N /\ i - 1 \in 0..N
        BY <1>1, <3>2
      <4>2. f[i - 1] = upTo(i - 1)
        BY <4>1
      <4>3. Append(upTo(i - 1), s[i].id) = upTo(i)
        <5>1. upTo(i - 1) \in Seq(CommentIDs) /\ Len(upTo(i - 1)) = i - 1
          <6>1. \A j \in 1..i - 1 : s[j] \in Entry
            BY <4>1, <1>1
          <6>2. \A j \in 1..i - 1 : s[j].id \in CommentIDs
            BY <6>1 DEF Entry
          <6> QED BY <4>1, <6>2
        <5> QED BY <4>1, <5>1
      <4> QED BY <1>1, <3>2, <4>1, <4>2, <4>3
    <3> QED BY <3>1, <3>2
  <2> DEFINE rhs == [i \in 0..N |-> Body(f, i)]
  <2>2. f = rhs
    BY <2>1
  <2> QED BY <2>2
<1>3. Solves(loop)
  <2> HIDE DEF Solves, f
  <2> QED BY <1>2
<1>4. \A i \in 0..N : loop[i] = Body(loop, i)
  <2> HIDE DEF loop
  <2> QED BY <1>3
<1>5. \A i \in 0..N : f[i] = Body(f, i)
  BY <1>2
<1>6. \A i \in 0..N : loop[i] = f[i]
  <2> HIDE DEF loop, f
  <2> SUFFICES ASSUME NEW i \in 0..N, loop[i] # f[i] PROVE FALSE
    OBVIOUS
  <2> DEFINE D == {j \in 0..N : loop[j] # f[j]}
  <2>1. D \in SUBSET Nat /\ D # {}
    BY <1>1
  <2>2. PICK m \in D : \A n \in D : m <= n
    <3> HIDE DEF D
    <3> QED BY <2>1, MinOfNats
  <2>3. m \in 0..N /\ loop[m] # f[m]
    BY <2>2
  <2>4. CASE m = 0
    BY <1>4, <1>5, <2>3, <2>4
  <2>5. CASE m # 0
    <3>1. m - 1 \in 0..N /\ m - 1 \notin D
      BY <1>1, <2>2, <2>3, <2>5
    <3>2. loop[m - 1] = f[m - 1]
      BY <3>1
    <3> QED BY <1>4, <1>5, <2>3, <2>5, <3>2
  <2> QED BY <2>4, <2>5
<1>7. Found(s) = loop[N]
  BY DEF Found
<1>8. f[N] = upTo(N)
  BY <1>1
<1> HIDE DEF loop, f
<1> QED BY <1>1, <1>6, <1>7, <1>8

\* R never holds both ways within S; s is ascending by R.
Asymmetric(R, S) == \A a, b \in S : <<a, b>> \in R => <<b, a>> \notin R

IsAscending(s, n, R) == \A i, j \in 1..n : i < j => <<s[i], s[j]>> \in R

\* Two ascending enumerations of a set are the same: the least place where they
\* differ would hold two elements each below the other.
LEMMA AscendingIsUnique ==
  ASSUME NEW S, NEW R, Asymmetric(R, S), NEW n \in Nat, NEW t \in [1..n -> S],
         \A a \in S : \E i \in 1..n : t[i] = a, IsAscending(t, n, R)
  PROVE  /\ Cardinality(S) = n
         /\ \A s \in [1..n -> S] : IsAscending(s, n, R) => s = t
<1> USE DEF Asymmetric, IsAscending
<1>1. ASSUME NEW s \in [1..n -> S], IsAscending(s, n, R),
             NEW i \in 1..n, NEW j \in 1..n, s[i] = s[j]
      PROVE  i = j
  <2>1. ASSUME i < j PROVE FALSE
    BY <1>1, <2>1
  <2>2. ASSUME j < i PROVE FALSE
    BY <1>1, <2>2
  <2> QED BY <2>1, <2>2
<1>2. t \in Injection(1..n, S) /\ t \in Surjection(1..n, S)
  BY <1>1 DEF Injection, IsInjective, Surjection
<1>3. t \in Bijection(1..n, S)
  BY <1>2 DEF Bijection
<1>4. ExistsBijection(1..n, S)
  BY <1>3 DEF ExistsBijection
<1>5. Cardinality(S) = n
  BY <1>4, FS_CountingElements
<1>6. IsFiniteSet(1..n) /\ Cardinality(1..n) = n
  BY FS_Interval
<1>7. IsFiniteSet(S)
  BY <1>4, <1>6, FS_Bijection
<1>8. ASSUME NEW s \in [1..n -> S], IsAscending(s, n, R)
      PROVE  s = t
  <2>1. s \in Injection(1..n, S)
    BY <1>1, <1>8 DEF Injection, IsInjective
  <2>2. s \in Surjection(1..n, S)
    BY <2>1, <1>5, <1>6, <1>7, FS_Injection
  <2>3. \A a \in S : \E i \in 1..n : s[i] = a
    BY <2>2 DEF Surjection
  <2> SUFFICES ASSUME NEW k \in 1..n, s[k] # t[k] PROVE FALSE
    OBVIOUS
  <2> DEFINE D == {i \in 1..n : s[i] # t[i]}
  <2>4. k \in D /\ D \in SUBSET Nat
    OBVIOUS
  <2>5. PICK m \in D : \A i \in D : m <= i
    <3> HIDE DEF D
    <3> QED BY <2>4, MinOfNats
  <2>6. m \in 1..n /\ s[m] # t[m] /\ \A i \in 1..n : i < m => s[i] = t[i]
    BY <2>5
  <2>7. PICK i \in 1..n : s[i] = t[m]
    BY <2>3, <2>6
  <2>8. PICK j \in 1..n : t[j] = s[m]
    BY <2>6
  <2>9. m < i
    <3>1. i # m BY <2>6, <2>7
    <3>2. ~ i < m
      <4> SUFFICES ASSUME i < m PROVE FALSE OBVIOUS
      <4>1. t[i] = t[m] BY <2>6, <2>7
      <4>2. i = m BY <1>1, <2>6, <4>1
      <4> QED BY <4>2, <2>6
    <3> QED BY <2>6, <3>1, <3>2
  <2>10. m < j
    <3>1. j # m BY <2>6, <2>8
    <3>2. ~ j < m
      <4> SUFFICES ASSUME j < m PROVE FALSE OBVIOUS
      <4>1. s[j] = s[m] BY <2>6, <2>8
      <4>2. j = m BY <1>1, <1>8, <2>6, <4>1
      <4> QED BY <4>2, <2>6
    <3> QED BY <2>6, <3>1, <3>2
  <2>11. <<s[m], t[m]>> \in R
    BY <1>8, <2>6, <2>7, <2>9
  <2>12. <<t[m], s[m]>> \in R
    BY <2>6, <2>8, <2>10
  <2> QED BY <2>6, <2>11, <2>12
<1> QED BY <1>5, <1>8

\* The first place behind the cursor in the slice of a thread, and the ids from
\* there on.
PageStart(key, cursor) ==
  IF cursor = NoCursor THEN 1 ELSE FirstAfter(commentsByParent[key], cursor)

IDsBehind(key, cursor) ==
  [i \in 1..Len(commentsByParent[key]) - PageStart(key, cursor) + 1 |->
     commentsByParent[key][PageStart(key, cursor) + i - 1].id]

\* The comments of a thread behind the cursor, and their order.
ThreadBehind(key, cursor) ==
  {c \in CommentIDs : /\ comments[c] # Absent
                      /\ makePostParentKey(comments[c]) = key
                      /\ cursor = NoCursor \/ Precedes(cursor, EntryOf(c, comments[c]))}

Below(c, d) == Precedes(EntryOf(c, comments[c]), EntryOf(d, comments[d]))

\* A page cut from the ids that are left.
PageFrom(rest, limit) ==
  [comments   |-> SubSeq(rest, 1, IF Len(rest) <= limit THEN Len(rest) ELSE limit),
   nextCursor |-> IF Len(rest) > limit
                  THEN EntryOf(rest[limit], comments[rest[limit]]) ELSE NoCursor]

LEMMA StartSplits ==
  ASSUME TypeOK, IndexInv, NEW key \in Key, NEW cursor \in Entry \cup {NoCursor}
  PROVE  /\ Len(commentsByParent[key]) \in Nat
         /\ PageStart(key, cursor) \in 1..Len(commentsByParent[key]) + 1
         /\ \A j \in 1..Len(commentsByParent[key]) :
              PageStart(key, cursor) <= j
                <=> cursor = NoCursor \/ Precedes(cursor, commentsByParent[key][j])
<1>1. commentsByParent[key] \in Seq(Entry)
  BY DEF TypeOK
<1>2. \A i, j \in 1..Len(commentsByParent[key]) :
        i < j => Precedes(commentsByParent[key][i], commentsByParent[key][j])
  BY DEF IndexInv, IndexSorted
<1>3. CASE cursor = NoCursor
  BY <1>1, <1>3 DEF PageStart
<1>4. CASE cursor # NoCursor
  <2>1. cursor \in Entry
    BY <1>4
  <2>2. /\ FirstAfter(commentsByParent[key], cursor) \in 1..Len(commentsByParent[key]) + 1
        /\ \A j \in 1..Len(commentsByParent[key]) :
             FirstAfter(commentsByParent[key], cursor) <= j
               <=> Precedes(cursor, commentsByParent[key][j])
    BY <1>1, <1>2, <2>1, FirstAfterSplits
  <2> QED BY <1>1, <1>4, <2>2 DEF PageStart
<1> QED BY <1>3, <1>4

\* An entry of the index is the entry of its comment.
LEMMA EntriesAreOfTheirComments ==
  ASSUME TypeOK, IndexInv, NEW key \in Key, NEW j \in 1..Len(commentsByParent[key])
  PROVE  LET e == commentsByParent[key][j]
         IN  /\ e \in Entry
             /\ e.id \in CommentIDs
             /\ comments[e.id] # Absent
             /\ makePostParentKey(comments[e.id]) = key
             /\ EntryOf(e.id, comments[e.id]) = e
<1> DEFINE e == commentsByParent[key][j]
<1>1. commentsByParent[key] \in Seq(Entry)
  BY DEF TypeOK
<1>2. e \in Entry
  BY <1>1
<1>3. e.id \in CommentIDs /\ e = [createdAt |-> e.createdAt, id |-> e.id]
  BY <1>2 DEF Entry
<1>4. /\ comments[e.id] # Absent
      /\ makePostParentKey(comments[e.id]) = key
      /\ comments[e.id].createdAt = e.createdAt
  BY DEF IndexInv, IndexExact
<1> QED BY <1>2, <1>3, <1>4 DEF EntryOf

\* The ids that are left are the comments of the thread behind the cursor, each
\* once and in ascending order.
LEMMA RestEnumerates ==
  ASSUME TypeOK, IndexInv, NEW key \in Key, NEW cursor \in Entry \cup {NoCursor}
  PROVE  LET rest == IDsBehind(key, cursor)
             n    == Len(commentsByParent[key]) - PageStart(key, cursor) + 1
         IN  /\ n \in Nat
             /\ rest \in [1..n -> ThreadBehind(key, cursor)]
             /\ Len(rest) = n
             /\ \A c \in ThreadBehind(key, cursor) : \E i \in 1..n : rest[i] = c
             /\ \A i, j \in 1..n : i < j => Below(rest[i], rest[j])
<1> DEFINE entries == commentsByParent[key]
           start == PageStart(key, cursor)
           n == Len(entries) - start + 1
           rest == IDsBehind(key, cursor)
<1>1. /\ Len(entries) \in Nat
      /\ start \in 1..Len(entries) + 1
      /\ \A j \in 1..Len(entries) :
           start <= j <=> cursor = NoCursor \/ Precedes(cursor, entries[j])
  BY StartSplits
<1>2. n \in Nat
  BY <1>1
<1>3. ASSUME NEW j \in 1..Len(entries)
      PROVE  /\ entries[j].id \in CommentIDs
             /\ comments[entries[j].id] # Absent
             /\ makePostParentKey(comments[entries[j].id]) = key
             /\ EntryOf(entries[j].id, comments[entries[j].id]) = entries[j]
  BY EntriesAreOfTheirComments
<1>4. rest = [i \in 1..n |-> entries[start + i - 1].id]
  BY DEF IDsBehind
<1> HIDE DEF start, rest
<1>5. \A i \in 1..n : start + i - 1 \in 1..Len(entries) /\ rest[i] = entries[start + i - 1].id
  BY <1>1, <1>4
<1>6. ASSUME NEW i \in 1..n PROVE rest[i] \in ThreadBehind(key, cursor)
  <2> DEFINE j == start + i - 1
  <2>1. j \in 1..Len(entries) /\ start <= j /\ rest[i] = entries[j].id
    BY <1>1, <1>5
  <2>2. cursor = NoCursor \/ Precedes(cursor, entries[j])
    BY <1>1, <2>1
  <2> HIDE DEF j
  <2> QED BY <1>3, <2>1, <2>2 DEF ThreadBehind
<1>7. ASSUME NEW c \in ThreadBehind(key, cursor) PROVE \E i \in 1..n : rest[i] = c
  <2>1. c \in CommentIDs /\ comments[c] # Absent /\ makePostParentKey(comments[c]) = key
    BY DEF ThreadBehind
  <2>2. PICK j \in 1..Len(entries) : entries[j].id = c
    BY <2>1 DEF IndexInv, IndexComplete
  <2>3. cursor = NoCursor \/ Precedes(cursor, entries[j])
    BY <1>3, <2>2 DEF ThreadBehind
  <2>4. start <= j
    BY <1>1, <2>3
  <2>5. j - start + 1 \in 1..n /\ start + (j - start + 1) - 1 = j
    BY <1>1, <2>4
  <2>6. rest[j - start + 1] = c
    BY <1>5, <2>2, <2>5
  <2> QED BY <2>5, <2>6
<1>8. ASSUME NEW i \in 1..n, NEW j \in 1..n, i < j PROVE Below(rest[i], rest[j])
  <2>1. start + i - 1 < start + j - 1
    BY <1>1, <1>8
  <2>2. Precedes(entries[start + i - 1], entries[start + j - 1])
    BY <1>5, <2>1 DEF IndexInv, IndexSorted
  <2>3. /\ EntryOf(rest[i], comments[rest[i]]) = entries[start + i - 1]
        /\ EntryOf(rest[j], comments[rest[j]]) = entries[start + j - 1]
    BY <1>3, <1>5
  <2> QED BY <2>2, <2>3 DEF Below
<1> HIDE DEF entries, n
<1>9. rest \in [1..n -> ThreadBehind(key, cursor)] /\ Len(rest) = n
  <2>1. rest \in [1..n -> ThreadBehind(key, cursor)]
    BY <1>4, <1>6
  <2>2. DOMAIN rest = 1..n
    BY <1>4
  <2>3. rest \in Seq(ThreadBehind(key, cursor))
    BY <1>2, <2>1
  <2>4. Len(rest) = n
    BY <1>2, <2>2, <2>3
  <2> QED BY <2>1, <2>4
<1>10. \A i, j \in 1..n : i < j => Below(rest[i], rest[j])
  BY <1>8
<1> QED BY <1>2, <1>7, <1>9, <1>10 DEF entries, n, start, rest

\* The page that the binary search cuts out of the index.
LEMMA PageOfIndex ==
  ASSUME TypeOK, IndexInv, NEW key \in Key, NEW cursor \in Entry \cup {NoCursor},
         NEW limit \in Nat \ {0}
  PROVE  ListByPostAndParent(key, limit, cursor) = PageFrom(IDsBehind(key, cursor), limit)
<1> DEFINE entries == commentsByParent[key]
           start == PageStart(key, cursor)
           n == Len(entries) - start + 1
           rest == IDsBehind(key, cursor)
           end == Min({start + limit, Len(entries)})
           cut == SubSeq(entries, start, end)
           page == Found(cut)
           m == IF limit < n THEN limit + 1 ELSE n
<1>1. /\ Len(entries) \in Nat
      /\ start \in 1..Len(entries) + 1
      /\ entries \in Seq(Entry)
  BY StartSplits DEF TypeOK
<1>2. n \in Nat /\ Len(rest) = n /\ rest \in [1..n -> ThreadBehind(key, cursor)]
  BY RestEnumerates
<1>3. rest = [i \in 1..n |-> entries[start + i - 1].id]
  BY DEF IDsBehind
<1>4. end = IF start + limit <= Len(entries) THEN start + limit ELSE Len(entries)
  BY <1>1, MinOfTwo
<1>5. ListByPostAndParent(key, limit, cursor)
        = IF Len(page) > limit
          THEN [comments   |-> SubSeq(page, 1, limit),
                nextCursor |-> EntryOf(page[limit], comments[page[limit]])]
          ELSE [comments |-> page, nextCursor |-> NoCursor]
  BY DEF ListByPostAndParent, PageStart
<1> HIDE DEF start, rest, end
<1>6. m \in Nat /\ start + m - 1 = end /\ m <= n
  BY <1>1, <1>2, <1>4
<1>7. \A i \in 1..m : start + i - 1 \in 1..Len(entries)
  BY <1>1, <1>2, <1>6
<1>8. cut \in Seq(Entry) /\ Len(cut) = m /\ \A i \in 1..m : cut[i] = entries[start + i - 1]
  <2>1. \A i \in start..end : entries[i] \in Entry
    BY <1>1, <1>4
  <2>2. start \in Int /\ end \in Int /\ end - start + 1 = m
    BY <1>1, <1>4, <1>6
  <2>3. /\ cut \in Seq(Entry)
        /\ Len(cut) = IF start <= end THEN end - start + 1 ELSE 0
        /\ \A i \in 1..end - start + 1 : cut[i] = entries[start + i - 1]
    BY <2>1, <2>2, SubSeqProperties
  <2> QED BY <2>2, <2>3, <1>6
<1> HIDE DEF cut
<1>9. page = [i \in 1..m |-> entries[start + i - 1].id]
  <2>1. ASSUME NEW i \in 1..Len(cut) PROVE comments[cut[i].id] # Absent
    <3>1. start + i - 1 \in 1..Len(entries) /\ cut[i] = entries[start + i - 1]
      BY <1>7, <1>8
    <3> QED BY <3>1, EntriesAreOfTheirComments
  <2>2. page = [i \in 1..Len(cut) |-> cut[i].id]
    BY <1>8, <2>1, FoundAll
  <2> HIDE DEF page
  <2> QED BY <1>8, <2>2
<1> HIDE DEF page
<1>10. Len(page) = m /\ \A i \in 1..m : page[i] = rest[i]
  <2>1. Len(page) = m
    BY <1>6, <1>9
  <2>2. ASSUME NEW i \in 1..m PROVE page[i] = rest[i]
    <3>1. i \in 1..n
      BY <1>2, <1>6
    <3>2. rest[i] = entries[start + i - 1].id
      BY <1>3, <3>1
    <3>3. page[i] = entries[start + i - 1].id
      BY <1>9
    <3> QED BY <3>2, <3>3
  <2> HIDE DEF m
  <2> QED BY <2>1, <2>2
<1>11. CASE n > limit
  <2>1. m = limit + 1 /\ m > limit /\ limit \in 1..m
    BY <1>2, <1>11
  <2>2. SubSeq(page, 1, limit) = SubSeq(rest, 1, limit)
    BY <1>10, <2>1
  <2>3. page[limit] = rest[limit]
    BY <1>10, <2>1
  <2>4. PageFrom(rest, limit) = [comments   |-> SubSeq(rest, 1, limit),
                               nextCursor |-> EntryOf(rest[limit], comments[rest[limit]])]
    BY <1>2, <1>11 DEF PageFrom
  <2>5. ListByPostAndParent(key, limit, cursor)
          = [comments   |-> SubSeq(page, 1, limit),
             nextCursor |-> EntryOf(page[limit], comments[page[limit]])]
    BY <1>5, <1>10, <2>1
  <2> QED BY <2>2, <2>3, <2>4, <2>5 DEF rest
<1>12. CASE ~ n > limit
  <2>1. m = n /\ n <= limit
    BY <1>2, <1>12
  <2>2. SubSeq(rest, 1, n) = [i \in 1..n |-> rest[i]]
    BY <1>2
  <2>3. page = SubSeq(rest, 1, n)
    BY <1>3, <1>9, <2>1, <2>2
  <2>4. PageFrom(rest, limit) = [comments |-> SubSeq(rest, 1, n), nextCursor |-> NoCursor]
    BY <1>2, <1>12, <2>1 DEF PageFrom
  <2>5. ListByPostAndParent(key, limit, cursor) = [comments |-> page, nextCursor |-> NoCursor]
    BY <1>5, <1>10, <2>1
  <2> QED BY <2>3, <2>4, <2>5 DEF rest
<1> QED BY <1>11, <1>12 DEF rest

\* The page that a scan of all comments gives.
LEMMA PageOfScan ==
  ASSUME TypeOK, IndexInv, NEW key \in Key, NEW cursor \in Entry \cup {NoCursor},
         NEW limit \in Nat \ {0}
  PROVE  ExpectedPage(key, limit, cursor) = PageFrom(IDsBehind(key, cursor), limit)
<1> DEFINE thread == ThreadBehind(key, cursor)
           n == Len(commentsByParent[key]) - PageStart(key, cursor) + 1
           rest == IDsBehind(key, cursor)
           R == {cd \in thread \X thread : Below(cd[1], cd[2])}
           sorted == CHOOSE s \in [1..Cardinality(thread) -> thread] :
                       \A i, j \in 1..Cardinality(thread) : i < j => Below(s[i], s[j])
<1>1. /\ n \in Nat /\ Len(rest) = n
      /\ rest \in [1..n -> thread]
      /\ \A c \in thread : \E i \in 1..n : rest[i] = c
      /\ \A i, j \in 1..n : i < j => Below(rest[i], rest[j])
  BY RestEnumerates
<1>2. \A c, d \in thread : <<c, d>> \in R <=> Below(c, d)
  OBVIOUS
<1>3. \A c, d \in thread : Below(c, d) => ~ Below(d, c)
  <2> TAKE c, d \in thread
  <2>1. /\ c \in Nat /\ d \in Nat
        /\ comments[c].createdAt \in Nat /\ comments[d].createdAt \in Nat
    BY IDsAreOrdered, TimesAreOrdered DEF ThreadBehind, TypeOK, Comment
  <2> QED BY <2>1 DEF Below, Precedes, EntryOf
<1> HIDE DEF thread, n, rest, R
<1>4. /\ Cardinality(thread) = n
      /\ \A s \in [1..n -> thread] : IsAscending(s, n, R) => s = rest
  <2>1. Asymmetric(R, thread)
    BY <1>2, <1>3 DEF Asymmetric
  <2>2. IsAscending(rest, n, R)
    BY <1>1, <1>2 DEF IsAscending
  <2> QED BY <1>1, <2>1, <2>2, AscendingIsUnique
<1>5. \A s \in [1..n -> thread] : (\A i, j \in 1..n : i < j => Below(s[i], s[j])) => s = rest
  <2> TAKE s \in [1..n -> thread]
  <2> HAVE \A i, j \in 1..n : i < j => Below(s[i], s[j])
  <2>1. IsAscending(s, n, R)
    BY <1>2 DEF IsAscending
  <2> QED BY <1>4, <2>1
<1>6. sorted = rest
  BY <1>1, <1>4, <1>5
<1>7. ExpectedPage(key, limit, cursor)
        = [comments   |-> SubSeq(sorted, 1, Min({limit, Len(sorted)})),
           nextCursor |-> IF Len(sorted) > limit
                          THEN EntryOf(sorted[limit], comments[sorted[limit]])
                          ELSE NoCursor]
  BY DEF ExpectedPage, Ascending, thread, ThreadBehind, Below
<1>8. Min({limit, Len(rest)}) = IF Len(rest) <= limit THEN Len(rest) ELSE limit
  BY <1>1, MinOfTwo
<1> HIDE DEF sorted
<1> QED BY <1>6, <1>7, <1>8 DEF PageFrom, rest

\* The page of the binary search is the page of a scan, for every thread, limit
\* and cursor, in every reachable state of a store of any size.
THEOREM PagesAreAlwaysExact == Spec => []PagesAreExact
<1>1. ASSUME TypeOK, IndexInv PROVE PagesAreExact
  <2> SUFFICES ASSUME NEW key \in Key, NEW limit \in 1..Cardinality(CommentIDs),
                      NEW cursor \in Entry \cup {NoCursor}
               PROVE  ListByPostAndParent(key, limit, cursor) = ExpectedPage(key, limit, cursor)
    BY DEF PagesAreExact
  <2>1. limit \in Nat \ {0}
    OBVIOUS
  <2> QED BY <1>1, <2>1, PageOfIndex, PageOfScan
<1>2. Init => TypeOK /\ IndexInv
  BY TypeInductive, IndexInductive
<1>3. TypeOK /\ IndexInv /\ [StoreStep]_storeVars => TypeOK' /\ IndexInv'
  BY TypeInductive, IndexInductive
<1> QED BY <1>1, <1>2, <1>3, PTL DEF Spec
==============================================================================
