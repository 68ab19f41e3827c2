---------------------------- MODULE Paging_proofs ----------------------------
(***************************************************************************)
(* Proofs about pages, for stores, batches and clients of any number: what *)
(* a client reads over all its pages ascends and misses nothing that was   *)
(* not stored behind its back (Paging), and the query of the PostgreSQL    *)
(* repositories answers as the in-memory ones do (PostgresPages).          *)
(*                                                                         *)
(* Both rest on one fact: a finite set with a total order has exactly one  *)
(* ascending enumeration, and every page is a cut of the enumeration of    *)
(* what lies behind its cursor.                                            *)
(***************************************************************************)
EXTENDS Paging, PostgresPages, MemoryStore_proofs

(***************************************************************************)
(* Finite sets have exactly one ascending enumeration.                     *)
(***************************************************************************)
TotalOrder(R, S) ==
  /\ Asymmetric(R, S)
  /\ \A a, b, c \in S : <<a, b>> \in R /\ <<b, c>> \in R => <<a, c>> \in R
  /\ \A a, b \in S : a # b => <<a, b>> \in R \/ <<b, a>> \in R

\* t runs through S, each element once and in order.
Enumerates(t, n, S, R) ==
  /\ n \in Nat
  /\ t \in [1..n -> S]
  /\ \A a \in S : \E i \in 1..n : t[i] = a
  /\ IsAscending(t, n, R)

\* A new element has a place in an ascending enumeration.
LEMMA EnumerationGrows ==
  ASSUME NEW U, NEW R, TotalOrder(R, U), NEW S \in SUBSET U, NEW a \in U \ S,
         NEW n \in Nat, NEW s \in [1..n -> S], IsAscending(s, n, R)
  PROVE  \E t \in [1..n + 1 -> S \cup {a}] : IsAscending(t, n + 1, R)
<1> DEFINE T == {i \in 1..n : <<a, s[i]>> \in R} \cup {n + 1}
           k == Min(T)
           t == [i \in 1..n + 1 |-> IF i < k THEN s[i] ELSE IF i = k THEN a ELSE s[i - 1]]
<1>1. T \in SUBSET Nat /\ T # {}
  OBVIOUS
<1>2. k \in T /\ \A i \in T : k <= i
  <2> HIDE DEF T
  <2> QED BY <1>1, MinOfNats
<1>3. k \in 1..n + 1 /\ (k <= n => <<a, s[k]>> \in R)
  BY <1>2
<1>4. ASSUME NEW i \in 1..n, i < k PROVE <<s[i], a>> \in R
  <2>1. i \notin T
    <3> HIDE DEF T, k
    <3> QED BY <1>2, <1>3, <1>4
  <2>2. <<a, s[i]>> \notin R /\ s[i] \in U /\ s[i] # a
    BY <2>1
  <2> QED BY <2>2 DEF TotalOrder
<1> HIDE DEF T, k
<1>5. ASSUME NEW i \in 1..n, k <= i PROVE <<a, s[i]>> \in R
  <2>1. k \in 1..n /\ <<a, s[k]>> \in R
    BY <1>3, <1>5
  <2>2. CASE k = i
    BY <2>1, <2>2
  <2>3. CASE k < i
    <3>1. <<s[k], s[i]>> \in R
      BY <2>1, <2>3 DEF IsAscending
    <3>2. s[k] \in U /\ s[i] \in U
      BY <2>1
    <3> QED BY <2>1, <3>1, <3>2 DEF TotalOrder
  <2> QED BY <1>3, <1>5, <2>2, <2>3
<1>6. t \in [1..n + 1 -> S \cup {a}]
  <2>1. ASSUME NEW i \in 1..n + 1 PROVE t[i] \in S \cup {a}
    <3>1. CASE i < k
      <4>1. i \in 1..n BY <1>3, <3>1
      <4> QED BY <3>1, <4>1
    <3>2. CASE i = k
      BY <3>2
    <3>3. CASE i > k
      <4>1. i - 1 \in 1..n BY <1>3, <3>3
      <4> QED BY <1>3, <3>3, <4>1
    <3> QED BY <1>3, <3>1, <3>2, <3>3
  <2> QED BY <2>1
<1>7. \A i \in 1..n + 1 : t[i] = IF i < k THEN s[i] ELSE IF i = k THEN a ELSE s[i - 1]
  OBVIOUS
<1> HIDE DEF t
<1>8. ASSUME NEW i \in 1..n + 1, NEW j \in 1..n + 1, i < j PROVE <<t[i], t[j]>> \in R
  <2>1. CASE j < k
    <3>1. i \in 1..n /\ j \in 1..n /\ t[i] = s[i] /\ t[j] = s[j]
      BY <1>3, <1>7, <1>8, <2>1
    <3> QED BY <1>8, <3>1 DEF IsAscending
  <2>2. CASE j = k
    <3>1. i \in 1..n /\ i < k /\ t[i] = s[i] /\ t[j] = a
      BY <1>3, <1>7, <1>8, <2>2
    <3> QED BY <1>4, <3>1
  <2>3. CASE i < k /\ k < j
    <3>1. i \in 1..n /\ j - 1 \in 1..n /\ i < j - 1 /\ t[i] = s[i] /\ t[j] = s[j - 1]
      BY <1>3, <1>7, <2>3
    <3> QED BY <3>1 DEF IsAscending
  <2>4. CASE i = k
    <3>1. j - 1 \in 1..n /\ k <= j - 1 /\ t[i] = a /\ t[j] = s[j - 1]
      BY <1>3, <1>7, <1>8, <2>4
    <3> QED BY <1>5, <3>1
  <2>5. CASE k < i
    <3>1. i - 1 \in 1..n /\ j - 1 \in 1..n /\ i - 1 < j - 1 /\ t[i] = s[i - 1] /\ t[j] = s[j - 1]
      BY <1>3, <1>7, <1>8, <2>5
    <3> QED BY <3>1 DEF IsAscending
  <2> QED BY <1>3, <2>1, <2>2, <2>3, <2>4, <2>5, <1>8
<1>9. IsAscending(t, n + 1, R)
  BY <1>8 DEF IsAscending
<1> QED BY <1>6, <1>9

\* By induction on the size of the set: of the sets without an ascending
\* enumeration none has the least size.
LEMMA EnumerationExists ==
  ASSUME NEW S, NEW R, TotalOrder(R, S), IsFiniteSet(S)
  PROVE  \E t : Enumerates(t, Cardinality(S), S, R)
<1> DEFINE Ordered(A) == \E t \in [1..Cardinality(A) -> A] : IsAscending(t, Cardinality(A), R)
           D == {n \in Nat : \E A \in SUBSET S : /\ IsFiniteSet(A)
                                                  /\ Cardinality(A) = n
                                                  /\ ~ Ordered(A)}
<1>1. Ordered(S)
  <2> SUFFICES ASSUME ~ Ordered(S) PROVE FALSE
    OBVIOUS
  <2>1. Cardinality(S) \in Nat /\ Cardinality(S) \in D
    BY FS_CardinalityType
  <2>2. PICK n \in D : \A i \in D : n <= i
    <3>1. D \in SUBSET Nat /\ D # {}
      BY <2>1
    <3> HIDE DEF D
    <3> QED BY <3>1, MinOfNats
  <2>3. n \in Nat
    OBVIOUS
  <2>4. PICK A \in SUBSET S : IsFiniteSet(A) /\ Cardinality(A) = n /\ ~ Ordered(A)
    OBVIOUS
  <2>5. CASE n = 0
    <3>1. A = {}
      BY <2>4, <2>5, FS_EmptySet
    <3> DEFINE t == [i \in 1..0 |-> i]
    <3>2. t \in [1..0 -> A] /\ IsAscending(t, 0, R)
      BY DEF IsAscending
    <3> HIDE DEF t
    <3> QED BY <2>4, <2>5, <3>2
  <2>6. CASE n # 0
    <3>1. PICK a : a \in A
      BY <2>4, <2>6, FS_EmptySet
    <3> DEFINE B == A \ {a}
    <3>2. IsFiniteSet(B) /\ Cardinality(B) = n - 1 /\ n - 1 \in Nat
      BY <2>3, <2>4, <2>6, <3>1, FS_RemoveElement
    <3>3. n - 1 \notin D /\ B \in SUBSET S
      <4>1. n - 1 < n BY <2>3
      <4> HIDE DEF D
      <4> QED BY <2>2, <2>3, <3>2, <4>1
    <3>4. Ordered(B)
      <4> HIDE DEF Ordered
      <4> QED BY <3>2, <3>3
    <3>5. PICK s \in [1..n - 1 -> B] : IsAscending(s, n - 1, R)
      BY <3>2, <3>4
    <3>6. a \in S \ B /\ B \cup {a} = A /\ n - 1 + 1 = n
      BY <2>3, <3>1
    <3> HIDE DEF B
    <3>7. \E t \in [1..n - 1 + 1 -> B \cup {a}] : IsAscending(t, n - 1 + 1, R)
      BY <3>2, <3>3, <3>5, <3>6, EnumerationGrows
    <3> QED BY <2>4, <3>6, <3>7
  <2> QED BY <2>5, <2>6
<1>2. PICK t \in [1..Cardinality(S) -> S] : IsAscending(t, Cardinality(S), R)
  BY <1>1
<1> DEFINE n == Cardinality(S)
<1>3. n \in Nat /\ IsFiniteSet(1..n) /\ Cardinality(1..n) = n
  BY FS_CardinalityType, FS_Interval
<1>4. ASSUME NEW i \in 1..n, NEW j \in 1..n, t[i] = t[j] PROVE i = j
  <2>1. ASSUME i < j PROVE FALSE
    <3>1. <<t[i], t[j]>> \in R BY <1>2, <2>1 DEF IsAscending
    <3> QED BY <1>2, <1>4, <3>1 DEF TotalOrder, Asymmetric
  <2>2. ASSUME j < i PROVE FALSE
    <3>1. <<t[j], t[i]>> \in R BY <1>2, <2>2 DEF IsAscending
    <3> QED BY <1>2, <1>4, <3>1 DEF TotalOrder, Asymmetric
  <2> QED BY <2>1, <2>2
<1>5. t \in Injection(1..n, S)
  BY <1>2, <1>4 DEF Injection, IsInjective
<1>6. t \in Surjection(1..n, S)
  BY <1>3, <1>5, FS_Injection
<1>7. \A a \in S : \E i \in 1..n : t[i] = a
  BY <1>6 DEF Surjection
<1> QED BY <1>2, <1>3, <1>7 DEF Enumerates

\* An enumeration is mapped along with its set and its order.
LEMMA EnumerationIsMapped ==
  ASSUME NEW S, NEW R, NEW n, NEW t, Enumerates(t, n, S, R), NEW E, NEW Q, NEW f \in [S -> E],
         \A e \in E : \E a \in S : f[a] = e,
         \A a, b \in S : <<a, b>> \in R => <<f[a], f[b]>> \in Q
  PROVE  Enumerates([i \in 1..n |-> f[t[i]]], n, E, Q)
<1>1. n \in Nat /\ t \in [1..n -> S] /\ \A i \in 1..n : t[i] \in S
  BY DEF Enumerates
<1> DEFINE u == [i \in 1..n |-> f[t[i]]]
<1>2. u \in [1..n -> E]
  BY <1>1
<1>3. ASSUME NEW e \in E PROVE \E i \in 1..n : u[i] = e
  <2>1. PICK a \in S : f[a] = e
    OBVIOUS
  <2>2. PICK i \in 1..n : t[i] = a
    BY DEF Enumerates
  <2> QED BY <2>1, <2>2
<1>4. IsAscending(u, n, Q)
  <2> SUFFICES ASSUME NEW i \in 1..n, NEW j \in 1..n, i < j PROVE <<u[i], u[j]>> \in Q
    BY DEF IsAscending
  <2>1. <<t[i], t[j]>> \in R
    BY DEF Enumerates, IsAscending
  <2> QED BY <1>1, <2>1
<1> HIDE DEF u
<1>5. Enumerates(u, n, E, Q)
  BY <1>1, <1>2, <1>3, <1>4 DEF Enumerates
<1> QED BY <1>5 DEF u

\* The ascending sequence of a set is its enumeration, if it has one.
LEMMA AscendingIsTheEnumeration ==
  ASSUME NEW S, NEW R, Asymmetric(R, S), NEW n, NEW t, Enumerates(t, n, S, R)
  PROVE  /\ Cardinality(S) = n
         /\ \A s \in [1..n -> S] : IsAscending(s, n, R) <=> s = t
<1>1. /\ n \in Nat /\ t \in [1..n -> S]
      /\ \A a \in S : \E i \in 1..n : t[i] = a
      /\ IsAscending(t, n, R)
  BY DEF Enumerates
<1>2. /\ Cardinality(S) = n
      /\ \A s \in [1..n -> S] : IsAscending(s, n, R) => s = t
  BY <1>1, AscendingIsUnique
<1> QED BY <1>1, <1>2

(***************************************************************************)
(* What is stored is finite.                                               *)
(***************************************************************************)
StoredPosts == {p \in PostIDs : posts[p] # Absent}

StoredComments == {c \in CommentIDs : comments[c] # Absent}

StoreIsFinite == IsFiniteSet(StoredPosts) /\ IsFiniteSet(StoredComments)

LEMMA FiniteInductive ==
  /\ Init => StoreIsFinite
  /\ TypeOK /\ StoreIsFinite /\ [StoreStep]_storeVars => StoreIsFinite'
<1>1. ASSUME Init PROVE StoreIsFinite
  <2>1. StoredPosts = {} /\ StoredComments = {}
    BY <1>1 DEF Init, StoredPosts, StoredComments
  <2> QED BY <2>1, FS_EmptySet DEF StoreIsFinite
<1>2. ASSUME TypeOK, StoreIsFinite, [StoreStep]_storeVars PROVE StoreIsFinite'
  <2> USE <1>2
  <2>1. ASSUME StoredPosts' \subseteq StoredPosts, StoredComments' \subseteq StoredComments
        PROVE  StoreIsFinite'
    BY <2>1, FS_Subset DEF StoreIsFinite
  <2>2. CASE \E id \in CommentIDs, c \in Comment : ~ c.deleted /\ CreateComment(id, c)
    <3>1. PICK id \in CommentIDs, c \in Comment : CreateComment(id, c)
      BY <2>2
    <3>2. StoredPosts' = StoredPosts /\ StoredComments' \subseteq StoredComments \cup {id}
      BY <3>1 DEF CreateComment, TypeOK, StoredPosts, StoredComments
    <3>3. IsFiniteSet(StoredComments \cup {id})
      BY FS_AddElement DEF StoreIsFinite
    <3> QED BY <3>2, <3>3, FS_Subset DEF StoreIsFinite
  <2>3. CASE \E id \in PostIDs, p \in Post : CreatePost(id, p)
    <3>1. PICK id \in PostIDs, p \in Post : CreatePost(id, p)
      BY <2>3
    <3>2. StoredComments' = StoredComments /\ StoredPosts' \subseteq StoredPosts \cup {id}
      BY <3>1 DEF CreatePost, TypeOK, StoredPosts, StoredComments
    <3>3. IsFiniteSet(StoredPosts \cup {id})
      BY FS_AddElement DEF StoreIsFinite
    <3> QED BY <3>2, <3>3, FS_Subset DEF StoreIsFinite
  <2>4. CASE \E id \in CommentIDs, a \in AuthorIDs : DeleteComment(id, a)
    BY <2>1, <2>4 DEF DeleteComment, DeleteCommentError, TypeOK, StoredPosts, StoredComments
  <2>5. CASE \E id \in PostIDs, a \in AuthorIDs, e \in BOOLEAN : SetCommentsEnabled(id, a, e)
    BY <2>1, <2>5 DEF SetCommentsEnabled, PostAccessError, TypeOK, StoredPosts, StoredComments
  <2>6. CASE \E id \in PostIDs, a \in AuthorIDs : DeletePost(id, a)
    BY <2>1, <2>6 DEF DeletePost, TypeOK, StoredPosts, StoredComments
  <2>7. CASE UNCHANGED storeVars
    BY <2>1, <2>7 DEF storeVars, StoredPosts, StoredComments
  <2> QED BY <2>2, <2>3, <2>4, <2>5, <2>6, <2>7 DEF StoreStep
<1> QED BY <1>1, <1>2

StoreInv == TypeOK /\ IndexInv /\ StoreIsFinite

LEMMA StoreInductive ==
  /\ Init => StoreInv
  /\ StoreInv /\ [StoreStep]_storeVars => StoreInv'
BY TypeInductive, IndexInductive, FiniteInductive DEF StoreInv

(***************************************************************************)
(* A page is a cut of what is in the list behind the cursor.               *)
(***************************************************************************)
EntriesBehind(list, cursor) ==
  {e \in Entries(list) : cursor = NoCursor \/ Before(list, cursor, e)}

ListOrder(list) == {ab \in AnyEntry \X AnyEntry : Before(list, ab[1], ab[2])}

Cut(t, n, limit) == Connection(SubSeq(t, 1, IF n <= limit THEN n ELSE limit), n > limit)

LEMMA LimitIsPositive ==
  ASSUME NEW limit \in Limits
  PROVE  normalizePageLimit(limit) \in Nat \ {0}
BY LimitsAreIntegers, PageSizesAreOrdered DEF normalizePageLimit

LEMMA EntriesAreEntries ==
  ASSUME TypeOK
  PROVE  /\ \A key \in Key : key # AllPosts => Entries(key) \subseteq Entry
         /\ Entries(AllPosts) \subseteq [createdAt : Times, id : PostIDs]
<1>1. \A c \in CommentIDs : comments[c] # Absent => EntryOf(c, comments[c]) \in Entry
  BY DEF TypeOK, Comment, EntryOf, Entry
<1>2. \A p \in PostIDs : posts[p] # Absent => EntryOf(p, posts[p]) \in [createdAt : Times, id : PostIDs]
  BY DEF TypeOK, Post, EntryOf
<1> QED BY <1>1, <1>2 DEF Entries

LEMMA EntryIsAnyEntry ==
  Entry \subseteq AnyEntry /\ [createdAt : Times, id : PostIDs] \subseteq AnyEntry
BY DEF Entry, AnyEntry

\* A page of a thread.
LEMMA ThreadPageIsCut ==
  ASSUME StoreInv, NEW key \in Key, key # AllPosts, NEW cursor \in Entry \cup {NoCursor},
         NEW limit \in Limits
  PROVE  \E n, t : /\ Enumerates(t, n, EntriesBehind(key, cursor), ListOrder(key))
                   /\ CommentsPage(key, limit, cursor) = Cut(t, n, normalizePageLimit(limit))
<1> DEFINE thread == ThreadBehind(key, cursor)
           n == Len(commentsByParent[key]) - PageStart(key, cursor) + 1
           rest == IDsBehind(key, cursor)
           l == normalizePageLimit(limit)
           R == {cd \in thread \X thread : Below(cd[1], cd[2])}
           E == EntriesBehind(key, cursor)
           f == [c \in thread |-> EntryOf(c, comments[c])]
           t == [i \in 1..n |-> f[rest[i]]]
           m == IF n <= l THEN n ELSE l
<1>0. TypeOK /\ IndexInv /\ l \in Nat \ {0}
  BY LimitIsPositive DEF StoreInv
<1>1. /\ n \in Nat /\ Len(rest) = n
      /\ rest \in [1..n -> thread]
      /\ \A c \in thread : \E i \in 1..n : rest[i] = c
      /\ \A i, j \in 1..n : i < j => Below(rest[i], rest[j])
  BY <1>0, RestEnumerates
<1>2. ListByPostAndParent(key, l, cursor) = PageFrom(rest, l)
  BY <1>0, PageOfIndex
<1>3. thread \subseteq CommentIDs /\ \A c \in thread : comments[c] # Absent /\ f[c] = EntryOf(c, comments[c])
  BY DEF ThreadBehind
<1>4. f \in [thread -> E] /\ \A e \in E : \E c \in thread : f[c] = e
  <2>1. ASSUME NEW c \in thread PROVE f[c] \in E
    BY DEF ThreadBehind, EntriesBehind, Entries, Before
  <2>2. ASSUME NEW e \in E PROVE \E c \in thread : f[c] = e
    <3>1. PICK c \in CommentIDs : /\ comments[c] # Absent
                                  /\ makePostParentKey(comments[c]) = key
                                  /\ e = EntryOf(c, comments[c])
      BY DEF EntriesBehind, Entries
    <3>2. c \in thread
      BY <3>1 DEF ThreadBehind, EntriesBehind, Before
    <3> QED BY <3>1, <3>2
  <2> QED BY <2>1, <2>2
<1>5. E \subseteq Entry /\ E \subseteq AnyEntry
  BY <1>0, EntriesAreEntries, EntryIsAnyEntry DEF EntriesBehind
<1>6. \A c, d \in thread : <<c, d>> \in R => <<f[c], f[d]>> \in ListOrder(key)
  <2> TAKE c, d \in thread
  <2>1. f[c] \in AnyEntry /\ f[d] \in AnyEntry
    BY <1>4, <1>5
  <2>2. Below(c, d) => Before(key, f[c], f[d])
    BY <1>3 DEF Below, Before
  <2>3. <<c, d>> \in R => Below(c, d)
    OBVIOUS
  <2> HIDE DEF f, R, thread
  <2> QED BY <2>1, <2>2, <2>3 DEF ListOrder
<1>7. Enumerates(rest, n, thread, R)
  <2>1. \A c, d \in thread : Below(c, d) => <<c, d>> \in R
    OBVIOUS
  <2> HIDE DEF thread, n, rest, R
  <2>2. IsAscending(rest, n, R)
    BY <1>1, <2>1 DEF IsAscending
  <2> QED BY <1>1, <2>2 DEF Enumerates
<1>8. Enumerates(t, n, E, ListOrder(key))
  <2> HIDE DEF thread, n, rest, R, E, f
  <2>1. Enumerates([i \in 1..n |-> f[rest[i]]], n, E, ListOrder(key))
    BY <1>4, <1>6, <1>7, EnumerationIsMapped
  <2> QED BY <2>1
<1> HIDE DEF n, rest, l, E, thread
<1>9. /\ m \in 0..n
      /\ \A i \in 1..n : rest[i] \in thread /\ t[i] = EntryOf(rest[i], comments[rest[i]])
  BY <1>0, <1>1, <1>3
<1>10. /\ PageFrom(rest, l).comments = SubSeq(rest, 1, m)
       /\ PageFrom(rest, l).nextCursor = IF n > l THEN t[l] ELSE NoCursor
  <2>1. n > l => l \in 1..n
    BY <1>0, <1>1
  <2>2. PageFrom(rest, l).comments = SubSeq(rest, 1, m)
    BY <1>1 DEF PageFrom
  <2>3. PageFrom(rest, l).nextCursor = IF n > l THEN t[l] ELSE NoCursor
    BY <1>1, <1>9, <2>1 DEF PageFrom
  <2> QED BY <2>2, <2>3
<1>11. (PageFrom(rest, l).nextCursor # NoCursor) = (n > l)
  <2>1. CASE n > l
    <3> HIDE DEF t
    <3>1. l \in 1..n
      BY <1>0, <1>1, <2>1
    <3>2. t[l] \in E
      BY <1>8, <3>1 DEF Enumerates
    <3>3. t[l] # NoCursor
      BY <1>5, <3>2, NoCursorIsNoPlace
    <3> QED BY <1>10, <2>1, <3>3
  <2>2. CASE ~ n > l
    BY <1>10, <2>2
  <2> QED BY <2>1, <2>2
<1>12. [i \in 1..Len(SubSeq(rest, 1, m)) |-> EntryOf(SubSeq(rest, 1, m)[i], comments[SubSeq(rest, 1, m)[i]])]
         = SubSeq(t, 1, m)
  <2>1. SubSeq(rest, 1, m) = [i \in 1..m |-> rest[i]] /\ Len(SubSeq(rest, 1, m)) = m
    BY <1>0, <1>1, <1>9
  <2>2. SubSeq(t, 1, m) = [i \in 1..m |-> t[i]]
    BY <1>0, <1>1, <1>9
  <2>3. \A i \in 1..m : i \in 1..n
    BY <1>0, <1>1, <1>9
  <2> HIDE DEF t, m
  <2> QED BY <1>9, <2>1, <2>2, <2>3
<1>13. CommentsPage(key, limit, cursor) = Cut(t, n, l)
  <2> HIDE DEF t, m
  <2>1. CommentsPage(key, limit, cursor) =
          Connection([i \in 1..Len(PageFrom(rest, l).comments) |->
                        EntryOf(PageFrom(rest, l).comments[i], comments[PageFrom(rest, l).comments[i]])],
                     PageFrom(rest, l).nextCursor # NoCursor)
    BY <1>2 DEF CommentsPage, l
  <2>2. PageFrom(rest, l).comments = SubSeq(rest, 1, m)
    BY <1>10
  <2> QED BY <1>11, <1>12, <2>1, <2>2 DEF Cut, m
<1> HIDE DEF t
<1> QED BY <1>8, <1>13 DEF E, l

\* The posts behind a cursor, newest first.
PostsBehind(cursor) ==
  {p \in StoredPosts : cursor = NoCursor \/ isPostAfterCursor(p, cursor)}

PostOrder ==
  {pq \in StoredPosts \X StoredPosts :
     isPostAfterCursor(pq[2], EntryOf(pq[1], posts[pq[1]]))}

LEMMA PostsAreOrdered ==
  ASSUME StoreInv, NEW S \in SUBSET StoredPosts
  PROVE  TotalOrder(PostOrder, S)
<1>1. \A p \in S : p \in StoredPosts /\ p \in Nat /\ posts[p].createdAt \in Nat
  BY IDsAreOrdered, TimesAreOrdered DEF StoreInv, TypeOK, Post, StoredPosts
<1>2. \A p, q \in S : <<p, q>> \in PostOrder
        <=> \/ posts[q].createdAt < posts[p].createdAt
            \/ posts[q].createdAt = posts[p].createdAt /\ q < p
  <2> TAKE p, q \in S
  <2>1. <<p, q>> \in PostOrder <=> isPostAfterCursor(q, EntryOf(p, posts[p]))
    BY <1>1 DEF PostOrder
  <2>2. isPostAfterCursor(q, EntryOf(p, posts[p]))
          <=> \/ posts[q].createdAt < posts[p].createdAt
              \/ posts[q].createdAt = posts[p].createdAt /\ q < p
    BY DEF isPostAfterCursor, EntryOf
  <2> QED BY <2>1, <2>2
<1>3. Asymmetric(PostOrder, S)
  BY <1>1, <1>2 DEF Asymmetric
<1>4. ASSUME NEW p \in S, NEW q \in S, NEW r \in S, <<p, q>> \in PostOrder, <<q, r>> \in PostOrder
      PROVE  <<p, r>> \in PostOrder
  <2>1. /\ p \in Nat /\ q \in Nat /\ r \in Nat /\ posts[p].createdAt \in Nat
        /\ posts[q].createdAt \in Nat /\ posts[r].createdAt \in Nat
    BY <1>1
  <2>2. posts[q].createdAt < posts[p].createdAt \/ (posts[q].createdAt = posts[p].createdAt /\ q < p)
    BY <1>2, <1>4
  <2>3. posts[r].createdAt < posts[q].createdAt \/ (posts[r].createdAt = posts[q].createdAt /\ r < q)
    BY <1>2, <1>4
  <2>4. posts[r].createdAt < posts[p].createdAt \/ (posts[r].createdAt = posts[p].createdAt /\ r < p)
    BY <2>1, <2>2, <2>3
  <2> QED BY <1>2, <2>4
<1>5. ASSUME NEW p \in S, NEW q \in S, p # q PROVE <<p, q>> \in PostOrder \/ <<q, p>> \in PostOrder
  <2>1. p \in Nat /\ q \in Nat /\ posts[p].createdAt \in Nat /\ posts[q].createdAt \in Nat
    BY <1>1
  <2>2. \/ posts[q].createdAt < posts[p].createdAt \/ (posts[q].createdAt = posts[p].createdAt /\ q < p)
        \/ posts[p].createdAt < posts[q].createdAt \/ (posts[p].createdAt = posts[q].createdAt /\ p < q)
    BY <1>5, <2>1
  <2> QED BY <1>2, <2>2
<1> QED BY <1>3, <1>4, <1>5 DEF TotalOrder

LEMMA PostsAreEnumerated ==
  ASSUME StoreInv, NEW cursor
  PROVE  \E n, t : Enumerates(t, n, PostsBehind(cursor), PostOrder)
<1>1. PostsBehind(cursor) \in SUBSET StoredPosts
  BY DEF PostsBehind
<1>2. IsFiniteSet(PostsBehind(cursor))
  BY <1>1, FS_Subset DEF StoreInv, StoreIsFinite
<1>3. TotalOrder(PostOrder, PostsBehind(cursor))
  BY <1>1, PostsAreOrdered
<1> QED BY <1>2, <1>3, EnumerationExists

\* The cut of the posts by List.
LEMMA ListPostsCuts ==
  ASSUME StoreInv, NEW cursor, NEW n, NEW t, Enumerates(t, n, PostsBehind(cursor), PostOrder),
         NEW limit \in Nat \ {0}
  PROVE  ListPosts(limit, cursor) =
           [posts      |-> SubSeq(t, 1, IF n <= limit THEN n ELSE limit),
            nextCursor |-> IF n > limit THEN EntryOf(t[limit], posts[t[limit]]) ELSE NoCursor]
<1> DEFINE behind == PostsBehind(cursor)
           sorted == CHOOSE s \in [1..Cardinality(behind) -> behind] :
                       \A i, j \in 1..Cardinality(behind) :
                         i < j => isPostAfterCursor(s[j], EntryOf(s[i], posts[s[i]]))
           page == SubSeq(sorted, 1, Min({limit, Len(sorted)}))
           m == IF n <= limit THEN n ELSE limit
<1>1. /\ n \in Nat /\ t \in [1..n -> behind] /\ IsAscending(t, n, PostOrder)
      /\ behind \in SUBSET StoredPosts
  BY DEF Enumerates, PostsBehind
<1>2. /\ Cardinality(behind) = n
      /\ \A s \in [1..n -> behind] : IsAscending(s, n, PostOrder) <=> s = t
  <2>1. Asymmetric(PostOrder, behind)
    BY <1>1, PostsAreOrdered DEF TotalOrder
  <2> QED BY <2>1, AscendingIsTheEnumeration
<1>3. ASSUME NEW s \in [1..n -> behind]
      PROVE  (\A i, j \in 1..n : i < j => isPostAfterCursor(s[j], EntryOf(s[i], posts[s[i]])))
               <=> IsAscending(s, n, PostOrder)
  <2>1. \A i \in 1..n : s[i] \in StoredPosts
    BY <1>1
  <2> QED BY <2>1 DEF IsAscending, PostOrder
<1> HIDE DEF behind
<1>4. sorted = t
  BY <1>1, <1>2, <1>3
<1>5. ListPosts(limit, cursor)
        = [posts      |-> page,
           nextCursor |-> IF Len(sorted) > limit
                          THEN EntryOf(page[limit], posts[page[limit]]) ELSE NoCursor]
  <2>1. ~ limit <= 0
    OBVIOUS
  <2> QED BY <2>1 DEF ListPosts, Ascending, behind, PostsBehind, StoredPosts
<1> HIDE DEF sorted
<1>6. Len(t) = n
  BY <1>1
<1>7. Min({limit, n}) = m
  BY <1>1, MinOfTwo
<1>8. page = SubSeq(t, 1, m)
  BY <1>4, <1>6, <1>7
<1>9. n > limit => page[limit] = t[limit]
  <2> SUFFICES ASSUME n > limit PROVE page[limit] = t[limit]
    OBVIOUS
  <2>1. m = limit /\ limit \in 1..limit
    BY <1>1
  <2>2. \A i \in 1..limit : t[i] \in behind
    BY <1>1
  <2>3. SubSeq(t, 1, limit)[limit] = t[limit]
    BY <2>1, <2>2, SubSeqProperties
  <2> QED BY <1>8, <2>1, <2>3
<1> HIDE DEF page, m
<1> QED BY <1>4, <1>5, <1>6, <1>8, <1>9 DEF m

\* A page of the list of posts.
LEMMA PostsPageIsCut ==
  ASSUME StoreInv, NEW cursor \in AnyEntry \cup {NoCursor}, NEW limit \in Limits
  PROVE  \E n, t : /\ Enumerates(t, n, EntriesBehind(AllPosts, cursor), ListOrder(AllPosts))
                   /\ PostsPage(limit, cursor) = Cut(t, n, normalizePageLimit(limit))
<1> DEFINE behind == PostsBehind(cursor)
           l == normalizePageLimit(limit)
           E == EntriesBehind(AllPosts, cursor)
           f == [p \in behind |-> EntryOf(p, posts[p])]
<1>0. TypeOK /\ l \in Nat \ {0}
  BY LimitIsPositive DEF StoreInv
<1>1. PICK n, rest : Enumerates(rest, n, behind, PostOrder)
  BY PostsAreEnumerated
<1> DEFINE t == [i \in 1..n |-> f[rest[i]]]
           m == IF n <= l THEN n ELSE l
<1>2. n \in Nat /\ rest \in [1..n -> behind] /\ Len(rest) = n
  BY <1>1 DEF Enumerates
<1>3. E \subseteq [createdAt : Times, id : PostIDs] /\ E \subseteq AnyEntry
  BY <1>0, EntriesAreEntries, EntryIsAnyEntry DEF EntriesBehind
<1>4. f \in [behind -> E] /\ \A e \in E : \E p \in behind : f[p] = e
  <2>1. ASSUME NEW p \in StoredPosts
        PROVE  isPostAfterCursor(p, cursor) <=> Before(AllPosts, cursor, EntryOf(p, posts[p]))
    BY DEF isPostAfterCursor, Before, Precedes, EntryOf
  <2>2. ASSUME NEW p \in behind PROVE f[p] \in E
    BY <2>1 DEF PostsBehind, EntriesBehind, Entries, StoredPosts
  <2>3. ASSUME NEW e \in E PROVE \E p \in behind : f[p] = e
    <3>1. PICK p \in StoredPosts : e = EntryOf(p, posts[p])
      BY DEF EntriesBehind, Entries, StoredPosts
    <3>2. cursor = NoCursor \/ Before(AllPosts, cursor, e)
      BY DEF EntriesBehind
    <3>3. p \in behind
      BY <2>1, <3>1, <3>2 DEF PostsBehind
    <3> QED BY <3>1, <3>3
  <2> QED BY <2>2, <2>3
<1>5. \A p, q \in behind : <<p, q>> \in PostOrder => <<f[p], f[q]>> \in ListOrder(AllPosts)
  <2> TAKE p, q \in behind
  <2>1. f[p] \in AnyEntry /\ f[q] \in AnyEntry
    BY <1>3, <1>4
  <2>2. <<p, q>> \in PostOrder => Before(AllPosts, f[p], f[q])
    BY DEF PostOrder, Before, isPostAfterCursor, Precedes, EntryOf
  <2> HIDE DEF f, behind
  <2> QED BY <2>1, <2>2 DEF ListOrder
<1>6. Enumerates(t, n, E, ListOrder(AllPosts))
  <2> HIDE DEF behind, E, f
  <2>1. Enumerates([i \in 1..n |-> f[rest[i]]], n, E, ListOrder(AllPosts))
    BY <1>1, <1>4, <1>5, EnumerationIsMapped
  <2> QED BY <2>1
<1>7. /\ ListPosts(l, cursor).posts = SubSeq(rest, 1, m)
      /\ ListPosts(l, cursor).nextCursor
           = IF n > l THEN EntryOf(rest[l], posts[rest[l]]) ELSE NoCursor
  <2>1. ListPosts(l, cursor) =
           [posts      |-> SubSeq(rest, 1, IF n <= l THEN n ELSE l),
            nextCursor |-> IF n > l THEN EntryOf(rest[l], posts[rest[l]]) ELSE NoCursor]
    <3> HIDE DEF l, behind
    <3> QED BY <1>0, <1>1, ListPostsCuts DEF behind
  <2> HIDE DEF l
  <2> DEFINE next == IF n > l THEN EntryOf(rest[l], posts[rest[l]]) ELSE NoCursor
             ids == SubSeq(rest, 1, m)
  <2>2. ListPosts(l, cursor) = [posts |-> ids, nextCursor |-> next]
    BY <2>1
  <2> HIDE DEF next, ids
  <2>3. ListPosts(l, cursor).posts = ids /\ ListPosts(l, cursor).nextCursor = next
    BY <2>2
  <2> QED BY <2>3 DEF next, ids
<1>8. m \in 0..n /\ \A i \in 1..n : rest[i] \in behind /\ t[i] = EntryOf(rest[i], posts[rest[i]])
  <2> HIDE DEF l, behind
  <2> QED BY <1>0, <1>2
<1> HIDE DEF l, E, behind, f
<1>9. (ListPosts(l, cursor).nextCursor # NoCursor) = (n > l)
  <2>1. CASE n > l
    <3>1. l \in 1..n
      BY <1>0, <1>2, <2>1
    <3>2. ListPosts(l, cursor).nextCursor = t[l]
      BY <1>7, <1>8, <2>1, <3>1
    <3> HIDE DEF t
    <3>3. t[l] \in E
      BY <1>6, <3>1 DEF Enumerates
    <3>4. t[l] # NoCursor
      BY <1>3, <3>3, NoCursorIsNoPlace
    <3> QED BY <2>1, <3>2, <3>4
  <2>2. CASE ~ n > l
    BY <1>7, <2>2
  <2> QED BY <2>1, <2>2
<1>10. [i \in 1..Len(SubSeq(rest, 1, m)) |-> EntryOf(SubSeq(rest, 1, m)[i], posts[SubSeq(rest, 1, m)[i]])]
         = SubSeq(t, 1, m)
  <2>1. SubSeq(rest, 1, m) = [i \in 1..m |-> rest[i]] /\ Len(SubSeq(rest, 1, m)) = m
    BY <1>0, <1>2, <1>8
  <2>2. SubSeq(t, 1, m) = [i \in 1..m |-> t[i]]
    BY <1>0, <1>2, <1>8
  <2>3. \A i \in 1..m : i \in 1..n
    BY <1>0, <1>2, <1>8
  <2> HIDE DEF t, m
  <2> QED BY <1>8, <2>1, <2>2, <2>3
<1>11. PostsPage(limit, cursor) = Cut(t, n, l)
  <2> HIDE DEF t, m
  <2>1. PostsPage(limit, cursor) =
          Connection([i \in 1..Len(ListPosts(l, cursor).posts) |->
                        EntryOf(ListPosts(l, cursor).posts[i], posts[ListPosts(l, cursor).posts[i]])],
                     ListPosts(l, cursor).nextCursor # NoCursor)
    BY DEF PostsPage, l
  <2> QED BY <1>7, <1>9, <1>10, <2>1 DEF Cut, m
<1> HIDE DEF t
<1> QED BY <1>6, <1>11 DEF E, l

(***************************************************************************)
(* What a client learns from a page.                                       *)
(***************************************************************************)
PageReads(page, list, cursor) ==
  /\ page.hasNextPage \in BOOLEAN
  /\ page.edges \in Seq(EntriesBehind(list, cursor))
  /\ \A i, j \in 1..Len(page.edges) : i < j => Before(list, page.edges[i], page.edges[j])
  /\ ~ page.hasNextPage => EntriesBehind(list, cursor) \subseteq ToSet(page.edges)
  /\ page.hasNextPage =>
       /\ page.endCursor \in EntriesBehind(list, cursor)
       /\ \A i \in 1..Len(page.edges) : \/ page.edges[i] = page.endCursor
                                        \/ Before(list, page.edges[i], page.endCursor)
       /\ \A e \in EntriesBehind(list, cursor) : \/ Before(list, page.endCursor, e)
                                                 \/ e \in ToSet(page.edges)

\* Before is a strict order on the places of a list.
LEMMA BeforeIsAnOrder ==
  ASSUME NEW list, NEW a \in AnyEntry, NEW b \in AnyEntry, NEW c \in AnyEntry
  PROVE  /\ Before(list, a, b) /\ Before(list, b, c) => Before(list, a, c)
         /\ Before(list, a, b) => ~ Before(list, b, a)
<1>1. /\ a.createdAt \in Nat /\ b.createdAt \in Nat /\ c.createdAt \in Nat
      /\ a.id \in Nat /\ b.id \in Nat /\ c.id \in Nat
  BY IDsAreOrdered, TimesAreOrdered DEF AnyEntry
<1> QED BY <1>1 DEF Before, Precedes

LEMMA CutReads ==
  ASSUME NEW list, NEW cursor, NEW n, NEW t, NEW limit \in Nat \ {0},
         Enumerates(t, n, EntriesBehind(list, cursor), ListOrder(list)),
         EntriesBehind(list, cursor) \subseteq AnyEntry
  PROVE  PageReads(Cut(t, n, limit), list, cursor)
<1> DEFINE E == EntriesBehind(list, cursor)
           m == IF n <= limit THEN n ELSE limit
           page == Cut(t, n, limit)
           edges == SubSeq(t, 1, m)
<1>1. /\ n \in Nat /\ t \in [1..n -> E]
      /\ \A e \in E : \E i \in 1..n : t[i] = e
  BY DEF Enumerates
<1>2. \A i, j \in 1..n : i < j => Before(list, t[i], t[j])
  BY DEF Enumerates, IsAscending, ListOrder
<1>3. /\ page.edges = edges /\ page.hasNextPage = (n > limit)
      /\ page.endCursor = IF edges = <<>> THEN NoCursor ELSE edges[Len(edges)]
  BY DEF Cut, Connection, endCursor, Last
<1> HIDE DEF E
<1>4. m \in 0..n /\ \A i \in 1..m : i \in 1..n
  BY <1>1
<1>5. edges \in Seq(E) /\ Len(edges) = m /\ \A i \in 1..m : edges[i] = t[i]
  <2>1. \A i \in 1..m : t[i] \in E
    BY <1>1, <1>4
  <2>2. m \in Int /\ (1 <= m => m - 1 + 1 = m) /\ m - 1 + 1 = m /\ (m < 1 => m = 0)
    BY <1>1
  <2> HIDE DEF m
  <2> QED BY <2>1, <2>2, SubSeqProperties
<1> HIDE DEF page, edges
<1>6. \A i, j \in 1..Len(edges) : i < j => Before(list, edges[i], edges[j])
  <2> HIDE DEF m
  <2> QED BY <1>2, <1>4, <1>5
<1>7. ASSUME NEW i \in 1..m PROVE t[i] \in ToSet(edges)
  <2>1. i \in 1..Len(edges) /\ edges[i] = t[i]
    BY <1>5, <1>7
  <2>2. i \in DOMAIN edges
    BY <1>5, <2>1
  <2> QED BY <2>1, <2>2 DEF ToSet
<1>8. ASSUME ~ n > limit PROVE E \subseteq ToSet(edges)
  <2>1. m = n
    BY <1>1, <1>8
  <2> HIDE DEF m
  <2> QED BY <1>1, <1>7, <2>1
<1>9. ASSUME n > limit
      PROVE  /\ page.endCursor = t[limit] /\ t[limit] \in E
             /\ \A i \in 1..Len(edges) : edges[i] = t[limit] \/ Before(list, edges[i], t[limit])
             /\ \A e \in E : Before(list, t[limit], e) \/ e \in ToSet(edges)
  <2>1. m = limit /\ limit \in 1..n
    BY <1>1, <1>9
  <2> HIDE DEF m
  <2>2. Len(edges) = limit /\ edges # <<>> /\ edges[limit] = t[limit]
    BY <1>5, <2>1
  <2>3. page.endCursor = t[limit]
    BY <1>3, <2>2
  <2>4. t[limit] \in E
    BY <1>1, <2>1
  <2>5. ASSUME NEW i \in 1..Len(edges) PROVE edges[i] = t[limit] \/ Before(list, edges[i], t[limit])
    <3>1. i \in 1..limit /\ edges[i] = t[i] /\ i \in 1..n
      BY <1>4, <1>5, <2>1, <2>2
    <3> QED BY <1>2, <2>1, <3>1
  <2>6. ASSUME NEW e \in E PROVE Before(list, t[limit], e) \/ e \in ToSet(edges)
    <3>1. PICK i \in 1..n : t[i] = e
      BY <1>1
    <3>2. CASE i <= limit
      <4>1. i \in 1..m
        BY <2>1, <3>2
      <4> QED BY <1>7, <3>1, <4>1
    <3>3. CASE limit < i
      BY <1>2, <2>1, <3>1, <3>3
    <3> QED BY <3>2, <3>3
  <2> QED BY <2>3, <2>4, <2>5, <2>6
<1>10. (n > limit) \in BOOLEAN
  OBVIOUS
<1>11. PageReads(page, list, cursor)
  BY <1>3, <1>5, <1>6, <1>8, <1>9, <1>10 DEF PageReads, E
<1> QED BY <1>11 DEF page

\* What is known of a client that has started: the pages it was given so far are in
\* order, and while it goes on they end at its cursor.
WalkInv(walk) ==
  /\ walk \in Walk
  /\ walk.list # AllPosts => walk.cursor \in Entry \cup {NoCursor}
  /\ \A i, j \in 1..Len(walk.answered) :
       i < j => Before(walk.list, walk.answered[i], walk.answered[j])
  /\ walk.pc \in {"look up", "read"} =>
       IF walk.cursor = NoCursor THEN walk.answered = <<>>
       ELSE \A i \in 1..Len(walk.answered) :
              \/ walk.answered[i] = walk.cursor
              \/ Before(walk.list, walk.answered[i], walk.cursor)

LEMMA PageIsRead ==
  ASSUME StoreInv, NEW walk, WalkInv(walk)
  PROVE  /\ PageReads(PageOf(walk), walk.list, walk.cursor)
         /\ EntriesBehind(walk.list, walk.cursor) \subseteq AnyEntry
         /\ walk.list # AllPosts => EntriesBehind(walk.list, walk.cursor) \subseteq Entry
<1> DEFINE list == walk.list
           cursor == walk.cursor
           limit == walk.limit
<1>1. /\ limit \in Limits /\ cursor \in AnyEntry \cup {NoCursor}
      /\ list \in ThreadsRead \cup {AllPosts}
      /\ list # AllPosts => cursor \in Entry \cup {NoCursor}
  BY DEF WalkInv, Walk, Lists
<1>2. list # AllPosts => list \in Key
  BY <1>1, ThreadsAreTyped
<1>3. normalizePageLimit(limit) \in Nat \ {0}
  BY <1>1, LimitIsPositive
<1> HIDE DEF list, cursor, limit
<1>4. /\ EntriesBehind(list, cursor) \subseteq AnyEntry
      /\ list # AllPosts => EntriesBehind(list, cursor) \subseteq Entry
  <2>1. TypeOK
    BY DEF StoreInv
  <2> QED BY <1>2, <2>1, EntriesAreEntries, EntryIsAnyEntry DEF EntriesBehind
<1>5. \E n, t : /\ Enumerates(t, n, EntriesBehind(list, cursor), ListOrder(list))
                /\ PageOf(walk) = Cut(t, n, normalizePageLimit(limit))
  <2>1. CASE list = AllPosts
    <3>1. \E n, t : /\ Enumerates(t, n, EntriesBehind(AllPosts, cursor), ListOrder(AllPosts))
                    /\ PostsPage(limit, cursor) = Cut(t, n, normalizePageLimit(limit))
      BY <1>1, PostsPageIsCut
    <3>2. PageOf(walk) = PostsPage(limit, cursor)
      BY <2>1 DEF PageOf, list, cursor, limit
    <3> QED BY <2>1, <3>1, <3>2
  <2>2. CASE list # AllPosts
    <3>1. \E n, t : /\ Enumerates(t, n, EntriesBehind(list, cursor), ListOrder(list))
                    /\ CommentsPage(list, limit, cursor) = Cut(t, n, normalizePageLimit(limit))
      BY <1>1, <1>2, <2>2, ThreadPageIsCut
    <3>2. PageOf(walk) = CommentsPage(list, limit, cursor)
      BY <2>2 DEF PageOf, list, cursor, limit
    <3> QED BY <3>1, <3>2
  <2> QED BY <2>1, <2>2
<1>6. PageReads(PageOf(walk), list, cursor)
  BY <1>3, <1>4, <1>5, CutReads
<1> QED BY <1>4, <1>6 DEF list, cursor

\* Joining sequences joins what they hold.
LEMMA ConcatHolds ==
  ASSUME NEW S, NEW a \in Seq(S), NEW b \in Seq(S)
  PROVE  /\ a \o b \in Seq(S)
         /\ ToSet(a) \subseteq ToSet(a \o b) /\ ToSet(b) \subseteq ToSet(a \o b)
         /\ \A k \in 1..Len(a \o b) : \/ k \in 1..Len(a) /\ (a \o b)[k] = a[k]
                                      \/ /\ k - Len(a) \in 1..Len(b) /\ k > Len(a)
                                         /\ (a \o b)[k] = b[k - Len(a)]
<1>1. /\ a \o b \in Seq(S)
      /\ Len(a \o b) = Len(a) + Len(b)
      /\ \A k \in 1..Len(a) + Len(b) :
           (a \o b)[k] = IF k <= Len(a) THEN a[k] ELSE b[k - Len(a)]
  BY ConcatProperties
<1>2. Len(a) \in Nat /\ Len(b) \in Nat
  OBVIOUS
<1> DEFINE c == a \o b
<1> HIDE DEF c
<1>3. ASSUME NEW k \in 1..Len(a) PROVE a[k] \in ToSet(c)
  <2>1. k \in 1..Len(c) /\ c[k] = a[k]
    BY <1>1, <1>2 DEF c
  <2>2. k \in DOMAIN c
    BY <1>1, <2>1 DEF c
  <2> QED BY <2>1, <2>2 DEF ToSet
<1>4. ASSUME NEW k \in 1..Len(b) PROVE b[k] \in ToSet(c)
  <2>1. Len(a) + k \in 1..Len(c) /\ c[Len(a) + k] = b[k]
    BY <1>1, <1>2 DEF c
  <2>2. Len(a) + k \in DOMAIN c
    BY <1>1, <2>1 DEF c
  <2> QED BY <2>1, <2>2 DEF ToSet
<1>5. ToSet(a) \subseteq ToSet(c) /\ ToSet(b) \subseteq ToSet(c)
  <2>1. DOMAIN a = 1..Len(a) /\ DOMAIN b = 1..Len(b)
    OBVIOUS
  <2>2. ToSet(a) = {a[k] : k \in 1..Len(a)} /\ ToSet(b) = {b[k] : k \in 1..Len(b)}
    BY <2>1 DEF ToSet
  <2> QED BY <1>3, <1>4, <2>2
<1>6. \A k \in 1..Len(c) : \/ k \in 1..Len(a) /\ c[k] = a[k]
                           \/ k - Len(a) \in 1..Len(b) /\ k > Len(a) /\ c[k] = b[k - Len(a)]
  BY <1>1, <1>2 DEF c
<1> QED BY <1>1, <1>5, <1>6 DEF c

\* What ReadPage makes of the client.
Onward == {"look up", "read", "done"}

WalkOn(walk, page, next) ==
  [walk EXCEPT !.pc = next,
               !.answered = @ \o page.edges,
               !.cursor = IF page.hasNextPage THEN page.endCursor ELSE @]

\* A page goes on where the client was, and what the client passes by taking it is
\* on it.
LEMMA PageExtendsWalk ==
  ASSUME StoreInv, NEW walk, WalkInv(walk), walk.pc = "read",
         NEW page, page = PageOf(walk),
         NEW next \in Onward, next = "done" <=> ~ page.hasNextPage,
         NEW new, new = WalkOn(walk, page, next)
  PROVE  /\ WalkInv(new)
         /\ new.list = walk.list
         /\ ToSet(walk.answered) \subseteq ToSet(new.answered)
         /\ \A e \in Entries(walk.list) :
              Passed(new, e) => Passed(walk, e) \/ e \in ToSet(new.answered)
<1> DEFINE list == walk.list
           cursor == walk.cursor
           a == walk.answered
           b == page.edges
           E == EntriesBehind(list, cursor)
<1>1. /\ PageReads(page, list, cursor)
      /\ E \subseteq AnyEntry
      /\ list # AllPosts => E \subseteq Entry
  BY PageIsRead
<1>2. /\ new.list = list /\ new.limit = walk.limit /\ new.pc = next
      /\ new.answered = a \o b
      /\ new.cursor = IF page.hasNextPage THEN page.endCursor ELSE cursor
      /\ walk \in Walk
      /\ new = [pc |-> new.pc, list |-> new.list, limit |-> new.limit,
                cursor |-> new.cursor, answered |-> new.answered]
  BY DEF WalkInv, Walk, WalkOn
<1>3. /\ list \in Lists /\ walk.limit \in Limits /\ cursor \in AnyEntry \cup {NoCursor}
      /\ a \in Seq(AnyEntry)
      /\ list # AllPosts => cursor \in Entry \cup {NoCursor}
      /\ IF cursor = NoCursor THEN a = <<>>
         ELSE \A i \in 1..Len(a) : a[i] = cursor \/ Before(list, a[i], cursor)
      /\ \A i, j \in 1..Len(a) : i < j => Before(list, a[i], a[j])
  BY DEF WalkInv, Walk
<1>4. /\ b \in Seq(E)
      /\ \A i, j \in 1..Len(b) : i < j => Before(list, b[i], b[j])
      /\ page.hasNextPage =>
           /\ page.endCursor \in E
           /\ \A i \in 1..Len(b) : b[i] = page.endCursor \/ Before(list, b[i], page.endCursor)
           /\ \A e \in E : Before(list, page.endCursor, e) \/ e \in ToSet(b)
      /\ ~ page.hasNextPage => E \subseteq ToSet(b)
  BY <1>1 DEF PageReads
<1>5. \A e \in E : cursor = NoCursor \/ Before(list, cursor, e)
  BY DEF EntriesBehind
<1> DEFINE c == a \o b
<1> HIDE DEF c, a, b, list, cursor, E
<1>6. /\ b \in Seq(AnyEntry)
      /\ \A i \in 1..Len(b) : b[i] \in E /\ b[i] \in AnyEntry
      /\ Len(b) \in Nat
  <2>1. b \in Seq(E) /\ E \subseteq AnyEntry
    BY <1>1, <1>4
  <2> QED BY <2>1
<1>7. /\ c \in Seq(AnyEntry)
      /\ ToSet(a) \subseteq ToSet(c) /\ ToSet(b) \subseteq ToSet(c)
      /\ \A k \in 1..Len(c) : \/ k \in 1..Len(a) /\ c[k] = a[k]
                              \/ /\ k - Len(a) \in 1..Len(b) /\ k > Len(a)
                                 /\ c[k] = b[k - Len(a)]
  <2>1. a \in Seq(AnyEntry) /\ b \in Seq(AnyEntry)
    BY <1>3, <1>6
  <2> QED BY <2>1, ConcatHolds DEF c
<1>8. Len(a) \in Nat /\ (\A i \in 1..Len(a) : a[i] \in AnyEntry) /\ Len(c) \in Nat
  <2>1. a \in Seq(AnyEntry) /\ c \in Seq(AnyEntry)
    BY <1>3, <1>7
  <2> QED BY <2>1
<1>9. new.answered = c
  BY <1>2 DEF c
<1>10. ASSUME NEW i \in 1..Len(a), NEW j \in 1..Len(b) PROVE Before(list, a[i], b[j])
  <2>1. cursor # NoCursor
    <3>1. a # <<>>
      BY <1>8, <1>10
    <3> QED BY <1>3, <3>1
  <2>2. Before(list, cursor, b[j]) /\ (a[i] = cursor \/ Before(list, a[i], cursor))
    BY <1>3, <1>5, <1>6, <2>1
  <2>3. cursor \in AnyEntry /\ a[i] \in AnyEntry /\ b[j] \in AnyEntry
    BY <1>3, <1>6, <1>8, <2>1
  <2> QED BY <2>2, <2>3, BeforeIsAnOrder
<1>11. ASSUME NEW i \in 1..Len(c), NEW j \in 1..Len(c), i < j PROVE Before(list, c[i], c[j])
  <2>1. CASE i \in 1..Len(a) /\ c[i] = a[i] /\ j \in 1..Len(a) /\ c[j] = a[j]
    BY <1>3, <1>11, <2>1
  <2>2. CASE /\ i \in 1..Len(a) /\ c[i] = a[i]
             /\ j - Len(a) \in 1..Len(b) /\ c[j] = b[j - Len(a)]
    BY <1>10, <2>2
  <2>3. CASE /\ i - Len(a) \in 1..Len(b) /\ c[i] = b[i - Len(a)]
             /\ j - Len(a) \in 1..Len(b) /\ c[j] = b[j - Len(a)]
    <3>1. i - Len(a) < j - Len(a)
      BY <1>8, <1>11
    <3> QED BY <1>4, <2>3, <3>1
  <2>4. \/ i \in 1..Len(a) /\ c[i] = a[i]
        \/ i - Len(a) \in 1..Len(b) /\ i > Len(a) /\ c[i] = b[i - Len(a)]
    BY <1>7
  <2>5. \/ j \in 1..Len(a) /\ c[j] = a[j]
        \/ j - Len(a) \in 1..Len(b) /\ j > Len(a) /\ c[j] = b[j - Len(a)]
    BY <1>7
  <2>6. i \in Int /\ j \in Int
    BY <1>8
  <2>7. ~ (i > Len(a) /\ j \in 1..Len(a))
    BY <1>8, <1>11, <2>6
  <2> QED BY <2>1, <2>2, <2>3, <2>4, <2>5, <2>7
<1>12. ASSUME page.hasNextPage, NEW k \in 1..Len(c)
       PROVE  c[k] = page.endCursor \/ Before(list, c[k], page.endCursor)
  <2>1. CASE k \in 1..Len(a) /\ c[k] = a[k]
    <3>0. a # <<>>
      BY <1>8, <2>1
    <3>1. cursor # NoCursor
      BY <1>3, <3>0
    <3>2. Before(list, cursor, page.endCursor) /\ (a[k] = cursor \/ Before(list, a[k], cursor))
      BY <1>3, <1>4, <1>5, <1>12, <2>1, <3>1
    <3>3. cursor \in AnyEntry /\ a[k] \in AnyEntry /\ page.endCursor \in AnyEntry
      BY <1>1, <1>3, <1>4, <1>8, <1>12, <2>1, <3>1
    <3> QED BY <2>1, <3>2, <3>3, BeforeIsAnOrder
  <2>2. CASE k - Len(a) \in 1..Len(b) /\ c[k] = b[k - Len(a)]
    BY <1>4, <1>12, <2>2
  <2> QED BY <1>7, <2>1, <2>2
<1>13. new \in Walk
  <2>1. new.cursor \in AnyEntry \cup {NoCursor}
    BY <1>1, <1>2, <1>3, <1>4
  <2>2. new.pc \in {"look up", "read", "done", "not found"}
    BY <1>2 DEF Onward
  <2>3. new.list \in Lists /\ new.limit \in Limits /\ new.answered \in Seq(AnyEntry)
    BY <1>2, <1>3, <1>7, <1>9
  <2> QED BY <1>2, <2>1, <2>2, <2>3 DEF Walk
<1>14. new.list # AllPosts => new.cursor \in Entry \cup {NoCursor}
  BY <1>1, <1>2, <1>3, <1>4
<1>15. new.pc \in {"look up", "read"} =>
         IF new.cursor = NoCursor THEN new.answered = <<>>
         ELSE \A i \in 1..Len(new.answered) :
                \/ new.answered[i] = new.cursor
                \/ Before(new.list, new.answered[i], new.cursor)
  <2> SUFFICES ASSUME new.pc \in {"look up", "read"}
               PROVE  /\ new.cursor # NoCursor
                      /\ \A i \in 1..Len(new.answered) :
                           \/ new.answered[i] = new.cursor
                           \/ Before(new.list, new.answered[i], new.cursor)
    OBVIOUS
  <2>1. page.hasNextPage
    BY <1>2
  <2>2. new.cursor = page.endCursor /\ page.endCursor \in AnyEntry
    BY <1>1, <1>2, <1>4, <2>1
  <2>3. new.cursor # NoCursor
    BY <2>2, NoCursorIsNoPlace
  <2> QED BY <1>2, <1>9, <1>12, <2>1, <2>2, <2>3
<1>16. WalkInv(new)
  <2>1. \A i, j \in 1..Len(new.answered) :
          i < j => Before(new.list, new.answered[i], new.answered[j])
    BY <1>2, <1>9, <1>11
  <2> QED BY <1>13, <1>14, <1>15, <2>1 DEF WalkInv
<1>17. ASSUME NEW e \in Entries(list), Passed(new, e)
       PROVE  Passed(walk, e) \/ e \in ToSet(new.answered)
  <2>1. CASE e \in E
    <3>1. e \in ToSet(b)
      <4>1. CASE page.hasNextPage
        <5>1. new.pc # "done" /\ new.cursor = page.endCursor /\ new.list = list
          BY <1>2, <4>1
        <5>2. ~ Before(list, page.endCursor, e)
          BY <1>17, <5>1 DEF Passed
        <5> QED BY <1>4, <2>1, <4>1, <5>2
      <4>2. CASE ~ page.hasNextPage
        BY <1>4, <2>1, <4>2
      <4> QED BY <4>1, <4>2
    <3> QED BY <1>7, <1>9, <3>1
  <2>2. CASE e \notin E
    <3>1. cursor # NoCursor /\ ~ Before(list, cursor, e)
      BY <2>2, <1>17 DEF EntriesBehind, E
    <3> QED BY <3>1 DEF Passed, cursor, list
  <2> QED BY <2>1, <2>2
<1> QED BY <1>2, <1>7, <1>9, <1>16, <1>17 DEF list, a

(***************************************************************************)
(* Walks of clients.                                                       *)
(***************************************************************************)
LEMMA StepsOfTheStore ==
  /\ PagingInit => Init
  /\ [PagingNext]_pagingVars => [StoreStep]_storeVars
<1>1. PagingInit => Init
  BY DEF PagingInit
<1>2. ASSUME [PagingNext]_pagingVars PROVE [StoreStep]_storeVars
  <2>1. ASSUME NEW r \in Readers, NEW list \in Lists, NEW limit \in Limits, Start(r, list, limit)
        PROVE  UNCHANGED storeVars
    BY <2>1 DEF Start, storeVars
  <2>2. ASSUME NEW r \in Readers, LookUp(r) \/ ReadPage(r) PROVE UNCHANGED storeVars
    BY <2>2 DEF LookUp, ReadPage, storeVars
  <2>3. CASE StoreMoves
    BY <2>3 DEF StoreMoves, StoreStep
  <2>4. CASE UNCHANGED pagingVars
    BY <2>4 DEF pagingVars, storeVars
  <2> QED BY <1>2, <2>1, <2>2, <2>3, <2>4 DEF PagingNext
<1> QED BY <1>1, <1>2

\* Clients that page through the lists see every state through the store's own
\* operations: what is proved of the store holds under them.
THEOREM WalksUseTheStore == PagingSpec => Spec
BY StepsOfTheStore, PTL DEF PagingSpec, Spec

ReaderInv == \A r \in Readers : reader[r] # Unstarted => WalkInv(reader[r])

\* What a client has passed it was given, except for what is in l.
MissedBy(walk, l) ==
  \A e \in Entries(walk.list) : Passed(walk, e) => e \in ToSet(walk.answered) \cup l

PagingInv == PagingTypeOK /\ ReaderInv /\ MissedOnlyIfLate

LEMMA StartedIsAWalk ==
  /\ \A walk \in Walk : walk # Unstarted /\ walk.pc # "unstarted"
  /\ Unstarted.pc = "unstarted"
<1>1. ASSUME NEW walk \in Walk PROVE walk.pc \in {"look up", "read", "done", "not found"}
  BY DEF Walk
<1>2. Unstarted.pc = "unstarted"
  BY DEF Unstarted
<1> QED BY <1>1, <1>2

LEMMA SameEntries ==
  ASSUME UNCHANGED <<posts, comments>>, NEW walk, NEW l
  PROVE  MissedBy(walk, l) => MissedBy(walk, l)'
<1>1. Entries(walk.list)' = Entries(walk.list)
  BY DEF Entries
<1> QED BY <1>1 DEF MissedBy

\* One client moves.
LEMMA ReaderMoves ==
  ASSUME PagingInv, NEW r \in Readers, NEW new, WalkInv(new), MissedBy(new, late[r]),
         reader' = [reader EXCEPT ![r] = new],
         UNCHANGED <<posts, comments, usedPostIDs, usedCommentIDs, late>>
  PROVE  PagingInv'
<1>1. reader \in [Readers -> {Unstarted} \cup Walk] /\ new \in Walk
  BY DEF PagingInv, PagingTypeOK, WalkInv
<1>2. \A q \in Readers : reader'[q] = IF q = r THEN new ELSE reader[q]
  BY <1>1
<1>3. PagingTypeOK'
  BY <1>1 DEF PagingInv, PagingTypeOK
<1>4. ReaderInv'
  <2> SUFFICES ASSUME NEW q \in Readers, reader'[q] # Unstarted PROVE WalkInv(reader'[q])
    BY DEF ReaderInv, WalkInv
  <2> QED BY <1>2 DEF PagingInv, ReaderInv
<1>5. ASSUME NEW q \in Readers, reader'[q] # Unstarted
      PROVE  \A e \in Entries(reader[q].list)' :
               Passed(reader[q], e)' => e \in (ToSet(reader[q].answered) \cup late[q])'
  <2>1. PICK walk : walk = reader'[q]
    OBVIOUS
  <2>2. PICK l : l = late[q]
    OBVIOUS
  <2>3. MissedBy(walk, l)
    <3>1. CASE q = r
      BY <1>2, <2>1, <2>2, <3>1
    <3>2. CASE q # r
      BY <1>2, <1>5, <2>1, <2>2, <3>2 DEF PagingInv, MissedOnlyIfLate, MissedBy
    <3> QED BY <3>1, <3>2
  <2>4. MissedBy(walk, l)'
    BY <2>3, SameEntries
  <2>5. \A e \in Entries(walk.list)' : Passed(walk, e) => e \in ToSet(walk.answered) \cup l
    BY <2>4 DEF MissedBy, Passed, Before
  <2>6. l = late'[q]
    BY <2>2
  <2> QED BY <2>1, <2>5, <2>6 DEF Passed, Before, Entries
<1>6. MissedOnlyIfLate'
  BY <1>5 DEF MissedOnlyIfLate
<1> QED BY <1>3, <1>4, <1>6 DEF PagingInv

LEMMA ClientStepsKeepInv ==
  ASSUME StoreInv, PagingInv, NEW r \in Readers
  PROVE  /\ \A list \in Lists, limit \in Limits : Start(r, list, limit) => PagingInv'
         /\ LookUp(r) => PagingInv'
         /\ ReadPage(r) => PagingInv'
<1>1. reader[r] # Unstarted => WalkInv(reader[r]) /\ MissedBy(reader[r], late[r])
  BY DEF PagingInv, ReaderInv, MissedOnlyIfLate, MissedBy
<1>2. reader \in [Readers -> {Unstarted} \cup Walk]
  BY DEF PagingInv, PagingTypeOK
<1>3. PICK walk : walk = reader[r]
  OBVIOUS
<1>4. ASSUME NEW list \in Lists, NEW limit \in Limits, Start(r, list, limit) PROVE PagingInv'
  <2>1. PICK pc \in Onward : pc = IF list = AllPosts THEN "read" ELSE "look up"
    BY DEF Onward
  <2> DEFINE new == [pc |-> pc, list |-> list, limit |-> limit, cursor |-> NoCursor,
                     answered |-> <<>>]
  <2>2. WalkInv(new)
    <3>1. new \in Walk
      <4>1. <<>> \in Seq(AnyEntry)
        BY EmptySeq
      <4>2. pc \in {"look up", "read", "done", "not found"}
        BY DEF Onward
      <4> QED BY <4>1, <4>2 DEF Walk
    <3>2. new.answered = <<>> /\ new.cursor = NoCursor
      OBVIOUS
    <3>3. Len(new.answered) = 0
      BY <3>2
    <3>4. new.pc # "done"
      BY <2>1
    <3> HIDE DEF new
    <3> QED BY <3>1, <3>2, <3>3, <3>4 DEF WalkInv
  <2>3. \A e : ~ Passed(new, e)
    <3>1. new.pc # "done" /\ new.cursor = NoCursor
      BY <2>1
    <3> HIDE DEF new
    <3> QED BY <3>1 DEF Passed
  <2>4. MissedBy(new, late[r])
    BY <2>3 DEF MissedBy
  <2>5. reader' = [reader EXCEPT ![r] = new]
    BY <1>4, <2>1 DEF Start
  <2>6. UNCHANGED <<posts, comments, usedPostIDs, usedCommentIDs, late>>
    BY <1>4 DEF Start
  <2> HIDE DEF new
  <2> QED BY <2>2, <2>4, <2>5, <2>6, ReaderMoves
<1>5. ASSUME LookUp(r) PROVE PagingInv'
  <2>1. WalkInv(walk) /\ walk.pc = "look up" /\ walk \in Walk /\ MissedBy(walk, late[r])
    BY <1>1, <1>2, <1>3, <1>5, StartedIsAWalk DEF LookUp
  <2>2. PICK pc \in {"read", "not found"} : reader' = [reader EXCEPT ![r] = [walk EXCEPT !.pc = pc]]
    BY <1>3, <1>5 DEF LookUp
  <2> DEFINE new == [walk EXCEPT !.pc = pc]
  <2>3. /\ new \in Walk /\ new.pc = pc /\ new.list = walk.list /\ new.cursor = walk.cursor
        /\ new.answered = walk.answered
    BY <2>1 DEF Walk
  <2> HIDE DEF new
  <2>4. WalkInv(new)
    BY <2>1, <2>3 DEF WalkInv
  <2>5. MissedBy(new, late[r])
    BY <2>1, <2>3 DEF MissedBy, Passed
  <2>6. UNCHANGED <<posts, comments, usedPostIDs, usedCommentIDs, late>>
    BY <1>5 DEF LookUp
  <2>7. reader' = [reader EXCEPT ![r] = new]
    BY <2>2 DEF new
  <2> QED BY <2>4, <2>5, <2>6, <2>7, ReaderMoves
<1>6. ASSUME ReadPage(r) PROVE PagingInv'
  <2>1. WalkInv(walk) /\ walk.pc = "read" /\ MissedBy(walk, late[r])
    BY <1>1, <1>2, <1>3, <1>6, StartedIsAWalk DEF ReadPage
  <2>2. PICK page : page = PageOf(walk)
    OBVIOUS
  <2>3. PICK next \in Onward : next = IF ~ page.hasNextPage THEN "done"
                                      ELSE IF walk.list = AllPosts THEN "read" ELSE "look up"
    BY DEF Onward
  <2>4. next = "done" <=> ~ page.hasNextPage
    BY <2>3
  <2>5. PICK new : new = WalkOn(walk, page, next)
    OBVIOUS
  <2>6. /\ WalkInv(new)
        /\ new.list = walk.list
        /\ ToSet(walk.answered) \subseteq ToSet(new.answered)
        /\ \A e \in Entries(walk.list) : Passed(new, e) => Passed(walk, e) \/ e \in ToSet(new.answered)
    BY <2>1, <2>2, <2>4, <2>5, PageExtendsWalk
  <2>7. MissedBy(new, late[r])
    BY <2>1, <2>6 DEF MissedBy
  <2>8. reader' = [reader EXCEPT ![r] = new]
    BY <1>3, <1>6, <2>2, <2>3, <2>5 DEF ReadPage, WalkOn
  <2>9. UNCHANGED <<posts, comments, usedPostIDs, usedCommentIDs, late>>
    BY <1>6 DEF ReadPage
  <2> QED BY <2>6, <2>7, <2>8, <2>9, ReaderMoves
<1> QED BY <1>4, <1>5, <1>6

\* Whatever the store does, a client's list gains nothing that is not recorded.
LEMMA StoreMovesKeepInv ==
  ASSUME StoreInv, StoreInv', PagingInv, StoreMoves
  PROVE  PagingInv'
<1>1. reader' = reader
  BY DEF StoreMoves
<1>2. late' = [r \in Readers |->
                 IF reader[r] = Unstarted THEN {}
                 ELSE late[r] \cup {e \in (Entries(reader[r].list)') \ Entries(reader[r].list) :
                                      Passed(reader[r], e)}]
  BY DEF StoreMoves
<1>3. usedPostIDs' \subseteq PostIDs /\ usedCommentIDs' \subseteq CommentIDs
  BY DEF StoreMoves, PagingInv, PagingTypeOK
<1>4. ASSUME NEW r \in Readers, reader[r] # Unstarted
      PROVE  /\ Entries(reader[r].list)' \subseteq AnyEntry
             /\ late[r] \subseteq late'[r] /\ late'[r] \subseteq AnyEntry
             /\ \A e \in Entries(reader[r].list)' :
                  Passed(reader[r], e) => e \in ToSet(reader[r].answered) \cup late'[r]
  <2>1. reader[r] \in Walk
    BY <1>4 DEF PagingInv, PagingTypeOK
  <2>2. PICK walk \in Walk : walk = reader[r]
    BY <2>1
  <2>3. walk.list = AllPosts \/ walk.list \in Key
    BY ThreadsAreTyped DEF Walk, Lists
  <2>4. (/\ \A key \in Key : key # AllPosts => Entries(key) \subseteq Entry
         /\ Entries(AllPosts) \subseteq [createdAt : Times, id : PostIDs])'
    <3>1. TypeOK'
      BY DEF StoreInv
    <3> QED BY <3>1, EntriesAreEntries, PTL
  <2>5. Entries(walk.list)' \subseteq AnyEntry
    BY <2>3, <2>4, EntryIsAnyEntry
  <2>6. reader'[r] = walk
    BY <1>1, <2>2
  <2>7. late'[r] = late[r] \cup {e \in Entries(walk.list)' \ Entries(walk.list) : Passed(walk, e)}
    BY <1>2, <1>4, <2>2, <2>6
  <2>8. \A e \in Entries(walk.list) : Passed(walk, e) => e \in ToSet(walk.answered) \cup late[r]
    BY <1>4, <2>2 DEF PagingInv, MissedOnlyIfLate
  <2>9. late[r] \subseteq AnyEntry
    BY DEF PagingInv, PagingTypeOK
  <2>10. \A e \in Entries(walk.list)' : Passed(walk, e) => e \in ToSet(walk.answered) \cup late'[r]
    BY <2>7, <2>8
  <2> QED BY <2>2, <2>5, <2>6, <2>7, <2>9, <2>10
<1>5. PagingTypeOK'
  <2>1. \A r \in Readers : late'[r] \subseteq AnyEntry
    BY <1>2, <1>4
  <2>2. late' \in [Readers -> SUBSET AnyEntry]
    BY <1>2, <2>1
  <2> QED BY <1>1, <1>3, <2>2 DEF PagingInv, PagingTypeOK
<1>6. ReaderInv'
  BY <1>1 DEF PagingInv, ReaderInv, WalkInv
<1>7. MissedOnlyIfLate'
  BY <1>1, <1>4 DEF MissedOnlyIfLate
<1> QED BY <1>5, <1>6, <1>7 DEF PagingInv

LEMMA PagingInductive ==
  /\ PagingInit => PagingInv
  /\ StoreInv /\ StoreInv' /\ PagingInv /\ [PagingNext]_pagingVars => PagingInv'
<1>1. PagingInit => PagingInv
  BY DEF PagingInit, PagingInv, PagingTypeOK, ReaderInv, MissedOnlyIfLate
<1>2. ASSUME StoreInv, StoreInv', PagingInv, [PagingNext]_pagingVars PROVE PagingInv'
  <2>1. CASE UNCHANGED pagingVars
    BY <1>2, <2>1 DEF pagingVars, PagingInv, PagingTypeOK, ReaderInv, WalkInv, MissedOnlyIfLate, Entries
  <2>2. CASE StoreMoves
    BY <1>2, <2>2, StoreMovesKeepInv
  <2>3. ASSUME NEW r \in Readers, NEW list \in Lists, NEW limit \in Limits, Start(r, list, limit)
        PROVE  PagingInv'
    BY <1>2, <2>3, ClientStepsKeepInv
  <2>4. ASSUME NEW r \in Readers, LookUp(r) \/ ReadPage(r) PROVE PagingInv'
    BY <1>2, <2>4, ClientStepsKeepInv
  <2> QED BY <1>2, <2>1, <2>2, <2>3, <2>4 DEF PagingNext
<1> QED BY <1>1, <1>2

LEMMA PagingAlways == PagingSpec => [](StoreInv /\ PagingInv)
<1>1. PagingSpec => []StoreInv
  BY StepsOfTheStore, StoreInductive, PTL DEF PagingSpec
<1> QED BY <1>1, PagingInductive, PTL DEF PagingSpec

\* A client gets the entries of a list strictly in order over all its pages, for any
\* number of clients, lists and entries.
THEOREM PagesAlwaysAscend == PagingSpec => []PagesAscend
<1>1. PagingInv => PagesAscend
  BY DEF PagingInv, ReaderInv, WalkInv, PagesAscend
<1> QED BY <1>1, PagingAlways, PTL

\* What a client has passed and was not given was stored behind its back.
THEOREM NothingElseIsMissed == PagingSpec => []MissedOnlyIfLate
BY PagingAlways, PTL DEF PagingInv

(***************************************************************************)
(* Induction and loops without operators as parameters.                    *)
(***************************************************************************)
LEMMA CountingUp ==
  ASSUME NEW N \in Nat, NEW S, 0 \in S, \A i \in 1..N : i - 1 \in S => i \in S
  PROVE  \A i \in 0..N : i \in S
<1> SUFFICES ASSUME NEW k \in 0..N, k \notin S PROVE FALSE
  OBVIOUS
<1> DEFINE D == {i \in 0..N : i \notin S}
<1>1. D \in SUBSET Nat /\ D # {}
  OBVIOUS
<1>2. PICK m \in D : \A i \in D : m <= i
  <2> HIDE DEF D
  <2> QED BY <1>1, MinOfNats
<1>3. m \in 1..N /\ m - 1 \in 0..N /\ m - 1 \notin D
  BY <1>2
<1> QED BY <1>2, <1>3

\* What a loop computes is a function of how often it has run.
AreSteps(step, N, X) == step \in [1..N -> [X -> X]]

LEMMA LoopRuns ==
  ASSUME NEW N \in Nat, NEW X, NEW base \in X, NEW step, AreSteps(step, N, X)
  PROVE  \E f \in [0..N -> X] : f[0] = base /\ \A i \in 1..N : f[i] = step[i][f[i - 1]]
<1> USE DEF AreSteps
<1> DEFINE Runs(f, m) == f[0] = base /\ \A i \in 1..m : f[i] = step[i][f[i - 1]]
           S == {m \in 0..N : \E f \in [0..m -> X] : Runs(f, m)}
<1>1. 0 \in S
  <2>1. [i \in 0..0 |-> base] \in [0..0 -> X] /\ Runs([i \in 0..0 |-> base], 0)
    OBVIOUS
  <2> HIDE DEF Runs
  <2>2. \E f \in [0..0 -> X] : Runs(f, 0)
    BY <2>1
  <2> QED BY <2>2
<1>2. ASSUME NEW m \in 1..N, m - 1 \in S PROVE m \in S
  <2>1. PICK f \in [0..m - 1 -> X] : Runs(f, m - 1)
    BY <1>2
  <2> DEFINE g == [i \in 0..m |-> IF i = m THEN step[m][f[m - 1]] ELSE f[i]]
  <2>2. f[m - 1] \in X /\ step[m] \in [X -> X]
    OBVIOUS
  <2>3. step[m][f[m - 1]] \in X
    BY <2>2
  <2>4. g \in [0..m -> X]
    BY <2>3
  <2>5. g[0] = base
    BY <2>1
  <2>6. ASSUME NEW i \in 1..m PROVE g[i] = step[i][g[i - 1]]
    <3>1. i - 1 \in 0..m /\ i - 1 # m
      OBVIOUS
    <3>2. g[i - 1] = f[i - 1]
      BY <3>1
    <3>3. CASE i = m
      BY <3>2, <3>3
    <3>4. CASE i # m
      <4>1. i \in 1..m - 1
        BY <3>4
      <4>2. f[i] = step[i][f[i - 1]]
        BY <2>1, <4>1
      <4> QED BY <3>2, <3>4, <4>2
    <3> QED BY <3>3, <3>4
  <2>7. Runs(g, m)
    <3> HIDE DEF g
    <3> QED BY <2>5, <2>6
  <2> HIDE DEF g, Runs
  <2> QED BY <2>4, <2>7
<1>3. N \in S
  <2> HIDE DEF S
  <2>1. \A m \in 0..N : m \in S
    BY <1>1, <1>2, CountingUp
  <2> QED BY <2>1
<1> QED BY <1>3

(***************************************************************************)
(* The rows of a query: a block for each request, in the order of the      *)
(* batch.                                                                  *)
(***************************************************************************)
Rows(N, Ids) == [requestIndex : 1..N, id : Ids]

AreRows(rows, N, Ids) == rows \in Seq(Rows(N, Ids))

Block(i, ids) == [j \in 1..Len(ids) |-> [requestIndex |-> i, id |-> ids[j]]]

\* off[i] rows come before the ones of request i + 1.
Blocks(rows, off, L, m) ==
  /\ Len(rows) = off[m]
  /\ \A x \in 0..m : off[x] <= off[m]
  /\ \A x \in 1..m : \A j \in 1..Len(L[x]) :
       rows[off[x - 1] + j] = [requestIndex |-> x, id |-> L[x][j]]
  /\ \A k \in 1..Len(rows) : \E x \in 1..m : \E j \in 1..Len(L[x]) : k = off[x - 1] + j

LEMMA BlockOfRows ==
  ASSUME NEW N \in Nat, NEW Ids, NEW i \in 1..N, NEW ids \in Seq(Ids)
  PROVE  /\ Block(i, ids) \in Seq(Rows(N, Ids))
         /\ Len(Block(i, ids)) = Len(ids)
         /\ \A j \in 1..Len(ids) : Block(i, ids)[j] = [requestIndex |-> i, id |-> ids[j]]
<1>1. PICK n \in Nat : n = Len(ids)
  OBVIOUS
<1>2. ASSUME NEW j \in 1..n PROVE [requestIndex |-> i, id |-> ids[j]] \in Rows(N, Ids)
  BY <1>1 DEF Rows
<1>3. Block(i, ids) = [j \in 1..n |-> [requestIndex |-> i, id |-> ids[j]]]
  BY <1>1 DEF Block
<1>4. Block(i, ids) \in [1..n -> Rows(N, Ids)] /\ DOMAIN Block(i, ids) = 1..n
  BY <1>2, <1>3
<1>5. Block(i, ids) \in Seq(Rows(N, Ids))
  <2> HIDE <1>1
  <2> QED BY <1>4
<1>6. Len(Block(i, ids)) = n
  BY <1>4, <1>5
<1> QED BY <1>1, <1>3, <1>5, <1>6

IsGrown(more, rows, i, ids) == more = rows \o Block(i, ids)

GrewBy(more, rows, i, ids) ==
  /\ Len(ids) \in Nat /\ Len(rows) \in Nat
  /\ Len(more) = Len(rows) + Len(ids)
  /\ \A k \in 1..Len(rows) : more[k] = rows[k]
  /\ \A j \in 1..Len(ids) : more[Len(rows) + j] = [requestIndex |-> i, id |-> ids[j]]

LEMMA BlockIsAppended ==
  ASSUME NEW N \in Nat, NEW Ids, NEW i \in 1..N, NEW ids \in Seq(Ids),
         NEW rows, AreRows(rows, N, Ids), NEW more, IsGrown(more, rows, i, ids)
  PROVE  GrewBy(more, rows, i, ids)
<1>1. /\ Block(i, ids) \in Seq(Rows(N, Ids)) /\ Len(Block(i, ids)) = Len(ids)
      /\ \A j \in 1..Len(ids) : Block(i, ids)[j] = [requestIndex |-> i, id |-> ids[j]]
  BY BlockOfRows
<1>2. PICK block : block = Block(i, ids)
  OBVIOUS
<1>3. /\ block \in Seq(Rows(N, Ids)) /\ Len(block) = Len(ids) /\ Len(ids) \in Nat /\ Len(rows) \in Nat
      /\ more = rows \o block /\ rows \in Seq(Rows(N, Ids))
  BY <1>1, <1>2 DEF AreRows, IsGrown
<1>4. /\ Len(more) = Len(rows) + Len(block)
      /\ \A k \in 1..Len(rows) : more[k] = rows[k]
      /\ \A j \in 1..Len(block) : more[Len(rows) + j] = block[j]
  <2>1. /\ Len(more) = Len(rows) + Len(block)
        /\ \A k \in 1..Len(rows) + Len(block) :
             more[k] = IF k <= Len(rows) THEN rows[k] ELSE block[k - Len(rows)]
    <3>1. /\ Len(rows \o block) = Len(rows) + Len(block)
          /\ \A k \in 1..Len(rows) + Len(block) :
               (rows \o block)[k] = IF k <= Len(rows) THEN rows[k] ELSE block[k - Len(rows)]
      BY <1>3, ConcatProperties
    <3> QED BY <1>3, <3>1, Zenon
  <2>2. PICK a \in Nat, b \in Nat : a = Len(rows) /\ b = Len(block)
    BY <1>3
  <2>3. ASSUME NEW j \in 1..b PROVE more[a + j] = block[j]
    <3>1. PICK k \in 1..a + b : k = a + j
      OBVIOUS
    <3>2. ~ k <= a /\ k - a = j
      BY <3>1
    <3>3. more[k] = IF k <= a THEN rows[k] ELSE block[k - a]
      BY <2>1, <2>2
    <3> QED BY <3>1, <3>2, <3>3
  <2>4. ASSUME NEW k \in 1..a PROVE more[k] = rows[k]
    <3>1. k \in 1..a + b /\ k <= a
      OBVIOUS
    <3> QED BY <2>1, <2>2, <3>1
  <2> QED BY <2>1, <2>2, <2>3, <2>4
<1> QED BY <1>1, <1>2, <1>3, <1>4 DEF GrewBy

\* The loop over the requests appends a block for each.
AppendsBlocks(loop, off, L, N) ==
  /\ off[0] = 0
  /\ \A i \in 0..N : off[i] \in Nat /\ Len(loop[i]) = off[i]
  /\ \A i \in 1..N :
       /\ Len(L[i]) \in Nat
       /\ off[i] = off[i - 1] + Len(L[i])
       /\ \A k \in 1..off[i - 1] : loop[i][k] = loop[i - 1][k]
       /\ \A j \in 1..Len(L[i]) : loop[i][off[i - 1] + j] = [requestIndex |-> i, id |-> L[i][j]]

LEMMA RowsAreBlocks ==
  ASSUME NEW N \in Nat, NEW L, NEW loop, NEW off, AppendsBlocks(loop, off, L, N)
  PROVE  \A m \in 0..N : Blocks(loop[m], off, L, m)
<1>1. \A i \in 0..N : off[i] \in Nat /\ Len(loop[i]) = off[i]
  BY DEF AppendsBlocks
<1>2. ASSUME NEW i \in 1..N
      PROVE  /\ off[i] = off[i - 1] + Len(L[i])
             /\ \A k \in 1..off[i - 1] : loop[i][k] = loop[i - 1][k]
             /\ \A j \in 1..Len(L[i]) : loop[i][off[i - 1] + j] = [requestIndex |-> i, id |-> L[i][j]]
  BY DEF AppendsBlocks
<1>3. off[0] = 0
  BY DEF AppendsBlocks
<1>4. \A i \in 1..N : i - 1 \in 0..N /\ off[i - 1] \in Nat /\ off[i] \in Nat /\ Len(L[i]) \in Nat
  BY <1>1 DEF AppendsBlocks
<1> DEFINE S == {m \in 0..N : Blocks(loop[m], off, L, m)}
<1>5. 0 \in S
  BY <1>1, <1>3 DEF Blocks
<1>6. ASSUME NEW m \in 1..N, m - 1 \in S PROVE m \in S
  <2>1. Blocks(loop[m - 1], off, L, m - 1)
    BY <1>6
  <2>2. \A x \in 0..m : off[x] <= off[m]
    <3> SUFFICES ASSUME NEW x \in 0..m PROVE off[x] <= off[m]
      OBVIOUS
    <3>1. off[m] = off[m - 1] + Len(L[m]) /\ off[m] \in Nat /\ off[m - 1] \in Nat /\ Len(L[m]) \in Nat
      BY <1>2, <1>4
    <3>2. CASE x = m BY <3>1, <3>2
    <3>3. CASE x # m
      <4>1. x \in 0..m - 1 /\ off[x] \in Nat
        BY <1>1, <3>3
      <4>2. off[x] <= off[m - 1]
        BY <2>1, <4>1 DEF Blocks
      <4> QED BY <3>1, <4>1, <4>2
    <3> QED BY <3>2, <3>3
  <2>3. ASSUME NEW x \in 1..m, NEW j \in 1..Len(L[x])
        PROVE  loop[m][off[x - 1] + j] = [requestIndex |-> x, id |-> L[x][j]]
    <3>1. CASE x = m
      BY <1>2, <3>1
    <3>2. CASE x # m
      <4>1. x \in 1..m - 1 /\ x \in 0..m - 1 /\ x \in 1..N
        BY <3>2
      <4>2. loop[m - 1][off[x - 1] + j] = [requestIndex |-> x, id |-> L[x][j]]
        BY <2>1, <4>1 DEF Blocks
      <4>3. off[x] = off[x - 1] + Len(L[x]) /\ off[x] <= off[m - 1]
        BY <1>2, <2>1, <4>1 DEF Blocks
      <4>4. off[x - 1] + j \in 1..off[m - 1]
        <5>1. off[x - 1] \in Nat /\ off[x] \in Nat /\ off[m - 1] \in Nat /\ Len(L[x]) \in Nat
          BY <1>4, <4>1
        <5> QED BY <4>3, <5>1
      <4> QED BY <1>2, <4>2, <4>4
    <3> QED BY <3>1, <3>2
  <2>4. ASSUME NEW k \in 1..Len(loop[m])
        PROVE  \E x \in 1..m : \E j \in 1..Len(L[x]) : k = off[x - 1] + j
    <3>1. /\ k \in 1..off[m] /\ off[m] = off[m - 1] + Len(L[m])
          /\ off[m - 1] \in Nat /\ Len(L[m]) \in Nat
      BY <1>1, <1>2, <1>4
    <3>2. CASE k <= off[m - 1]
      <4>1. k \in 1..Len(loop[m - 1])
        BY <1>1, <3>1, <3>2
      <4>2. PICK x \in 1..m - 1 : \E j \in 1..Len(L[x]) : k = off[x - 1] + j
        BY <2>1, <4>1 DEF Blocks
      <4> QED BY <4>2
    <3>3. CASE ~ k <= off[m - 1]
      <4>1. k - off[m - 1] \in 1..Len(L[m]) /\ k = off[m - 1] + (k - off[m - 1])
        BY <3>1, <3>3
      <4> QED BY <4>1
    <3> QED BY <3>2, <3>3
  <2>5. Len(loop[m]) = off[m]
    BY <1>1
  <2>6. Blocks(loop[m], off, L, m)
    BY <2>2, <2>3, <2>4, <2>5, Zenon DEF Blocks
  <2> QED BY <2>6
<1>7. \A m \in 0..N : m \in S
  <2> HIDE DEF S
  <2> QED BY <1>5, <1>6, CountingUp
<1> QED BY <1>7

(***************************************************************************)
(* The scan of the rows puts each block on the page of its request.        *)
(***************************************************************************)
AreSequences(L, N, Ids) == \A x \in 1..N : L[x] \in Seq(Ids)

Scans(pages, rows, N) ==
  /\ \A x \in 1..N : pages[0][x] = <<>>
  /\ \A k \in 1..Len(rows) : \A x \in 1..N :
       pages[k][x] = IF rows[k].requestIndex = x THEN Append(pages[k - 1][x], rows[k].id)
                     ELSE pages[k - 1][x]

\* How many of n entries lie before place v.
Clip(v, n) == IF v <= 0 THEN 0 ELSE IF v <= n THEN v ELSE n

Taken(ids, v) == SubSeq(ids, 1, Clip(v, Len(ids)))

LEMMA TakenGrows ==
  ASSUME NEW Ids, NEW ids \in Seq(Ids)
  PROVE  /\ Len(ids) \in Nat
         /\ \A v \in Int : v <= 0 => Taken(ids, v) = <<>>
         /\ \A v \in Int : v >= Len(ids) => Taken(ids, v) = ids
         /\ \A j \in 1..Len(ids) : Append(Taken(ids, j - 1), ids[j]) = Taken(ids, j)
<1>1. Len(ids) \in Nat /\ \A i \in 1..Len(ids) : ids[i] \in Ids
  OBVIOUS
<1>2. ASSUME NEW j \in 0..Len(ids)
      PROVE  /\ SubSeq(ids, 1, j) = [i \in 1..j |-> ids[i]]
             /\ SubSeq(ids, 1, j) \in Seq(Ids)
             /\ Len(SubSeq(ids, 1, j)) = j
  BY <1>1
<1>3. ASSUME NEW v \in Int, v <= 0 PROVE Taken(ids, v) = <<>>
  <2>1. Taken(ids, v) = SubSeq(ids, 1, 0)
    BY <1>3 DEF Taken, Clip
  <2> QED BY <2>1
<1>4. ASSUME NEW v \in Int, v >= Len(ids) PROVE Taken(ids, v) = ids
  <2>1. Clip(v, Len(ids)) = Len(ids)
    BY <1>1, <1>4 DEF Clip
  <2>2. SubSeq(ids, 1, Len(ids)) = ids
    BY <1>1, <1>2
  <2> QED BY <2>1, <2>2 DEF Taken
<1>5. ASSUME NEW j \in 1..Len(ids) PROVE Append(Taken(ids, j - 1), ids[j]) = Taken(ids, j)
  <2>1. j - 1 \in 0..Len(ids) /\ j \in 0..Len(ids)
    BY <1>1
  <2>2. Taken(ids, j - 1) = SubSeq(ids, 1, j - 1) /\ Taken(ids, j) = SubSeq(ids, 1, j)
    BY <1>1, <2>1 DEF Taken, Clip
  <2>3. PICK before \in Seq(Ids) : before = SubSeq(ids, 1, j - 1)
    BY <1>2, <2>1
  <2>4. Len(before) = j - 1 /\ \A i \in 1..j - 1 : before[i] = ids[i]
    BY <1>2, <2>1, <2>3
  <2>5. Append(before, ids[j]) = [i \in 1..j |-> ids[i]]
    <3>1. ids[j] \in Ids
      BY <1>1
    <3>2. /\ Append(before, ids[j]) \in Seq(Ids)
          /\ Len(Append(before, ids[j])) = j
          /\ \A i \in 1..j : Append(before, ids[j])[i] = ids[i]
      BY <2>3, <2>4, <3>1, AppendProperties
    <3>3. DOMAIN Append(before, ids[j]) = 1..j
      BY <3>2
    <3> QED BY <3>2, <3>3
  <2> QED BY <1>2, <2>1, <2>2, <2>3, <2>5
<1> QED BY <1>1, <1>3, <1>4, <1>5

LEMMA BlocksApart ==
  ASSUME NEW k \in Nat, NEW a \in Nat, NEW b \in Nat, NEW n \in Nat
  PROVE  /\ k - a \in Int /\ (k - 1) - a \in Int
         /\ a + n <= b /\ b + 1 <= k => k - a >= n /\ (k - 1) - a >= n
         /\ k <= a => k - a <= 0 /\ (k - 1) - a <= 0
OBVIOUS

LEMMA ScanSorts ==
  ASSUME NEW N \in Nat, NEW Ids, NEW L, AreSequences(L, N, Ids),
         NEW loop, NEW off, AppendsBlocks(loop, off, L, N),
         NEW rows, rows = loop[N], NEW pages, Scans(pages, rows, N)
  PROVE  /\ Len(rows) \in Nat
         /\ \A x \in 1..N : pages[Len(rows)][x] = L[x]
<1>1. /\ Len(rows) = off[N] /\ off[N] \in Nat /\ off[0] = 0
      /\ \A x \in 0..N : off[x] \in Nat
      /\ \A x \in 1..N : off[x] = off[x - 1] + Len(L[x])
      /\ \A x \in 1..N : \A j \in 1..Len(L[x]) :
           rows[off[x - 1] + j] = [requestIndex |-> x, id |-> L[x][j]]
      /\ \A k \in 1..Len(rows) : \E x \in 1..N : \E j \in 1..Len(L[x]) : k = off[x - 1] + j
  <2>1. Blocks(rows, off, L, N)
    BY RowsAreBlocks
  <2> QED BY <2>1 DEF Blocks, AppendsBlocks
<1>2. \A m \in 0..N : \A x \in 0..m : off[x] <= off[m]
  <2>1. \A m \in 0..N : Blocks(loop[m], off, L, m)
    BY RowsAreBlocks
  <2> QED BY <2>1 DEF Blocks
<1>3. ASSUME NEW x \in 1..N
      PROVE  /\ Len(L[x]) \in Nat
             /\ x - 1 \in 0..N /\ x \in 0..N
             /\ off[x - 1] \in Nat /\ off[x] \in Nat /\ off[x] = off[x - 1] + Len(L[x])
             /\ off[x] <= off[N]
  <2>1. L[x] \in Seq(Ids)
    BY DEF AreSequences
  <2>2. x - 1 \in 0..N /\ x \in 0..N
    OBVIOUS
  <2> QED BY <1>1, <1>2, <2>1, <2>2
<1>8. ASSUME NEW x \in 1..N
      PROVE  /\ \A v \in Int : v <= 0 => Taken(L[x], v) = <<>>
             /\ \A v \in Int : v >= Len(L[x]) => Taken(L[x], v) = L[x]
             /\ \A j \in 1..Len(L[x]) : Append(Taken(L[x], j - 1), L[x][j]) = Taken(L[x], j)
  BY TakenGrows DEF AreSequences
<1> DEFINE Done(k) == \A y \in 1..N : pages[k][y] = Taken(L[y], k - off[y - 1])
           S == {k \in 0..Len(rows) : Done(k)}
<1>4. 0 \in S
  <2>1. ASSUME NEW y \in 1..N PROVE pages[0][y] = Taken(L[y], 0 - off[y - 1])
    <3>1. 0 - off[y - 1] \in Int /\ 0 - off[y - 1] <= 0
      BY <1>3
    <3> QED BY <1>8, <3>1 DEF Scans
  <2>2. 0 \in 0..Len(rows)
    BY <1>1
  <2> QED BY <2>1, <2>2
<1>5. ASSUME NEW k \in 1..Len(rows), k - 1 \in S PROVE k \in S
  <2>0. PICK x \in 1..N : \E j \in 1..Len(L[x]) : k = off[x - 1] + j
    BY <1>1
  <2>1. PICK j \in 1..Len(L[x]) : k = off[x - 1] + j
    BY <2>0
  <2>2. rows[k].requestIndex = x /\ rows[k].id = L[x][j]
    <3>1. rows[k] = [requestIndex |-> x, id |-> L[x][j]]
      BY <1>1, <2>1
    <3> QED BY <3>1
  <2>3. ASSUME NEW y \in 1..N
        PROVE  pages[k][y] = IF x = y THEN Append(pages[k - 1][y], L[x][j]) ELSE pages[k - 1][y]
    BY <2>2 DEF Scans
  <2>4. ASSUME NEW y \in 1..N PROVE pages[k - 1][y] = Taken(L[y], (k - 1) - off[y - 1])
    BY <1>5
  <2>5. k \in Nat /\ k - 1 \in Nat
    BY <1>1
  <2>7. /\ off[x - 1] \in Nat /\ off[x] \in Nat /\ off[x] = off[x - 1] + Len(L[x])
        /\ Len(L[x]) \in Nat
    BY <1>3
  <2>8. j \in Nat /\ 1 <= j /\ j <= Len(L[x])
    BY <2>7
  <2>9. off[x - 1] + 1 <= k /\ k <= off[x]
    BY <2>1, <2>7, <2>8
  <2> HIDE DEF S
  <2>6. ASSUME NEW y \in 1..N PROVE pages[k][y] = Taken(L[y], k - off[y - 1])
    <3>1. CASE y = x
      <4>1. (k - 1) - off[x - 1] = j - 1 /\ k - off[x - 1] = j
        BY <2>1, <2>7, <2>8
      <4>2. pages[k - 1][x] = Taken(L[x], j - 1)
        BY <2>4, <4>1
      <4>3. pages[k][x] = Append(Taken(L[x], j - 1), L[x][j])
        BY <2>3, <4>2
      <4>4. pages[k][x] = Taken(L[x], j)
        BY <1>8, <4>3
      <4> QED BY <3>1, <4>1, <4>4
    <3>2. CASE y < x
      <4>1. off[y] <= off[x - 1]
        BY <1>2, <1>3, <3>2
      <4>5. off[y - 1] \in Nat /\ off[y] \in Nat /\ Len(L[y]) \in Nat /\ off[y] = off[y - 1] + Len(L[y])
        BY <1>3
      <4>6. off[y - 1] + Len(L[y]) <= off[x - 1] /\ off[x - 1] + 1 <= k
        BY <2>9, <4>1, <4>5
      <4>2. /\ k - off[y - 1] \in Int /\ (k - 1) - off[y - 1] \in Int
            /\ k - off[y - 1] >= Len(L[y]) /\ (k - 1) - off[y - 1] >= Len(L[y])
        BY <2>5, <2>7, <4>5, <4>6, BlocksApart
      <4>3. Taken(L[y], k - off[y - 1]) = L[y] /\ Taken(L[y], (k - 1) - off[y - 1]) = L[y]
        BY <1>8, <4>2
      <4> QED BY <2>3, <2>4, <3>2, <4>3
    <3>3. CASE y > x
      <4>1. off[x] <= off[y - 1]
        <5>1. y - 1 \in 0..N /\ x \in 0..y - 1
          BY <3>3
        <5> QED BY <1>2, <5>1
      <4>5. off[y - 1] \in Nat /\ off[y] \in Nat /\ Len(L[y]) \in Nat /\ off[y] = off[y - 1] + Len(L[y])
        BY <1>3
      <4>6. k <= off[y - 1]
        BY <2>5, <2>7, <2>9, <4>1, <4>5
      <4>2. /\ k - off[y - 1] \in Int /\ (k - 1) - off[y - 1] \in Int
            /\ k - off[y - 1] <= 0 /\ (k - 1) - off[y - 1] <= 0
        BY <2>5, <2>7, <4>5, <4>6, BlocksApart
      <4>3. Taken(L[y], k - off[y - 1]) = <<>> /\ Taken(L[y], (k - 1) - off[y - 1]) = <<>>
        BY <1>8, <4>2
      <4> QED BY <2>3, <2>4, <3>3, <4>3
    <3>4. y = x \/ y < x \/ y > x
      OBVIOUS
    <3> QED BY <3>1, <3>2, <3>3, <3>4
  <2> QED BY <2>6 DEF S
<1>6. Len(rows) \in S
  <2> HIDE DEF S
  <2>1. \A k \in 0..Len(rows) : k \in S
    BY <1>1, <1>4, <1>5, CountingUp
  <2> QED BY <1>1, <2>1
<1>7. ASSUME NEW y \in 1..N PROVE pages[Len(rows)][y] = L[y]
  <2>1. pages[Len(rows)][y] = Taken(L[y], Len(rows) - off[y - 1])
    BY <1>6
  <2>2. Len(rows) - off[y - 1] \in Int /\ Len(rows) - off[y - 1] >= Len(L[y])
    BY <1>1, <1>3
  <2> QED BY <1>8, <2>1, <2>2
<1> QED BY <1>1, <1>7

(***************************************************************************)
(* The two back ends answer a batch alike.                                 *)
(***************************************************************************)
LEMMA ListedIsTaken ==
  ASSUME TypeOK, IndexInv, NEW request \in Request
  PROVE  /\ IDsBehind(request.key, request.cursor) \in Seq(CommentIDs)
         /\ ListedComments(request) = Taken(IDsBehind(request.key, request.cursor), request.limit + 1)
<1>0. request.key \in Key /\ request.limit \in Nat /\ request.cursor \in Entry \cup {NoCursor}
  BY DEF Request
<1>1. PICK key \in Key, cursor \in Entry \cup {NoCursor}, limit \in Nat :
        key = request.key /\ cursor = request.cursor /\ limit = request.limit
  BY <1>0
<1> DEFINE thread == ThreadBehind(key, cursor)
           n == Len(commentsByParent[key]) - PageStart(key, cursor) + 1
           rest == IDsBehind(key, cursor)
           R == {cd \in thread \X thread : Below(cd[1], cd[2])}
           sorted == CHOOSE s \in [1..Cardinality(thread) -> thread] :
                       \A i, j \in 1..Cardinality(thread) : i < j => Below(s[i], s[j])
<1>2. /\ n \in Nat /\ Len(rest) = n
      /\ rest \in [1..n -> thread]
      /\ \A c \in thread : \E i \in 1..n : rest[i] = c
      /\ \A i, j \in 1..n : i < j => Below(rest[i], rest[j])
  BY RestEnumerates
<1>3. \A c, d \in thread : <<c, d>> \in R <=> Below(c, d)
  OBVIOUS
<1>4. \A c, d \in thread : Below(c, d) => ~ Below(d, c)
  <2> TAKE c, d \in thread
  <2>1. /\ c \in Nat /\ d \in Nat
        /\ comments[c].createdAt \in Nat /\ comments[d].createdAt \in Nat
    BY IDsAreOrdered, TimesAreOrdered DEF ThreadBehind, TypeOK, Comment
  <2> QED BY <2>1 DEF Below, Precedes, EntryOf
<1>5. {c \in CommentIDs : /\ comments[c] # Absent
                          /\ comments[c].postID = request.key.postID
                          /\ comments[c].parentID = request.key.parentID
                          /\ \/ request.cursor = NoCursor
                             \/ Precedes(request.cursor, EntryOf(c, comments[c]))} = thread
  BY <1>1 DEF ThreadBehind, makePostParentKey, Key
<1>6. thread \subseteq CommentIDs
  BY DEF ThreadBehind
<1> HIDE DEF thread, n, rest, R
<1>7. /\ Cardinality(thread) = n
      /\ \A s \in [1..n -> thread] : IsAscending(s, n, R) => s = rest
  <2>1. Asymmetric(R, thread)
    BY <1>3, <1>4 DEF Asymmetric
  <2>2. IsAscending(rest, n, R)
    BY <1>2, <1>3 DEF IsAscending
  <2> QED BY <1>2, <2>1, <2>2, AscendingIsUnique
<1>8. \A s \in [1..n -> thread] : (\A i, j \in 1..n : i < j => Below(s[i], s[j])) => s = rest
  <2> TAKE s \in [1..n -> thread]
  <2> HAVE \A i, j \in 1..n : i < j => Below(s[i], s[j])
  <2>1. IsAscending(s, n, R)
    BY <1>3 DEF IsAscending
  <2> QED BY <1>7, <2>1
<1>9. sorted = rest
  BY <1>2, <1>7, <1>8
<1>10. ListedComments(request) = SubSeq(sorted, 1, Min({limit + 1, Len(sorted)}))
  BY <1>1, <1>5 DEF ListedComments, Ascending, Below
<1> HIDE DEF sorted
<1>11. Min({limit + 1, n}) = Clip(limit + 1, n)
  BY <1>2, MinOfTwo DEF Clip
<1>12. rest \in Seq(CommentIDs)
  <2>1. rest \in Seq(thread)
    BY <1>2
  <2> QED BY <1>2, <1>6, <2>1
<1>13. ListedComments(request) = Taken(rest, limit + 1)
  BY <1>2, <1>9, <1>10, <1>11 DEF Taken
<1> QED BY <1>1, <1>12, <1>13 DEF rest

\* Cutting what was fetched gives the page of all that is left.
LEMMA CutIsPage ==
  ASSUME NEW rest \in Seq(CommentIDs), NEW limit \in Nat \ {0}
  PROVE  CutPage(Taken(rest, limit + 1), limit) = PageFrom(rest, limit)
<1>1. PICK n \in Nat : n = Len(rest)
  OBVIOUS
<1>2. \A j \in 1..n : rest[j] \in CommentIDs
  BY <1>1
<1>3. CASE n <= limit
  <2>1. Clip(limit + 1, n) = n
    BY <1>3 DEF Clip
  <2>2. Taken(rest, limit + 1) = SubSeq(rest, 1, n)
    BY <1>1, <2>1 DEF Taken
  <2>3. Len(SubSeq(rest, 1, n)) = n
    BY <1>1, <1>2
  <2>4. CutPage(SubSeq(rest, 1, n), limit) = [comments |-> SubSeq(rest, 1, n), nextCursor |-> NoCursor]
    BY <1>3, <2>3 DEF CutPage
  <2>5. PageFrom(rest, limit) = [comments |-> SubSeq(rest, 1, n), nextCursor |-> NoCursor]
    BY <1>1, <1>3 DEF PageFrom
  <2> QED BY <2>2, <2>4, <2>5
<1>4. CASE ~ n <= limit
  <2>1. Clip(limit + 1, n) = limit + 1
    BY <1>4 DEF Clip
  <2>2. PICK ids : ids = SubSeq(rest, 1, limit + 1)
    OBVIOUS
  <2>3. Taken(rest, limit + 1) = ids
    BY <1>1, <2>1, <2>2 DEF Taken
  <2>4. /\ ids \in Seq(CommentIDs) /\ Len(ids) = limit + 1
        /\ \A i \in 1..limit + 1 : ids[i] = rest[i]
    BY <1>1, <1>2, <1>4, <2>2
  <2>5. limit \in 1..limit + 1 /\ ~ limit + 1 <= limit
    OBVIOUS
  <2>6. SubSeq(ids, 1, limit) = SubSeq(rest, 1, limit)
    <3>1. SubSeq(ids, 1, limit) = [i \in 1..limit |-> ids[i]]
      BY <2>4
    <3>2. SubSeq(rest, 1, limit) = [i \in 1..limit |-> rest[i]]
      BY <1>1, <1>2, <1>4
    <3>3. \A i \in 1..limit : ids[i] = rest[i]
      BY <2>4
    <3> QED BY <3>1, <3>2, <3>3
  <2>7. ids[limit] = rest[limit]
    BY <2>4, <2>5
  <2>8. CutPage(ids, limit) = [comments   |-> SubSeq(ids, 1, limit),
                               nextCursor |-> EntryOf(ids[limit], comments[ids[limit]])]
    BY <2>4, <2>5 DEF CutPage
  <2>9. PageFrom(rest, limit) = [comments   |-> SubSeq(rest, 1, limit),
                                 nextCursor |-> EntryOf(rest[limit], comments[rest[limit]])]
    BY <1>1, <1>4 DEF PageFrom
  <2> QED BY <2>3, <2>6, <2>7, <2>8, <2>9
<1> QED BY <1>3, <1>4

\* The comments fetched for each request of a batch; without a limit, none.
FetchedFor(batch) ==
  [i \in 1..Len(batch) |-> IF batch[i].limit > 0 THEN ListedComments(batch[i]) ELSE <<>>]

LEMMA FetchedAreSequences ==
  ASSUME TypeOK, IndexInv, NEW batch \in Seq(Request)
  PROVE  AreSequences(FetchedFor(batch), Len(batch), CommentIDs)
<1> SUFFICES ASSUME NEW i \in 1..Len(batch) PROVE FetchedFor(batch)[i] \in Seq(CommentIDs)
  BY DEF AreSequences
<1>1. batch[i] \in Request
  OBVIOUS
<1>2. PICK rest \in Seq(CommentIDs), limit \in Nat :
        ListedComments(batch[i]) = Taken(rest, limit + 1)
  BY <1>1, ListedIsTaken DEF Request
<1>3. Clip(limit + 1, Len(rest)) \in 0..Len(rest)
  <2>1. Len(rest) \in Nat
    OBVIOUS
  <2> QED BY <2>1 DEF Clip
<1>4. Taken(rest, limit + 1) \in Seq(CommentIDs)
  <2>1. PICK m \in 0..Len(rest) : m = Clip(limit + 1, Len(rest))
    BY <1>3
  <2>2. SubSeq(rest, 1, m) \in Seq(CommentIDs)
    OBVIOUS
  <2> QED BY <2>1, <2>2 DEF Taken
<1>5. ListedComments(batch[i]) \in Seq(CommentIDs)
  BY <1>2, <1>4
<1>6. FetchedFor(batch)[i] = IF batch[i].limit > 0 THEN ListedComments(batch[i]) ELSE <<>>
  BY DEF FetchedFor
<1>7. <<>> \in Seq(CommentIDs)
  BY EmptySeq
<1> QED BY <1>5, <1>6, <1>7

\* The rows of the query are the blocks of its requests.
LEMMA QueryAppendsBlocks ==
  ASSUME TypeOK, IndexInv, NEW batch \in Seq(Request)
  PROVE  \E loop, off : /\ AppendsBlocks(loop, off, FetchedFor(batch), Len(batch))
                        /\ QueryRows(batch) = loop[Len(batch)]
                        /\ QueryRows(batch) \in Seq(Rows(Len(batch), CommentIDs))
<1> DEFINE N == Len(batch)
           L == FetchedFor(batch)
           X == Seq(Rows(N, CommentIDs))
           Body(g, i) == IF i = 0 THEN <<>>
                         ELSE IF batch[i].limit > 0 THEN g[i - 1] \o RowsOf(i, batch[i])
                         ELSE g[i - 1]
           Solves(g) == g = [i \in 0..N |-> Body(g, i)]
           loop == CHOOSE g : Solves(g)
           step == [i \in 1..N |-> [rows \in X |-> IF batch[i].limit > 0
                                                   THEN rows \o RowsOf(i, batch[i]) ELSE rows]]
           off == [i \in 0..N |-> Len(loop[i])]
<1>1. N \in Nat
  OBVIOUS
<1>2. ASSUME NEW i \in 1..N
      PROVE  /\ L[i] \in Seq(CommentIDs)
             /\ batch[i].limit > 0 => RowsOf(i, batch[i]) = Block(i, L[i])
             /\ ~ batch[i].limit > 0 => L[i] = <<>>
             /\ Block(i, L[i]) \in X
  <2>1. L[i] \in Seq(CommentIDs)
    BY FetchedAreSequences DEF AreSequences
  <2>2. L[i] = IF batch[i].limit > 0 THEN ListedComments(batch[i]) ELSE <<>>
    BY DEF FetchedFor
  <2>3. RowsOf(i, batch[i]) = Block(i, ListedComments(batch[i]))
    BY DEF RowsOf, Block
  <2>4. Block(i, L[i]) \in X
    <3> HIDE DEF L
    <3> QED BY <1>1, <2>1, BlockOfRows
  <2> QED BY <2>1, <2>2, <2>3, <2>4
<1> HIDE DEF L
<1>3. AreSteps(step, N, X)
  <2>1. ASSUME NEW i \in 1..N, NEW rows \in X
        PROVE  (IF batch[i].limit > 0 THEN rows \o RowsOf(i, batch[i]) ELSE rows) \in X
    <3>1. CASE batch[i].limit > 0
      <4>1. RowsOf(i, batch[i]) \in X
        BY <1>2, <3>1
      <4>2. rows \o RowsOf(i, batch[i]) \in X
        BY <4>1, ConcatProperties
      <4> QED BY <3>1, <4>2
    <3>2. CASE ~ batch[i].limit > 0
      BY <3>2
    <3> QED BY <3>1, <3>2
  <2> HIDE DEF X
  <2> QED BY <2>1 DEF AreSteps
<1>4. <<>> \in X
  BY EmptySeq
<1>5. PICK f \in [0..N -> X] : f[0] = <<>> /\ \A i \in 1..N : f[i] = step[i][f[i - 1]]
  <2> HIDE DEF X, step
  <2> QED BY <1>1, <1>3, <1>4, LoopRuns
<1>6. Solves(f)
  <2>1. ASSUME NEW i \in 0..N PROVE f[i] = Body(f, i)
    <3>1. CASE i = 0
      BY <1>5, <3>1
    <3>2. CASE i # 0
      <4>1. i \in 1..N /\ f[i - 1] \in X
        BY <1>1, <3>2
      <4>2. f[i] = step[i][f[i - 1]]
        BY <1>5, <4>1
      <4> HIDE DEF X
      <4> QED BY <3>2, <4>1, <4>2
    <3> QED BY <3>1, <3>2
  <2> DEFINE rhs == [i \in 0..N |-> Body(f, i)]
  <2>2. f = rhs
    <3> HIDE DEF X, Body
    <3> QED BY <2>1
  <2> QED BY <2>2
<1>7. Solves(loop)
  <2> HIDE DEF Solves
  <2> QED BY <1>6
<1>8. /\ loop[0] = <<>>
      /\ \A i \in 1..N : loop[i] = IF batch[i].limit > 0 THEN loop[i - 1] \o RowsOf(i, batch[i])
                                   ELSE loop[i - 1]
  <2> HIDE DEF loop
  <2>1. \A i \in 0..N : loop[i] = Body(loop, i)
    BY <1>7
  <2>2. loop[0] = <<>>
    BY <1>1, <2>1
  <2>3. \A i \in 1..N : i \in 0..N /\ i # 0
    BY <1>1
  <2> QED BY <2>1, <2>2, <2>3
<1>9. QueryRows(batch) = loop[N]
  BY DEF QueryRows
<1> HIDE DEF loop, Solves
<1>10. \A i \in 0..N : loop[i] \in X
  <2> DEFINE S == {i \in 0..N : loop[i] \in X}
  <2>1. 0 \in S
    <3>1. loop[0] \in X
      BY <1>4, <1>8
    <3> HIDE DEF X, N
    <3> QED BY <1>1, <3>1
  <2>2. ASSUME NEW i \in 1..N, i - 1 \in S PROVE i \in S
    <3>1. loop[i - 1] \in X
      BY <2>2
    <3>2. CASE batch[i].limit > 0
      <4>1. loop[i] = loop[i - 1] \o Block(i, L[i]) /\ Block(i, L[i]) \in X
        BY <1>2, <1>8, <3>2
      <4>2. loop[i] \in X
        BY <3>1, <4>1, ConcatProperties
      <4> QED BY <1>1, <4>2
    <3>3. CASE ~ batch[i].limit > 0
      BY <1>1, <1>8, <3>1, <3>3
    <3> QED BY <3>2, <3>3
  <2> HIDE DEF S
  <2>3. \A i \in 0..N : i \in S
    BY <1>1, <2>1, <2>2, CountingUp
  <2> QED BY <2>3 DEF S
<1>11. ASSUME NEW i \in 0..N PROVE off[i] \in Nat /\ off[i] = Len(loop[i])
  <2>1. loop[i] \in X
    BY <1>10
  <2> QED BY <2>1
<1> HIDE DEF off
<1>12. ASSUME NEW i \in 1..N
       PROVE  /\ Len(L[i]) \in Nat
              /\ off[i] = off[i - 1] + Len(L[i])
              /\ \A k \in 1..off[i - 1] : loop[i][k] = loop[i - 1][k]
              /\ \A j \in 1..Len(L[i]) : loop[i][off[i - 1] + j] = [requestIndex |-> i, id |-> L[i][j]]
  <2>1. i - 1 \in 0..N /\ i \in 0..N
    BY <1>1
  <2>2. /\ loop[i - 1] \in X /\ off[i - 1] = Len(loop[i - 1]) /\ off[i] = Len(loop[i])
        /\ off[i - 1] \in Nat
    BY <1>10, <1>11, <2>1
  <2>3. CASE batch[i].limit > 0
    <3>1. loop[i] = loop[i - 1] \o Block(i, L[i]) /\ L[i] \in Seq(CommentIDs)
      BY <1>2, <1>8, <2>3
    <3>2. PICK ids \in Seq(CommentIDs) : ids = L[i]
      BY <3>1
    <3>3. PICK before, more : before \in X /\ before = loop[i - 1] /\ more = loop[i]
      BY <2>2
    <3>4. IsGrown(more, before, i, ids)
      BY <3>1, <3>2, <3>3 DEF IsGrown
    <3> HIDE DEF N
    <3>6. AreRows(before, N, CommentIDs)
      BY <1>1, <3>3 DEF AreRows
    <3> HIDE DEF X, Body, step, L
    <3>5. GrewBy(more, before, i, ids)
      BY <1>1, <3>4, <3>6, BlockIsAppended
    <3> QED BY <2>2, <3>2, <3>3, <3>5 DEF GrewBy
  <2>4. CASE ~ batch[i].limit > 0
    <3>1. loop[i] = loop[i - 1] /\ L[i] = <<>>
      BY <1>2, <1>8, <2>4
    <3>2. Len(L[i]) = 0
      BY <3>1
    <3> QED BY <2>2, <3>1, <3>2
  <2> QED BY <2>3, <2>4
<1>13. AppendsBlocks(loop, off, L, N)
  <2>1. off[0] = 0
    BY <1>1, <1>8, <1>11
  <2> QED BY <1>11, <1>12, <2>1 DEF AppendsBlocks
<1>14. QueryRows(batch) \in X
  BY <1>1, <1>9, <1>10
<1> QED BY <1>9, <1>13, <1>14 DEF L

\* The pages after each row of the scan.
LEMMA ScannedScans ==
  ASSUME NEW batch \in Seq(Request), NEW rows, AreRows(rows, Len(batch), CommentIDs)
  PROVE  \E pages : /\ Scans(pages, rows, Len(batch))
                    /\ Scanned(batch, rows) = pages[Len(rows)]
                    /\ DOMAIN Scanned(batch, rows) = 1..Len(batch)
<1> DEFINE N == Len(batch)
           K == Len(rows)
           X == [1..N -> Seq(CommentIDs)]
           blank == [i \in 1..N |-> <<>>]
           With(p, k) == [p EXCEPT ![rows[k].requestIndex] = Append(@, rows[k].id)]
           Body(g, k) == IF k = 0 THEN blank ELSE With(g[k - 1], k)
           Solves(g) == g = [k \in 0..K |-> Body(g, k)]
           loop == CHOOSE g : Solves(g)
           step == [k \in 1..K |-> [p \in X |-> With(p, k)]]
<1>1. N \in Nat /\ K \in Nat
  BY DEF AreRows
<1>2. \A k \in 1..K : rows[k].requestIndex \in 1..N /\ rows[k].id \in CommentIDs
  <2>1. \A k \in 1..K : rows[k] \in Rows(N, CommentIDs)
    BY DEF AreRows
  <2> QED BY <2>1 DEF Rows
<1>3. ASSUME NEW k \in 1..K, NEW p \in X PROVE With(p, k) \in X
  <2>1. p[rows[k].requestIndex] \in Seq(CommentIDs)
    BY <1>2
  <2>2. Append(p[rows[k].requestIndex], rows[k].id) \in Seq(CommentIDs)
    BY <1>2, <2>1, AppendProperties
  <2> QED BY <2>2
<1>4. blank \in X
  <2>1. <<>> \in Seq(CommentIDs)
    BY EmptySeq
  <2> QED BY <2>1
<1>5. AreSteps(step, K, X)
  <2> HIDE DEF X, With
  <2> QED BY <1>3 DEF AreSteps
<1>6. PICK f \in [0..K -> X] : f[0] = blank /\ \A k \in 1..K : f[k] = step[k][f[k - 1]]
  <2> HIDE DEF X, step, blank, N, K
  <2> QED BY <1>1, <1>4, <1>5, LoopRuns
<1>7. Solves(f)
  <2>1. ASSUME NEW k \in 0..K PROVE f[k] = Body(f, k)
    <3>1. CASE k = 0
      BY <1>6, <3>1
    <3>2. CASE k # 0
      <4>1. k \in 1..K /\ f[k - 1] \in X
        <5> HIDE DEF X, K
        <5> QED BY <1>1, <3>2
      <4>2. f[k] = step[k][f[k - 1]]
        BY <1>6, <4>1
      <4> HIDE DEF X, With
      <4> QED BY <3>2, <4>1, <4>2
    <3> QED BY <3>1, <3>2
  <2> DEFINE rhs == [k \in 0..K |-> Body(f, k)]
  <2>2. f = rhs
    <3> HIDE DEF X, Body
    <3> QED BY <2>1
  <2> QED BY <2>2
<1>8. Solves(loop)
  <2> HIDE DEF Solves
  <2> QED BY <1>7
<1>9. loop[0] = blank /\ \A k \in 1..K : loop[k] = With(loop[k - 1], k)
  <2> HIDE DEF loop, blank, With
  <2>1. \A k \in 0..K : loop[k] = Body(loop, k)
    BY <1>8
  <2>2. loop[0] = blank
    BY <1>1, <2>1
  <2>3. \A k \in 1..K : k \in 0..K /\ k # 0
    BY <1>1
  <2> QED BY <2>1, <2>2, <2>3
<1>10. Scanned(batch, rows) = loop[K]
  BY DEF Scanned
<1> HIDE DEF loop, Solves
<1>11. \A k \in 0..K : loop[k] \in X
  <2> DEFINE S == {k \in 0..K : loop[k] \in X}
  <2>1. 0 \in S
    <3> HIDE DEF X, K, blank
    <3>1. loop[0] \in X
      BY <1>4, <1>9
    <3> QED BY <1>1, <3>1
  <2>2. ASSUME NEW k \in 1..K, k - 1 \in S PROVE k \in S
    <3> HIDE DEF X, With
    <3>1. loop[k - 1] \in X
      BY <2>2
    <3>2. loop[k] \in X
      BY <1>3, <1>9, <3>1
    <3> QED BY <1>1, <3>2
  <2> HIDE DEF S
  <2>3. \A k \in 0..K : k \in S
    BY <1>1, <2>1, <2>2, CountingUp
  <2> QED BY <2>3 DEF S
<1>12. ASSUME NEW k \in 1..K, NEW x \in 1..N
       PROVE  loop[k][x] = IF rows[k].requestIndex = x THEN Append(loop[k - 1][x], rows[k].id)
                           ELSE loop[k - 1][x]
  <2>1. k - 1 \in 0..K
    BY <1>1
  <2>2. loop[k - 1] \in X /\ loop[k] = With(loop[k - 1], k)
    BY <1>9, <1>11, <2>1
  <2>3. DOMAIN loop[k - 1] = 1..N
    BY <2>2
  <2> HIDE DEF N, K, X
  <2> QED BY <2>2, <2>3
<1>13. Scans(loop, rows, N)
  <2>1. \A x \in 1..N : loop[0][x] = <<>>
    BY <1>9
  <2> QED BY <1>12, <2>1 DEF Scans
<1>14. DOMAIN Scanned(batch, rows) = 1..N
  <2>1. loop[K] \in X
    BY <1>1, <1>11
  <2> QED BY <1>10, <2>1
<1> QED BY <1>10, <1>13, <1>14

\* A batch is answered request by request.
LEMMA BatchIsAnswered ==
  ASSUME TypeOK, IndexInv, NEW batch \in Seq(Request)
  PROVE  ListByPostAndParents(batch) =
           [i \in 1..Len(batch) |->
              ListByPostAndParent(batch[i].key, batch[i].limit, batch[i].cursor)]
<1> DEFINE N == Len(batch)
           L == FetchedFor(batch)
           rows == QueryRows(batch)
           pages == Scanned(batch, rows)
<1>1. N \in Nat /\ AreSequences(L, N, CommentIDs)
  BY FetchedAreSequences
<1>2. /\ rows \in Seq(Rows(N, CommentIDs))
      /\ \E loop, off : AppendsBlocks(loop, off, L, N) /\ rows = loop[N]
  BY QueryAppendsBlocks
<1>3. DOMAIN pages = 1..N /\ \E scan : Scans(scan, rows, N) /\ pages = scan[Len(rows)]
  <2> HIDE DEF rows
  <2> QED BY <1>2, ScannedScans DEF AreRows
<1>4. \A i \in 1..N : pages[i] = L[i]
  <2> HIDE DEF N, L, rows, pages
  <2>1. PICK loop, off : AppendsBlocks(loop, off, L, N) /\ rows = loop[N]
    BY <1>2
  <2>2. PICK scan : Scans(scan, rows, N) /\ pages = scan[Len(rows)]
    BY <1>3
  <2> QED BY <1>1, <2>1, <2>2, ScanSorts
<1>5. ASSUME NEW i \in 1..N
      PROVE  CutPage(L[i], batch[i].limit)
               = ListByPostAndParent(batch[i].key, batch[i].limit, batch[i].cursor)
  <2>1. batch[i] \in Request
    OBVIOUS
  <2>2. PICK request \in Request : request = batch[i]
    BY <2>1
  <2>3. /\ request.key \in Key /\ request.limit \in Nat /\ request.cursor \in Entry \cup {NoCursor}
        /\ L[i] = IF request.limit > 0 THEN ListedComments(request) ELSE <<>>
    BY <2>2 DEF Request, FetchedFor
  <2> HIDE DEF L
  <2>4. CASE request.limit > 0
    <3>1. PICK rest : rest = IDsBehind(request.key, request.cursor)
      OBVIOUS
    <3>2. rest \in Seq(CommentIDs) /\ L[i] = Taken(rest, request.limit + 1)
      BY <2>3, <2>4, <3>1, ListedIsTaken
    <3>3. request.limit \in Nat \ {0}
      BY <2>3, <2>4
    <3>4. CutPage(L[i], request.limit) = PageFrom(rest, request.limit)
      BY <3>2, <3>3, CutIsPage
    <3>5. ListByPostAndParent(request.key, request.limit, request.cursor) = PageFrom(rest, request.limit)
      BY <2>3, <3>1, <3>3, PageOfIndex
    <3> QED BY <2>2, <3>4, <3>5
  <2>5. CASE ~ request.limit > 0
    <3>1. request.limit = 0 /\ L[i] = <<>>
      BY <2>3, <2>5
    <3>2. CutPage(L[i], request.limit) = [comments |-> <<>>, nextCursor |-> NoCursor]
      BY <3>1 DEF CutPage
    <3>3. ListByPostAndParent(request.key, request.limit, request.cursor)
            = [comments |-> <<>>, nextCursor |-> NoCursor]
      BY <3>1 DEF ListByPostAndParent
    <3> QED BY <2>2, <3>2, <3>3
  <2> QED BY <2>4, <2>5
<1>6. ListByPostAndParents(batch) = [i \in 1..N |-> CutPage(pages[i], batch[i].limit)]
  BY DEF ListByPostAndParents
<1> HIDE DEF L, pages
<1> QED BY <1>4, <1>5, <1>6

\* The posts that the query lists are cut as the ones of List are.
LEMMA SelectPostsCuts ==
  ASSUME StoreInv, NEW cursor, NEW n, NEW t, Enumerates(t, n, PostsBehind(cursor), PostOrder),
         NEW limit \in Nat \ {0}
  PROVE  SelectPosts(limit, cursor) =
           [posts      |-> SubSeq(t, 1, IF n <= limit THEN n ELSE limit),
            nextCursor |-> IF n > limit THEN EntryOf(t[limit], posts[t[limit]]) ELSE NoCursor]
<1> DEFINE behind == PostsBehind(cursor)
           sorted == CHOOSE s \in [1..Cardinality(behind) -> behind] :
                       \A i, j \in 1..Cardinality(behind) :
                         i < j => Precedes(EntryOf(s[j], posts[s[j]]), EntryOf(s[i], posts[s[i]]))
           listed == ListedPosts(limit, cursor)
           m == IF n <= limit THEN n ELSE limit
<1>1. /\ n \in Nat /\ t \in [1..n -> behind] /\ IsAscending(t, n, PostOrder)
      /\ behind \in SUBSET StoredPosts
  BY DEF Enumerates, PostsBehind
<1>2. /\ Cardinality(behind) = n
      /\ \A s \in [1..n -> behind] : IsAscending(s, n, PostOrder) <=> s = t
  <2>1. Asymmetric(PostOrder, behind)
    BY <1>1, PostsAreOrdered DEF TotalOrder
  <2> QED BY <2>1, AscendingIsTheEnumeration
<1>3. ASSUME NEW s \in [1..n -> behind]
      PROVE  (\A i, j \in 1..n :
                i < j => Precedes(EntryOf(s[j], posts[s[j]]), EntryOf(s[i], posts[s[i]])))
               <=> IsAscending(s, n, PostOrder)
  <2>1. \A i \in 1..n : s[i] \in StoredPosts
    BY <1>1
  <2>2. \A p, q \in StoredPosts :
          Precedes(EntryOf(q, posts[q]), EntryOf(p, posts[p])) <=> <<p, q>> \in PostOrder
    BY DEF PostOrder, isPostAfterCursor, Precedes, EntryOf
  <2> QED BY <2>1, <2>2 DEF IsAscending
<1>4. {p \in PostIDs : /\ posts[p] # Absent
                       /\ \/ cursor = NoCursor
                          \/ Precedes(EntryOf(p, posts[p]), cursor)} = behind
  BY DEF PostsBehind, StoredPosts, isPostAfterCursor, Precedes, EntryOf
<1> HIDE DEF behind
<1>5. sorted = t
  BY <1>1, <1>2, <1>3
<1>6. listed = SubSeq(sorted, 1, Min({limit + 1, Len(sorted)}))
  BY <1>4 DEF ListedPosts, Ascending
<1> HIDE DEF sorted, listed
<1>7. Len(t) = n /\ \A i \in 1..n : t[i] \in behind
  BY <1>1
<1>8. Min({limit + 1, n}) = IF limit + 1 <= n THEN limit + 1 ELSE n
  BY <1>1, MinOfTwo
<1>9. PICK k \in 0..n : k = IF limit + 1 <= n THEN limit + 1 ELSE n
  BY <1>1
<1>10. listed = SubSeq(t, 1, k)
  BY <1>5, <1>6, <1>7, <1>8, <1>9
<1>11. listed = [i \in 1..k |-> t[i]] /\ Len(listed) = k
  <2>1. SubSeq(t, 1, k) = [i \in 1..k |-> t[i]] /\ Len(SubSeq(t, 1, k)) = k
    BY <1>1, <1>7, SubSeqProperties
  <2> QED BY <1>10, <2>1
<1>12. /\ m \in 0..n /\ m <= k /\ Min({limit, k}) = m
       /\ k > limit <=> n > limit
       /\ k > limit => limit \in 1..k
  BY <1>1, <1>9, MinOfTwo
<1>13. SubSeq(listed, 1, m) = SubSeq(t, 1, m)
  <2>1. SubSeq(t, 1, m) = [i \in 1..m |-> t[i]]
    BY <1>1, <1>7, <1>12, SubSeqProperties
  <2>2. \A i \in 1..k : listed[i] = t[i] /\ t[i] \in behind
    BY <1>7, <1>11
  <2>3. listed \in Seq(behind)
    <3>1. k \in Nat
      BY <1>1, <1>9
    <3>2. listed \in [1..k -> behind]
      BY <1>11, <2>2
    <3> QED BY <3>1, <3>2
  <2>4. SubSeq(listed, 1, m) = [i \in 1..m |-> listed[i]]
    BY <1>9, <1>11, <1>12, <2>3
  <2>5. \A i \in 1..m : i \in 1..k
    BY <1>9, <1>12
  <2> HIDE DEF m
  <2> QED BY <2>1, <2>2, <2>4, <2>5
<1>14. n > limit => listed[limit] = t[limit]
  BY <1>11, <1>12
<1>15. SelectPosts(limit, cursor)
         = IF listed = <<>> THEN [posts |-> <<>>, nextCursor |-> NoCursor]
           ELSE [posts      |-> SubSeq(listed, 1, Min({limit, Len(listed)})),
                 nextCursor |-> IF Len(listed) > limit
                                THEN EntryOf(listed[limit], posts[listed[limit]]) ELSE NoCursor]
  <2>1. ~ limit <= 0
    OBVIOUS
  <2> QED BY <2>1 DEF SelectPosts, listed
<1>16. CASE listed = <<>>
  <2>1. k = 0
    BY <1>9, <1>11, <1>16
  <2>2. n = 0 /\ m = 0
    BY <1>1, <1>9, <2>1
  <2>3. SubSeq(t, 1, m) = <<>>
    BY <1>13, <1>16, <2>2
  <2> QED BY <1>15, <1>16, <2>2, <2>3
<1>17. CASE listed # <<>>
  <2>1. SelectPosts(limit, cursor)
         = [posts      |-> SubSeq(listed, 1, Min({limit, k})),
            nextCursor |-> IF k > limit
                           THEN EntryOf(listed[limit], posts[listed[limit]]) ELSE NoCursor]
    BY <1>11, <1>15, <1>17
  <2>2. SubSeq(listed, 1, Min({limit, k})) = SubSeq(t, 1, m)
    BY <1>12, <1>13
  <2> HIDE DEF m
  <2> QED BY <1>12, <1>14, <2>1, <2>2 DEF m
<1> QED BY <1>16, <1>17

\* The back ends give the same pages for every state of a store of any size, every
\* batch and every request for posts.
THEOREM BackendsAlwaysGiveSamePages == Spec => []BackendsGiveSamePages
<1>1. ASSUME StoreInv PROVE BackendsGiveSamePages
  <2>1. ASSUME NEW batch \in Batches
        PROVE  ListByPostAndParents(batch) =
                 [i \in 1..Len(batch) |->
                    ListByPostAndParent(batch[i].key, batch[i].limit, batch[i].cursor)]
    <3>1. batch \in Seq(Request)
      BY BatchesAreTyped
    <3> QED BY <1>1, <3>1, BatchIsAnswered DEF StoreInv
  <2>2. ASSUME NEW limit \in 0..Cardinality(PostIDs), NEW cursor
        PROVE  SelectPosts(limit, cursor) = ListPosts(limit, cursor)
    <3>1. CASE limit = 0
      <4>1. limit <= 0
        BY <3>1
      <4> QED BY <4>1 DEF SelectPosts, ListPosts
    <3>2. CASE limit # 0
      <4>1. limit \in Nat \ {0}
        BY <3>2
      <4>2. PICK n, t : Enumerates(t, n, PostsBehind(cursor), PostOrder)
        BY <1>1, PostsAreEnumerated
      <4>3. PICK page : page = [posts      |-> SubSeq(t, 1, IF n <= limit THEN n ELSE limit),
                                nextCursor |-> IF n > limit
                                               THEN EntryOf(t[limit], posts[t[limit]]) ELSE NoCursor]
        OBVIOUS
      <4>4. SelectPosts(limit, cursor) = page
        BY <1>1, <4>1, <4>2, <4>3, SelectPostsCuts
      <4>5. ListPosts(limit, cursor) = page
        BY <1>1, <4>1, <4>2, <4>3, ListPostsCuts
      <4> QED BY <4>4, <4>5
    <3> QED BY <3>1, <3>2
  <2> QED BY <2>1, <2>2, Zenon DEF BackendsGiveSamePages
<1> QED BY <1>1, StoreInductive, PTL DEF Spec

(***************************************************************************)
(* Excerpts.                                                               *)
(***************************************************************************)
LEMMA ExcerptOfFetched ==
  ASSUME NEW body \in Bodies
  PROVE  MakePostExcerpt(FetchedBody(body)) = MakePostExcerpt(body)
<1>1. PICK s \in Seq(Characters), n \in Nat, l \in Nat :
        s = body /\ n = Len(s) /\ l = PostExcerptLength
  BY ExcerptsAreTyped
<1>2. \A i \in 1..n : s[i] \in Characters
  BY <1>1
<1>3. Min({n, l + 1}) = IF n <= l + 1 THEN n ELSE l + 1
  BY MinOfTwo
<1>6. FetchedBody(body) = SubSeq(s, 1, IF n <= l + 1 THEN n ELSE l + 1)
  <2>1. FetchedBody(body) = SubSeq(body, 1, Min({Len(body), PostExcerptLength + 1}))
    BY DEF FetchedBody
  <2>2. Len(body) = n /\ PostExcerptLength + 1 = l + 1
    BY <1>1
  <2> QED BY <1>1, <1>3, <2>1, <2>2
<1>4. CASE n <= l
  <2>1. FetchedBody(body) = SubSeq(s, 1, n)
    BY <1>4, <1>6
  <2>2. SubSeq(s, 1, n) = s
    BY <1>1, <1>2
  <2> QED BY <1>1, <2>1, <2>2
<1>5. CASE n > l
  <2>1. PICK k \in 1..n : k = l + 1
    BY <1>5
  <2>2. FetchedBody(body) = SubSeq(s, 1, k)
    BY <1>5, <1>6, <2>1
  <2>3. PICK f : f = SubSeq(s, 1, k)
    OBVIOUS
  <2>4. f \in Seq(Characters) /\ Len(f) = k /\ \A i \in 1..k : f[i] = s[i]
    BY <1>1, <1>2, <2>3
  <2>5. SubSeq(f, 1, l) = SubSeq(s, 1, l)
    <3>1. SubSeq(f, 1, l) = [i \in 1..l |-> f[i]]
      BY <2>1, <2>4
    <3>2. SubSeq(s, 1, l) = [i \in 1..l |-> s[i]]
      BY <1>1, <1>2, <1>5
    <3>3. \A i \in 1..l : f[i] = s[i]
      BY <2>1, <2>4
    <3> QED BY <3>1, <3>2, <3>3
  <2>6. MakePostExcerpt(f) = Append(SubSeq(f, 1, l), Ellipsis)
    BY <1>1, <2>1, <2>4 DEF MakePostExcerpt
  <2>7. MakePostExcerpt(s) = Append(SubSeq(s, 1, l), Ellipsis)
    BY <1>1, <1>5 DEF MakePostExcerpt
  <2> QED BY <1>1, <2>2, <2>3, <2>5, <2>6, <2>7
<1> QED BY <1>4, <1>5

\* The cut that the database makes never shows in an excerpt, whatever the length
\* of an excerpt and of a body.
THEOREM BackendsAlwaysGiveSameExcerpts == Spec => []BackendsGiveSameExcerpts
<1>1. BackendsGiveSameExcerpts
  BY ExcerptOfFetched DEF BackendsGiveSameExcerpts
<1> QED BY <1>1, PTL
==============================================================================
