----------------------------- MODULE MemoryStore -----------------------------
(***************************************************************************)
(* The in-memory store (internal/storage/memory) and its two repositories. *)
(*                                                                         *)
(* Every repository method runs inside one critical section of Store.mu,   *)
(* so each of them is one atomic action here, for any arguments a caller   *)
(* may pass.  A method that returns an error changes nothing: the errors   *)
(* are operators (the ...Error operators, in the order of the code's early *)
(* returns) and an action is enabled exactly when there is none.           *)
(*                                                                         *)
(* Data left out: titles, bodies, texts and Post.UpdatedAt, which are      *)
(* stored and handed back and which nothing in the store looks at.  Of     *)
(* DeletedAt the code only ever asks whether it is nil, so it is the flag  *)
(* "deleted".  Ids and times are naturals because all the code does with   *)
(* them is compare them.  Times are not assumed to grow: they come from a  *)
(* wall clock (time.Now().UTC()) read before the lock is taken.            *)
(***************************************************************************)
EXTENDS Integers, Sequences, FiniteSets, SequencesExt

CONSTANTS
  PostIDs,      \* ids of posts
  CommentIDs,   \* ids of comments
  AuthorIDs,    \* names of authors
  Times,        \* instants
  NoParent,     \* a nil ParentID
  NoCursor,     \* a nil cursor
  Absent        \* what a map holds for a missing key

\* domain.Post and domain.Comment, keyed by their id
Post == [authorID : AuthorIDs, commentsEnabled : BOOLEAN, createdAt : Times]

Comment == [postID    : PostIDs,
            parentID  : CommentIDs \cup {NoParent},
            authorID  : AuthorIDs,
            createdAt : Times,
            deleted   : BOOLEAN]

\* commentIndexEntry; a CommentCursor and a PostCursor have the same fields
Entry == [createdAt : Times, id : CommentIDs]

\* postParentKey: a nil parent is the key without parent
Key == [postID : PostIDs, parentID : CommentIDs \cup {NoParent}]

ASSUME IDsAreOrdered == PostIDs \subseteq Nat /\ CommentIDs \subseteq Nat
ASSUME TimesAreOrdered == Times \subseteq Nat
ASSUME NoParentIsNoComment == NoParent \notin CommentIDs
ASSUME AbsentIsNoValue == Absent \notin Post /\ Absent \notin Comment
ASSUME NoCursorIsNoEntry == NoCursor \notin Entry

VARIABLES
  posts,             \* map[string]domain.Post
  comments,          \* map[string]domain.Comment
  commentsByParent   \* map[postParentKey][]commentIndexEntry

storeVars == <<posts, comments, commentsByParent>>

TypeOK ==
  /\ posts \in [PostIDs -> Post \cup {Absent}]
  /\ comments \in [CommentIDs -> Comment \cup {Absent}]
  /\ commentsByParent \in [Key -> Seq(Entry)]

Init ==
  /\ posts = [p \in PostIDs |-> Absent]
  /\ comments = [c \in CommentIDs |-> Absent]
  /\ commentsByParent = [key \in Key |-> <<>>]

(***************************************************************************)
(* The order of the index: ascending by (CreatedAt, ID).                   *)
(***************************************************************************)
Precedes(a, b) ==
  \/ a.createdAt < b.createdAt
  \/ a.createdAt = b.createdAt /\ a.id < b.id

\* The elements of S in ascending order (sort.Slice; ORDER BY)
Ascending(S, lt(_, _)) ==
  CHOOSE s \in [1..Cardinality(S) -> S] :
    \A i, j \in 1..Cardinality(S) : i < j => lt(s[i], s[j])

\* sort.Search over a slice: the least index with the wanted property, or one
\* past the end.  The two predicates the code searches with are these.
FirstNotBefore(entries, entry) ==
  Min({i \in 1..Len(entries) : ~ Precedes(entries[i], entry)}
        \cup {Len(entries) + 1})

\* Seeded faults: entries of the same instant as the cursor are lost, and the
\* entry at the cursor is taken again.
FirstLater(entries, cursor) ==
  Min({i \in 1..Len(entries) : entries[i].createdAt > cursor.createdAt}
        \cup {Len(entries) + 1})

FirstNotBeforeCursor(entries, cursor) ==
  Min({i \in 1..Len(entries) : ~ Precedes(entries[i], cursor)}
        \cup {Len(entries) + 1})

FirstAfter(entries, cursor) ==
  Min({i \in 1..Len(entries) : Precedes(cursor, entries[i])}
        \cup {Len(entries) + 1})

insertSortedEntry(entries, entry) ==
  InsertAt(entries, FirstNotBefore(entries, entry), entry)

makePostParentKey(comment) ==
  [postID |-> comment.postID, parentID |-> comment.parentID]

EntryOf(id, comment) == [createdAt |-> comment.createdAt, id |-> id]

(***************************************************************************)
(* CommentRepository.                                                      *)
(***************************************************************************)
\* Seeded fault: a parent need only be stored.
CreateCommentErrorAnyPost(id, comment) ==
  IF comment.parentID # NoParent /\ comments[comment.parentID] = Absent
    THEN "ErrCommentNotFound"
  ELSE IF comments[id] # Absent THEN "ErrAlreadyExists"
  ELSE "nil"

CreateCommentError(id, comment) ==
  IF comment.parentID # NoParent /\ comments[comment.parentID] = Absent
    THEN "ErrCommentNotFound"
  ELSE IF comment.parentID # NoParent /\ comments[comment.parentID].deleted
    THEN "ErrCommentNotFound"
  ELSE IF /\ comment.parentID # NoParent
          /\ comments[comment.parentID].postID # comment.postID
    THEN "ErrInvalidParentComment"
  ELSE IF comments[id] # Absent
    THEN "ErrAlreadyExists"
  ELSE "nil"

\* Create: the comment and its index entry.  The post is not looked at.
CreateComment(id, comment) ==
  /\ CreateCommentError(id, comment) = "nil"
  /\ comments' = [comments EXCEPT ![id] = comment]
  /\ commentsByParent' =
       [commentsByParent EXCEPT ![makePostParentKey(comment)] =
          insertSortedEntry(@, EntryOf(id, comment))]
  /\ UNCHANGED posts

DeleteCommentError(id, authorID) ==
  IF comments[id] = Absent                 THEN "ErrCommentNotFound"
  ELSE IF comments[id].authorID # authorID THEN "ErrForbidden"
  ELSE IF comments[id].deleted             THEN "ErrCommentNotFound"
  ELSE "nil"

\* Seeded fault: a hard delete.
RemoveComment(id, authorID) ==
  /\ DeleteCommentError(id, authorID) = "nil"
  /\ comments' = [comments EXCEPT ![id] = Absent]
  /\ UNCHANGED <<posts, commentsByParent>>

\* Delete: a soft delete, the comment keeps its place in the index.
DeleteComment(id, authorID) ==
  /\ DeleteCommentError(id, authorID) = "nil"
  /\ comments' = [comments EXCEPT ![id].deleted = TRUE]
  /\ UNCHANGED <<posts, commentsByParent>>

\* The loop over a slice of the index: the ids that have a comment
Found(entries) ==
  LET found[i \in 0..Len(entries)] ==
        IF i = 0 THEN <<>>
        ELSE IF comments[entries[i].id] # Absent THEN Append(found[i - 1], entries[i].id)
        ELSE found[i - 1]
  IN  found[Len(entries)]

\* ListByPostAndParent: up to limit + 1 entries from the first one after the
\* cursor; the extra one only tells that there is a next page.
ListByPostAndParent(key, limit, cursor) ==
  LET entries == commentsByParent[key]
      start   == IF cursor = NoCursor THEN 1 ELSE FirstAfter(entries, cursor)
      end     == Min({start + limit, Len(entries)})
      page    == Found(SubSeq(entries, start, end))
  IN  IF limit <= 0 THEN [comments |-> <<>>, nextCursor |-> NoCursor]
      ELSE IF Len(page) > limit
      THEN [comments   |-> SubSeq(page, 1, limit),
            nextCursor |-> EntryOf(page[limit], comments[page[limit]])]
      ELSE [comments |-> page, nextCursor |-> NoCursor]

(***************************************************************************)
(* PostRepository.                                                         *)
(***************************************************************************)
CreatePost(id, post) ==
  /\ posts[id] = Absent
  /\ posts' = [posts EXCEPT ![id] = post]
  /\ UNCHANGED <<comments, commentsByParent>>

\* The checks that SetCommentsEnabled and Delete share
PostAccessError(id, authorID) ==
  IF posts[id] = Absent                 THEN "ErrPostNotFound"
  ELSE IF posts[id].authorID # authorID THEN "ErrForbidden"
  ELSE "nil"

\* Seeded fault: the flag is toggled.
ToggleCommentsEnabled(id, authorID, enabled) ==
  /\ PostAccessError(id, authorID) = "nil"
  /\ posts' = [posts EXCEPT ![id].commentsEnabled = ~ @]
  /\ UNCHANGED <<comments, commentsByParent>>

SetCommentsEnabled(id, authorID, enabled) ==
  /\ PostAccessError(id, authorID) = "nil"
  /\ posts' = [posts EXCEPT ![id].commentsEnabled = enabled]
  /\ UNCHANGED <<comments, commentsByParent>>

\* Seeded fault: the cascade looks at root comments only.
RootsIndexedUnder(id) ==
  {c \in CommentIDs : \E i \in 1..Len(commentsByParent[[postID |-> id, parentID |-> NoParent]]) :
     commentsByParent[[postID |-> id, parentID |-> NoParent]][i].id = c}

\* What the cascade of Delete removes: the ids it finds in the index entries
\* of the post, not the comments that carry the id of the post.
IndexedUnder(id) ==
  {c \in CommentIDs : \E key \in Key : /\ key.postID = id
                                       /\ \E i \in 1..Len(commentsByParent[key]) :
                                            commentsByParent[key][i].id = c}

\* Seeded fault: the cascade forgets the index.
DeletePostKeepIndex(id, authorID) ==
  /\ PostAccessError(id, authorID) = "nil"
  /\ comments' = [c \in CommentIDs |->
                    IF c \in IndexedUnder(id) THEN Absent ELSE comments[c]]
  /\ posts' = [posts EXCEPT ![id] = Absent]
  /\ UNCHANGED commentsByParent

DeletePost(id, authorID) ==
  /\ PostAccessError(id, authorID) = "nil"
  /\ comments' = [c \in CommentIDs |->
                    IF c \in IndexedUnder(id) THEN Absent ELSE comments[c]]
  /\ commentsByParent' = [key \in Key |->
                    IF key.postID = id THEN <<>> ELSE commentsByParent[key]]
  /\ posts' = [posts EXCEPT ![id] = Absent]

\* Seeded fault: the post at the cursor is taken again.
isPostAtOrAfterCursor(id, cursor) ==
  \/ posts[id].createdAt < cursor.createdAt
  \/ posts[id].createdAt = cursor.createdAt /\ id <= cursor.id

\* List: posts descending by (CreatedAt, ID), from the first one behind the
\* cursor on; again one post more than the limit tells of a next page.
isPostAfterCursor(id, cursor) ==
  \/ posts[id].createdAt < cursor.createdAt
  \/ posts[id].createdAt = cursor.createdAt /\ id < cursor.id

ListPosts(limit, cursor) ==
  LET stored == {p \in PostIDs : posts[p] # Absent}
      behind == {p \in stored : cursor = NoCursor \/ isPostAfterCursor(p, cursor)}
      sorted == Ascending(behind, LAMBDA p, q : isPostAfterCursor(q, EntryOf(p, posts[p])))
      page   == SubSeq(sorted, 1, Min({limit, Len(sorted)}))
  IN  IF limit <= 0 THEN [posts |-> <<>>, nextCursor |-> NoCursor]
      ELSE [posts      |-> page,
            nextCursor |-> IF Len(sorted) > limit
                           THEN EntryOf(page[limit], posts[page[limit]])
                           ELSE NoCursor]

(***************************************************************************)
(* Every sequence of calls, with every argument a caller may pass: a new   *)
(* comment carries no DeletedAt, the only other thing callers promise.     *)
(***************************************************************************)
StoreStep ==
  \/ \E id \in CommentIDs, c \in Comment : ~ c.deleted /\ CreateComment(id, c)
  \/ \E id \in CommentIDs, a \in AuthorIDs : DeleteComment(id, a)
  \/ \E id \in PostIDs, p \in Post : CreatePost(id, p)
  \/ \E id \in PostIDs, a \in AuthorIDs, e \in BOOLEAN : SetCommentsEnabled(id, a, e)
  \/ \E id \in PostIDs, a \in AuthorIDs : DeletePost(id, a)

Spec == Init /\ [][StoreStep]_storeVars

(***************************************************************************)
(* Properties.                                                             *)
(***************************************************************************)

\* Every index entry stands for a stored comment of exactly that post, parent
\* and creation time: no entry survives the comment it names, none is filed
\* under another thread (Create 45-49, the cascade of Delete 159-167).
IndexExact ==
  \A key \in Key : \A i \in 1..Len(commentsByParent[key]) :
    LET entry == commentsByParent[key][i]
    IN  /\ comments[entry.id] # Absent
        /\ makePostParentKey(comments[entry.id]) = key
        /\ comments[entry.id].createdAt = entry.createdAt

\* Every stored comment, deleted or not, is found in the index under its own
\* post and parent.  The cascade of Delete relies on it: a comment the index
\* does not know would outlive its post.
IndexComplete ==
  \A c \in CommentIDs :
    comments[c] # Absent =>
      \E i \in 1..Len(commentsByParent[makePostParentKey(comments[c])]) :
        commentsByParent[makePostParentKey(comments[c])][i].id = c

\* The index is strictly ascending by (CreatedAt, ID), whatever order comments
\* arrive in and however their clocks relate: this is what both binary
\* searches of the comment repository assume of the slice they search.
IndexSorted ==
  \A key \in Key : \A i, j \in 1..Len(commentsByParent[key]) :
    i < j => Precedes(commentsByParent[key][i], commentsByParent[key][j])

\* The index and the map of comments say the same, in the right order: what pages
\* (ListByPostAndParent 97-151), inserts (215-236) and cascades (post_repository.go
\* 159-167) read in the one is true of the other.
IndexIsFaithful == IndexExact /\ IndexComplete /\ IndexSorted

\* A stored reply has its parent stored, under the same post, also after any
\* cascade (Create 29-39 checks it when the reply is stored, and nothing
\* checks it again).
ThreadIntegrity ==
  \A c \in CommentIDs :
    comments[c] # Absent /\ comments[c].parentID # NoParent =>
      /\ comments[comments[c].parentID] # Absent
      /\ comments[comments[c].parentID].postID = comments[c].postID

\* No thread of replies is cyclic: every non-empty set of stored comments has
\* one whose parent is outside the set.
NoReplyCycle ==
  \A S \in SUBSET {c \in CommentIDs : comments[c] # Absent} :
    S # {} => \E c \in S : comments[c].parentID \notin S

\* Replies form trees, each within one post, after any inserts and cascades.
ThreadsAreTrees == ThreadIntegrity /\ NoReplyCycle

\* What a page of a thread should be, said without the index: the comments of
\* the thread behind the cursor, in order, cut at the limit, with a cursor
\* exactly when some are left.
ExpectedPage(key, limit, cursor) ==
  LET thread == {c \in CommentIDs :
                   /\ comments[c] # Absent
                   /\ makePostParentKey(comments[c]) = key
                   /\ cursor = NoCursor \/ Precedes(cursor, EntryOf(c, comments[c]))}
      sorted == Ascending(thread, LAMBDA c, d : Precedes(EntryOf(c, comments[c]),
                                                         EntryOf(d, comments[d])))
  IN  [comments   |-> SubSeq(sorted, 1, Min({limit, Len(sorted)})),
       nextCursor |-> IF Len(sorted) > limit
                      THEN EntryOf(sorted[limit], comments[sorted[limit]])
                      ELSE NoCursor]

\* In every reachable state, for every thread, limit and cursor (also one that
\* names no stored comment), the page the binary search cuts out of the index
\* is the page a scan of all comments would give (ListByPostAndParent 118-151).
PagesAreExact ==
  \A key \in Key, limit \in 1..Cardinality(CommentIDs), cursor \in Entry \cup {NoCursor} :
    ListByPostAndParent(key, limit, cursor) = ExpectedPage(key, limit, cursor)

\* A stored comment never changes its post, parent, author or creation time, is
\* never undeleted, and leaves the store only together with its post.
CommentHistory ==
  [][\A c \in CommentIDs :
       comments[c] # Absent =>
         IF comments'[c] # Absent
         THEN /\ [comments[c] EXCEPT !.deleted = TRUE] = [comments'[c] EXCEPT !.deleted = TRUE]
              /\ comments[c].deleted => comments'[c].deleted
         ELSE posts[comments[c].postID] # posts'[comments[c].postID]]_storeVars

\* The step that removes a post removes every comment of that post and no
\* other, although it never looks at the post ids the comments carry.
CascadeIsExact ==
  [][\A p \in PostIDs :
       posts[p] # Absent /\ posts'[p] = Absent =>
         \A c \in CommentIDs :
           comments'[c] = IF comments[c] # Absent /\ comments[c].postID = p
                          THEN Absent ELSE comments[c]]_storeVars

\* The contract of a back end without foreign keys: a comment needs no post, but
\* its parent must not be soft-deleted.  Times and the index are hidden.
PostRow(post) == [authorID |-> post.authorID, commentsEnabled |-> post.commentsEnabled]

CommentRow(comment) == [postID   |-> comment.postID,   parentID |-> comment.parentID,
                        authorID |-> comment.authorID, deleted  |-> comment.deleted]

ContractPosts ==
  [p \in PostIDs |-> IF posts[p] = Absent THEN Absent ELSE PostRow(posts[p])]

ContractComments ==
  [c \in CommentIDs |-> IF comments[c] = Absent THEN Absent ELSE CommentRow(comments[c])]

Contract == INSTANCE StoreContract
              WITH posts <- ContractPosts, comments <- ContractComments,
                   PostRequired <- FALSE, LiveParentRequired <- TRUE

ASSUME AbsentIsNoRow == Absent \notin Contract!StoredPost /\ Absent \notin Contract!StoredComment

\* Every call is one write of the contract or none: a deleted post takes exactly
\* its comments along although the cascade goes by the index alone
\* (post_repository.go 146-172), a comment keeps its post, parent and author, is
\* never undeleted, and leaves the store only together with its post.
ImplementsContract == Contract!Spec
==============================================================================
