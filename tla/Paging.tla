------------------------------- MODULE Paging -------------------------------
(***************************************************************************)
(* Clients that walk a list page by page while the list changes: the       *)
(* comments of a post, the replies of a comment (post(id) { comments },    *)
(* comment(id) { replies }) and the list of posts.                         *)
(*                                                                         *)
(* Every page is a request of its own.  For a page of a thread the request *)
(* first looks up the post or the comment the thread hangs from and then   *)
(* reads the page in a second critical section, so the thread may be gone  *)
(* in between; a page of posts is one critical section.  The client goes   *)
(* on with the endCursor of a page while hasNextPage is true.              *)
(*                                                                         *)
(* The store does whatever MemoryStore allows, except that ids are fresh   *)
(* (uuid.NewString) and that no post is closed for comments, which nothing *)
(* that reads a list looks at.                                             *)
(***************************************************************************)
EXTENDS MemoryStore

CONSTANTS
  Readers,           \* the clients
  Limits,            \* values of "first", after limitFromPointer: 0 is none given
  DefaultPageSize,   \* 20 in the code
  MaxPageSize,       \* 50 in the code
  AllPosts,          \* stands for the list of posts
  ThreadsRead        \* the threads clients walk in this instance; they may also
                     \* walk the list of posts

ASSUME PageSizesAreOrdered ==
  /\ DefaultPageSize \in Nat \ {0} /\ MaxPageSize \in Nat
  /\ DefaultPageSize <= MaxPageSize
ASSUME LimitsAreIntegers == Limits \subseteq Int
ASSUME ThreadsAreTyped == ThreadsRead \subseteq Key

VARIABLES
  reader,         \* client -> what it walks and how far it has come
  usedPostIDs,    \* post ids handed out so far
  usedCommentIDs, \* comment ids handed out so far
  late            \* history: what was stored behind a client's back, at a place
                  \* it had already passed

pagingVars == <<posts, comments, commentsByParent, reader, usedPostIDs, usedCommentIDs, late>>

Lists == ThreadsRead \cup {AllPosts}

\* Entries of comments and of posts
AnyEntry == [createdAt : Times, id : CommentIDs \cup PostIDs]

ASSUME NoCursorIsNoPlace == NoCursor \notin AnyEntry

Unstarted == [pc |-> "unstarted"]
Walk == [pc       : {"look up", "read", "done", "not found"},
         list     : Lists,
         limit    : Limits,
         cursor   : AnyEntry \cup {NoCursor},
         answered : Seq(AnyEntry)]

PagingTypeOK ==
  /\ reader \in [Readers -> {Unstarted} \cup Walk]
  /\ usedPostIDs \subseteq PostIDs
  /\ usedCommentIDs \subseteq CommentIDs
  /\ late \in [Readers -> SUBSET AnyEntry]

PagingInit ==
  /\ Init
  /\ reader = [r \in Readers |-> Unstarted]
  /\ usedPostIDs = {}
  /\ usedCommentIDs = {}
  /\ late = [r \in Readers |-> {}]

(***************************************************************************)
(* The client and the resolvers.                                           *)
(***************************************************************************)
normalizePageLimit(limit) ==
  IF limit <= 0 THEN DefaultPageSize
  ELSE IF limit > MaxPageSize THEN MaxPageSize
  ELSE limit

\* Connections: an edge is known by its cursor, which is the entry of its node.
endCursor(edges) == IF edges = <<>> THEN NoCursor ELSE Last(edges)

Connection(edges, hasNextPage) ==
  [edges |-> edges, endCursor |-> endCursor(edges), hasNextPage |-> hasNextPage]

\* The resolver of posts and those of comments and replies: the cursor of the
\* next page only decides hasNextPage.
PostsPage(limit, cursor) ==
  LET page == ListPosts(normalizePageLimit(limit), cursor)
  IN  Connection([i \in 1..Len(page.posts) |-> EntryOf(page.posts[i], posts[page.posts[i]])],
                 page.nextCursor # NoCursor)

CommentsPage(key, limit, cursor) ==
  LET page == ListByPostAndParent(key, normalizePageLimit(limit), cursor)
  IN  Connection([i \in 1..Len(page.comments) |->
                    EntryOf(page.comments[i], comments[page.comments[i]])],
                 page.nextCursor # NoCursor)

PageOf(walk) ==
  IF walk.list = AllPosts THEN PostsPage(walk.limit, walk.cursor)
                          ELSE CommentsPage(walk.list, walk.limit, walk.cursor)

Start(r, list, limit) ==
  /\ reader[r] = Unstarted
  /\ reader' = [reader EXCEPT ![r] =
                  [pc |-> IF list = AllPosts THEN "read" ELSE "look up",
                   list |-> list, limit |-> limit, cursor |-> NoCursor, answered |-> <<>>]]
  /\ UNCHANGED <<posts, comments, commentsByParent, usedPostIDs, usedCommentIDs, late>>

\* GetPost or GetComment; a soft-deleted comment is found.  Replies are asked for
\* with the post of the comment itself.
LookUp(r) ==
  /\ reader[r].pc = "look up"
  /\ LET list  == reader[r].list
         found == IF list.parentID = NoParent
                  THEN posts[list.postID] # Absent
                  ELSE /\ comments[list.parentID] # Absent
                       /\ comments[list.parentID].postID = list.postID
     IN  reader' = [reader EXCEPT ![r].pc = IF found THEN "read" ELSE "not found"]
  /\ UNCHANGED <<posts, comments, commentsByParent, usedPostIDs, usedCommentIDs, late>>

\* The page itself: an empty one if the thread has gone since the look-up.
ReadPage(r) ==
  /\ reader[r].pc = "read"
  /\ LET walk == reader[r]
         page == PageOf(walk)
         next == IF ~ page.hasNextPage THEN "done"
                 ELSE IF walk.list = AllPosts THEN "read" ELSE "look up"
     IN  reader' = [reader EXCEPT ![r] =
                      [walk EXCEPT !.pc = next,
                                   !.answered = @ \o page.edges,
                                   !.cursor = IF page.hasNextPage THEN page.endCursor ELSE @]]
  /\ UNCHANGED <<posts, comments, commentsByParent, usedPostIDs, usedCommentIDs, late>>

(***************************************************************************)
(* The store meanwhile.                                                    *)
(***************************************************************************)

\* What the list holds now
Entries(list) ==
  IF list = AllPosts
  THEN {EntryOf(p, posts[p]) : p \in {q \in PostIDs : posts[q] # Absent}}
  ELSE {EntryOf(c, comments[c]) : c \in {d \in CommentIDs :
          comments[d] # Absent /\ makePostParentKey(comments[d]) = list}}

\* a comes before b in the list: comments oldest first, posts newest first
Before(list, a, b) == IF list = AllPosts THEN Precedes(b, a) ELSE Precedes(a, b)

\* The client has passed the place of the entry, or has read the last page.
Passed(walk, entry) ==
  \/ walk.pc = "done"
  \/ walk.cursor # NoCursor /\ ~ Before(walk.list, walk.cursor, entry)

StoreMoves ==
  /\ \/ \E id \in CommentIDs \ usedCommentIDs, c \in Comment :
          /\ ~ c.deleted /\ CreateComment(id, c)
          /\ usedCommentIDs' = usedCommentIDs \cup {id}
          /\ UNCHANGED usedPostIDs
     \/ \E id \in PostIDs \ usedPostIDs, p \in Post :
          /\ p.commentsEnabled /\ CreatePost(id, p)
          /\ usedPostIDs' = usedPostIDs \cup {id}
          /\ UNCHANGED usedCommentIDs
     \/ /\ \/ \E id \in CommentIDs, a \in AuthorIDs : DeleteComment(id, a)
           \/ \E id \in PostIDs, a \in AuthorIDs : DeletePost(id, a)
        /\ UNCHANGED <<usedPostIDs, usedCommentIDs>>
  /\ UNCHANGED reader
  /\ late' = [r \in Readers |->
                IF reader[r] = Unstarted THEN {}
                ELSE late[r] \cup {e \in (Entries(reader[r].list)') \ Entries(reader[r].list) :
                                     Passed(reader[r], e)}]

PagingNext ==
  \/ \E r \in Readers, list \in Lists, limit \in Limits : Start(r, list, limit)
  \/ \E r \in Readers : LookUp(r) \/ ReadPage(r)
  \/ StoreMoves

PagingSpec == PagingInit /\ [][PagingNext]_pagingVars

(***************************************************************************)
(* Properties.                                                             *)
(***************************************************************************)

\* Over all its pages a client gets the entries strictly in the order of the
\* list, hence none twice, whatever is stored, deleted or removed between two
\* pages (the cursors of ListByPostAndParent 118-128 and List 80-104).
PagesAscend ==
  \A r \in Readers : reader[r] # Unstarted =>
    \A i, j \in 1..Len(reader[r].answered) :
      i < j => Before(reader[r].list, reader[r].answered[i], reader[r].answered[j])

\* A client misses only what is stored behind its back: whatever is in the list
\* at a place the client has passed has been answered, unless it was stored
\* there later.  (Times are read before the lock is taken, so that does happen:
\* a comment may be stored in front of one that was created after it.)
MissedOnlyIfLate ==
  \A r \in Readers : reader[r] # Unstarted =>
    \A e \in Entries(reader[r].list) :
      Passed(reader[r], e) => e \in ToSet(reader[r].answered) \cup late[r]
==============================================================================
