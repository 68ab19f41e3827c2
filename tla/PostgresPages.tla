---------------------------- MODULE PostgresPages ----------------------------
(***************************************************************************)
(* The reading side of the PostgreSQL repositories: the one query that     *)
(* answers a batch of page requests                                        *)
(* (internal/storage/postgres/comment_repository.go), the list of posts    *)
(* and the cut of a post's body that it reads (post_repository.go).        *)
(*                                                                         *)
(* A query reads one snapshot of its table.  The tables are "comments" and *)
(* "posts" of MemoryStore, in every state its operations reach, so that    *)
(* the pages of the two back ends can be compared.  SQL's row comparison   *)
(* (created_at, id) > (...) is the lexicographic order, Precedes.          *)
(*                                                                         *)
(* The services pass limits that are positive (normalizePageLimit); both   *)
(* repositories also have a branch for 0, which is modelled.  A negative   *)
(* limit, which nobody passes, is left out.                                *)
(***************************************************************************)
EXTENDS MemoryStore

CONSTANTS
  PostExcerptLength,   \* 300 in the code
  Ellipsis,            \* what follows an excerpt that was cut
  Batches,             \* sequences of ports.CommentListRequest to ask for
  Characters,          \* runes; the three dots count as one
  Bodies               \* bodies of posts, as sequences of characters

Request == [key : Key, limit : Nat, cursor : Entry \cup {NoCursor}]

ASSUME BatchesAreTyped == Batches \subseteq Seq(Request)
ASSUME ExcerptsAreTyped ==
  PostExcerptLength \in Nat /\ Ellipsis \in Characters /\ Bodies \subseteq Seq(Characters)

(***************************************************************************)
(* The query: a row per comment, with the index of its request.            *)
(***************************************************************************)

\* Seeded fault: LIMIT page_limit.
ListedCommentsWithoutExtra(request) ==
  LET listed == {c \in CommentIDs :
                   /\ comments[c] # Absent
                   /\ makePostParentKey(comments[c]) = request.key
                   /\ \/ request.cursor = NoCursor
                      \/ Precedes(request.cursor, EntryOf(c, comments[c]))}
      sorted == Ascending(listed, LAMBDA c, d : Precedes(EntryOf(c, comments[c]),
                                                         EntryOf(d, comments[d])))
  IN  SubSeq(sorted, 1, Min({request.limit, Len(sorted)}))

\* The LATERAL subquery: WHERE, ORDER BY, LIMIT page_limit + 1
ListedComments(request) ==
  LET listed == {c \in CommentIDs :
                   /\ comments[c] # Absent
                   /\ comments[c].postID = request.key.postID
                   /\ comments[c].parentID = request.key.parentID
                   /\ \/ request.cursor = NoCursor
                      \/ Precedes(request.cursor, EntryOf(c, comments[c]))}
      sorted == Ascending(listed, LAMBDA c, d : Precedes(EntryOf(c, comments[c]),
                                                         EntryOf(d, comments[d])))
  IN  SubSeq(sorted, 1, Min({request.limit + 1, Len(sorted)}))

RowsOf(index, request) ==
  LET listed == ListedComments(request)
  IN  [k \in 1..Len(listed) |-> [requestIndex |-> index, id |-> listed[k]]]

\* ORDER BY request_index, created_at, id.  Requests without a limit are left out of
\* the query; those that stay keep their index in the batch.
QueryRows(batch) ==
  LET rows[i \in 0..Len(batch)] ==
        IF i = 0 THEN <<>>
        ELSE IF batch[i].limit > 0 THEN rows[i - 1] \o RowsOf(i, batch[i])
        ELSE rows[i - 1]
  IN  rows[Len(batch)]

(***************************************************************************)
(* ListByPostAndParents: rows are appended to the page of their request,   *)
(* then each page is cut at its limit.                                     *)
(***************************************************************************)
Scanned(batch, rows) ==
  LET pages[k \in 0..Len(rows)] ==
        IF k = 0 THEN [i \in 1..Len(batch) |-> <<>>]
        ELSE [pages[k - 1] EXCEPT ![rows[k].requestIndex] = Append(@, rows[k].id)]
  IN  pages[Len(rows)]

CutPage(ids, limit) ==
  IF Len(ids) <= limit
    THEN [comments |-> ids, nextCursor |-> NoCursor]
    ELSE [comments   |-> SubSeq(ids, 1, limit),
          nextCursor |-> EntryOf(ids[limit], comments[ids[limit]])]

ListByPostAndParents(batch) ==
  LET pages == Scanned(batch, QueryRows(batch))
  IN  [i \in 1..Len(batch) |-> CutPage(pages[i], batch[i].limit)]

(***************************************************************************)
(* List of the posts, newest first: WHERE, ORDER BY, LIMIT limit + 1, and  *)
(* the cut of the page.                                                    *)
(***************************************************************************)
ListedPosts(limit, cursor) ==
  LET behind == {p \in PostIDs : /\ posts[p] # Absent
                                 /\ \/ cursor = NoCursor
                                    \/ Precedes(EntryOf(p, posts[p]), cursor)}
      sorted == Ascending(behind, LAMBDA p, q : Precedes(EntryOf(q, posts[q]),
                                                         EntryOf(p, posts[p])))
  IN  SubSeq(sorted, 1, Min({limit + 1, Len(sorted)}))

SelectPosts(limit, cursor) ==
  LET rows == ListedPosts(limit, cursor)
  IN  IF limit <= 0 \/ rows = <<>> THEN [posts |-> <<>>, nextCursor |-> NoCursor]
      ELSE [posts      |-> SubSeq(rows, 1, Min({limit, Len(rows)})),
            nextCursor |-> IF Len(rows) > limit
                           THEN EntryOf(rows[limit], posts[rows[limit]]) ELSE NoCursor]

(***************************************************************************)
(* The excerpt of a post.  A body is the sequence of its characters; both  *)
(* []rune and SUBSTRING count those.                                       *)
(***************************************************************************)
MakePostExcerpt(body) ==
  IF Len(body) <= PostExcerptLength
    THEN body
    ELSE Append(SubSeq(body, 1, PostExcerptLength), Ellipsis)

\* Seeded fault: the database cuts as short as the excerpt is.
FetchedBodyAsLongAsExcerpt(body) == SubSeq(body, 1, Min({Len(body), PostExcerptLength}))

\* SUBSTRING(body, 1, PostExcerptLength + 1)
FetchedBody(body) == SubSeq(body, 1, Min({Len(body), PostExcerptLength + 1}))

(***************************************************************************)
(* Properties.                                                             *)
(***************************************************************************)

\* In every state, every batch is answered with the pages that the index of the
\* in-memory back end gives for its requests one by one: the right comments, in
\* the place of their request, also when requests are left out of the query,
\* occur twice or overlap, and with a cursor exactly when some are left
\* (comment_repository.go 150-304 of PostgreSQL, 97-181 in memory).  So is every
\* request for posts (post_repository.go 86-170 of PostgreSQL, 57-109 in memory).
BackendsGiveSamePages ==
  /\ \A batch \in Batches :
       ListByPostAndParents(batch) =
         [i \in 1..Len(batch) |->
            ListByPostAndParent(batch[i].key, batch[i].limit, batch[i].cursor)]
  /\ \A limit \in 0..Cardinality(PostIDs), cursor \in [createdAt : Times, id : PostIDs] \cup {NoCursor} :
       SelectPosts(limit, cursor) = ListPosts(limit, cursor)

\* Whatever the body of a stored post is, the excerpt of what the database cut is
\* the excerpt of the whole body, as the in-memory back end makes it: the cut
\* leaves one character that tells a body of exactly PostExcerptLength from a
\* longer one (post_repository.go 110, 150).
BackendsGiveSameExcerpts ==
  \A p \in PostIDs, body \in Bodies :
    posts[p] # Absent => MakePostExcerpt(FetchedBody(body)) = MakePostExcerpt(body)
==============================================================================
