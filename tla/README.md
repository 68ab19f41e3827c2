# Verification of posts-comments-service

TLA+ models of the service, TLC configurations that check them on small
instances, and TLAPS proofs for every instance. All paths below are relative to
the root of the repository (`src/` here).

## 1. The system

| component | state | operations | interacts with |
|---|---|---|---|
| in-memory store (`internal/storage/memory`) | posts, comments, and per thread a slice of `(CreatedAt, ID)` sorted ascending; one `RWMutex` | post and comment repository: create, get, list, soft delete, cascade, open/close for comments | called by the services |
| PostgreSQL repositories (`internal/storage/postgres`, `migrations`) | two tables with foreign keys, a connection pool | the same operations as SQL, a transaction for replies, one batch query for pages | called by the services |
| services (`internal/app`) | none | `CreatePost`, `DeletePost`, `SetCommentsEnabled`, `AddComment`, `DeleteComment`, listings | several repository calls per request, then the broker |
| subscription broker (`internal/subscriptions`) | post -> channel -> closer; channels of 16; a `sync.Once` per channel; one goroutine per subscription; one `RWMutex` | publish, subscribe, unsubscribe, `Shutdown` | called by `AddComment`, by the `commentAdded` resolver and by `main` |
| resolvers and connections (`internal/graph`) | none | queries, mutations, `commentAdded` with a forwarding goroutine | services, broker, page loader |
| generated code (`internal/graph/generated`) | per operation: the fields under way, a count of nulls per object | runs the fields of an operation, sequentially or concurrently, and propagates nulls | calls the resolvers |
| comment page loader (`comment_loader.go`) | pending loads, a "scheduled" flag | collects loads for 1 ms and answers them with one batch | resolvers above, comment service below |
| process (`cmd/api`, `internal/server`, `internal/config`) | | start; at SIGTERM `broker.Shutdown`, `httpServer.Shutdown` with 5 s, `pool.Close` | all |

What is hard here:

* a service request is several critical sections (look up the post, store the
  comment, publish), and any other request may run between two of them;
* over PostgreSQL a single repository call is several statements, which wait for
  row locks, may deadlock, and may fail before or after they took effect;
* times are read before the lock that orders the writes is taken, from a wall
  clock, so the index is filled in an order that is not the order of its keys;
* up to four parties may close one channel (its watcher, its user, a publisher
  that found it full, `Shutdown`) while publishers send on it;
* contexts end at any time, also in the middle of a publication;
* the fields of an operation run concurrently and wait for a batch that one of
  them has to start;
* lists are read page by page while they change;
* the broker is shut down while requests still publish and clients subscribe.

What makes each component correct is stated as properties below; the places
where it could go wrong are the `hazards` of `PROJECT.json`, those no property
covers included.

## 2. Modules

```
StoreContract          what a storage back end promises; abstract specification
  ^ implemented by
  |- MemoryStore       the in-memory store and its repositories
  |    |- CommentService    concurrent requests over it, one store call per step
  |    |- Paging            clients walking lists while the store moves
  |    |- PostgresPages     what the SQL queries answer in the same states
  |- PostgresStore     the SQL statements as concurrent transactions
CommentPageLoader      batching of page requests within one operation
  |- Execution         the fields of one operation over it (generated code)
EventContract          what the events of comments promise; abstract specification
  ^ implemented by
Broker                 the subscription broker
  |- Subscription      the commentAdded resolver and its goroutine over it
  |- Lifecycle         the end of the process over it
<module>_proofs        theorems; Paging_proofs also those on PostgresPages,
                       Execution_proofs on CommentPageLoader, BrokerUsers_proofs
                       on Subscription and Lifecycle
MC<module>                                                   TLC instances
```

Operators named in a comment "Seeded fault" are wrong on purpose. No
specification uses them; each is a variant of the definition that follows it,
and putting it in that definition's place makes the property named in
`PROJECT.json` (`mutants`) fail.

### StoreContract

`ports.PostRepository` and `ports.CommentRepository` without locks, indexes,
statements or errors: one step is one successful write. The two back ends do not
promise the same, which two constants say. `PostRequired`: a comment is stored
only on a stored post (PostgreSQL, by a foreign key; not the in-memory store).
`LiveParentRequired`: a reply is stored only under a comment that is not deleted at
that moment (the in-memory store; not PostgreSQL, see the findings below). Both
back ends are shown to implement it, each with its own values.

### EventContract

`ports.CommentEventPublisher` and `ports.CommentEventSubscriber` without locks,
channels, goroutines and closers. A subscription is a stream (`stream`) and how much
of it has been read (`read`); a publication finds the members of its post (`found`),
and either sends to one of them or, if the stream is `Capacity` ahead of its reader,
passes it over (`passed`). `Return` needs everybody passed over to be closed,
`Close` needs a `Reason`: the subscriber has left, a publication that has offered its
comment to everybody passed it over, or `Shutdown` found it. Only a cancelled
publication fails, and then forgets whom it passed over, which is what the code does
(the finding `EveryMissIsVisible` below).

### MemoryStore

`posts`, `comments` and `commentsByParent` are the three maps of `Store`.
Every repository method runs in one critical section, so each is one atomic
action: `CreateComment`, `DeleteComment`, `CreatePost`, `SetCommentsEnabled`,
`DeletePost`. The early returns are `CreateCommentError`, `DeleteCommentError`
and `PostAccessError`, in the order of the code; an action is enabled when there
is no error, and an error changes nothing. `insertSortedEntry`,
`ListByPostAndParent` and `ListPosts` are operators; `sort.Search` is "the least
index with the property" (`FirstNotBefore`, `FirstAfter`), which is what it
returns on a slice that is sorted, and `IndexIsFaithful` shows it is.
`Spec` allows every sequence of calls with every argument; it does not even
assume that a post exists when a comment is created on it, because the code does
not look. `Contract` is `StoreContract` under the map that forgets times and the
index.

Left out: titles, bodies, texts, `UpdatedAt`, the time in `DeletedAt`. No
decision of the store depends on them. Ids and times are naturals because the
code only compares them.

### CommentService

`calls` says where each request is. `AddComment` is `AddCommentCheck` (the look
at the post and its flag), `AddCommentCreate` or `AddCommentRejected` (the
insert), `AddCommentPublish`; `SetCommentsEnabled` is an update and a re-read;
the other requests make one repository call. `CancelCall` is a context that ends
between two steps. Ids are fresh (`usedPostIDs`, `usedCommentIDs`), as from
`uuid.NewString`, and a client can only name ids that have been handed out.
`lateComments` and the flag `overwritten` are history and decide nothing.

### PostgresStore

`posts` and `comments` are the committed tables, `calls` the statement each call
is at, `locks` the row locks its transaction holds. `Create` of a reply is
`Begin`, `SelectParent` (`FOR KEY SHARE`), `Insert` (the foreign key checks, which
wait for whoever deletes) and `CommitCreate`; of a root comment the last two.
`Delete` of a post is `LockPost`, one `CascadeLock` per comment in any order,
`CascadeEnds`, `CommitDelete`. `UPDATE`s are one step each, since nobody can see
them half done; one that touched no row goes on to `Explain`, a second statement
that may see another state. Each statement, and each
transaction as a whole, needs one of `MaxConns` connections. `Cancel` is a context that ends or a connection that breaks at any
statement; a commit or an update may also take effect and its answer be lost.

External, as far as the statements use it: the conflicts of row locks (`FOR KEY
SHARE` excludes the lock of a `DELETE`, and goes with the `NO KEY UPDATE` of a
soft delete), the foreign keys of the migrations with their cascades, READ
COMMITTED (a statement that has waited looks at the row again), and the deadlock
detector. `verbatim` says that a client spelled the post's id as PostgreSQL
prints it; the transaction of a reply compares the two as strings.
`overtaken` is history.

### Broker

A publisher holds the read lock from `PublishBegin` until `PublishEndLoop` or
`PublishAbort` and offers the comment to one subscriber per step; everything
under the write lock is one action that needs `NoReaders`. Go's `select` takes
any ready case, so with an ended context and a free channel both `PublishSend`
and `PublishAbort` may happen; the default case needs both not ready. `once` is
the `sync.Once` of a closer: `CallCloser` by anybody, `RunCloser` its body;
callers (publisher, watcher, user, `Shutdown`) wait until it is done. A channel
keeps its buffer after it is closed, and readers may drain it. `targets`,
`before` and `shutTargets` are history. `Contract` is `EventContract` under the map that takes
received and buffered comments for the stream, a closed channel for a closed stream,
and those a publication found, has visited and has not sent its comment for those it
passed over: the closers it has collected, in the state of the code.

`Cancellable`, `Leavers` and `MayShutDown` say what the surroundings may do in
an instance.

### Lifecycle

Over `Broker`: what `main` does from the signal on, against requests that add
comments and clients that subscribe. `Signal`, `ShutdownBroker` (the broker's own
`Shutdown`, which has no deadline), `ShutdownServer`, `ServerDrained` or
`DrainTimesOut` (`log.Fatalf`, which ends the process without its deferred calls),
`Exit` through `pool.Close`. A request comes in a `POST`, which `httpServer.Shutdown`
waits for, or over a WebSocket, which it does not know of. A `POST` may still begin
while the server drains: the listener is closed then, but a connection accepted
before counts as busy until it has brought its first request or some seconds have
passed. A request goes through the look-up of the post (`BeginLookUp`, `EndLookUp`),
the insert (`BeginStore`, `EndStore`), its publication and its answer; what the two
calls do to the store is in the modules above. Over PostgreSQL it has a connection of
the pool during each of the two calls and at no other time. `pool.Close` waits for the
connections in use, and refuses whoever asks for one from its beginning on
(`FindPoolClosed`). So the process may stop with a request over a WebSocket before,
between or behind its calls, also with its comment stored and not published; what
`main` does wait for are the publications of `POST`s (`PostsArePublished`). External:
`net/http`'s `Shutdown` and pgxpool's `Close`, by what they promise.

### Subscription

`GetPost` and `Subscribe` are the two steps of the resolver. `Posts` of `Broker`,
the keys of its map, are here the spellings of an id; `TrimSpace` gives the id.
The goroutine is `ForwarderTakes`, `ForwarderSends`, `ForwarderStops` (the deferred
`close(out)`), `ForwarderUnsubscribes` and `ForwarderEnds`; its receive and its
unsubscribe are the broker's `Receive` and `Unsubscribe`. `BrokerMoves` is the rest
of the broker, at any time. Posts are deleted at any time, and only comments whose
`AddComment` saw the post are published. `owed` is history.

### Paging

A client walks one list to its end: for a thread every page is a look-up of the
post or comment and, in a second step, the page; for posts it is one step.
The client goes on with `endCursor` while `hasNextPage`. `StoreMoves` is the
store meanwhile: comments and posts are created with any time, soft-deleted and
removed. `late` records what was stored at a place the client had already passed.

### PostgresPages

Pure operators over `MemoryStore`'s state: `QueryRows` is the one SQL query that
answers a batch (`ListedComments` its LATERAL subquery, `RowsOf` the rows of one
request, in the order of the batch), `ListByPostAndParents`
the assembly of its rows into pages, `SelectPosts` and `ListedPosts` the query for
a page of posts. `MemoryStore!comments` and `posts` stand for the tables.
`MakePostExcerpt` and `FetchedBody` are the two cuts of a body. A negative limit
next to a positive one would index `pages[i].Comments[limit-1]` out of range; no
caller passes one, because the services correct limits first, and the model
leaves it out. Errors of the database are in `CommentPageLoader` (`Refused`).

### CommentPageLoader

`Load` is the section under the mutex; the `select` behind it is `LoadReceives`
and `LoadGivesUp`. A dispatcher is named by the load that started it: `TakeBatch`
(after the timer, whose length the model does not know, or the context), one
`ReadNextPage` per request, as in the in-memory repository, `ReadingFails` for the
whole batch, and one `AnswerNext` per load. A page is named by the load that
asked for it. A loader belongs to one operation, so there is one context. By
itself it allows any loads in any order; `Execution` is who makes them.

### Execution

The generated code. A field of an operation, or an element of a list, is named by
its response path; `Types` says of every field of every type what it leads to,
whether a null there counts against its parent (`Invalids`), whether it runs in a
goroutine of its own, and whether its value comes from the parent's struct, a
service or the loader. `Ready` is the order of a `FieldSet`: sequential fields in
the order of the operation, then all concurrent ones at once, and `Finish` when
all are there. Root fields of a mutation are sequential, those of a query are not.
`Begins` marshals a scalar or starts an object or a list (of any length up to what
the operation selects), `Fails` adds an error and leaves null. A service may fail
before or after it has changed the store (`effects`); arguments may be refused, and
cursors before the load is made. What services and the loader answer otherwise is
a choice of the model.

## 3. Runs

| run | instance | question | result |
|---|---|---|---|
| `store_states` | 2 posts, 3 comments, 2 authors, 2 instants, every limit and cursor, 32 batches, excerpts of 3 characters | is the store consistent after any calls, does it keep the contract, is every page right, do both back ends show the same? | holds |
| `service_races` | 1 post, 3 comments, 3 requests | what can interleaved requests do to a post and its comments? | holds |
| `service_orphan` | 1 post, 2 comments, 2 requests | does a cascade leave nothing behind? | **violated** |
| `postgres_transactions` | 1 post, 2 comments, 2 authors, 2 requests, 2 connections | do interleaved transactions keep the contract, tell the truth, and end without holding each other up? | holds |
| `postgres_late_reply` | the same, 1 author | is there no reply to a soft-deleted comment? | **violated** |
| `paging_walks` | 1 client, 3 posts, 2 comments, 2 instants | repeats, gaps, disorder? | holds |
| `operation_runs` | 3 queries and a mutation, 9 loads, one refused | is every load answered once with its own page, is the response what the schema says, does it come? | holds |
| `broker_missed` | 2 publishers, 2 subscribers, capacity 1, a cancelled publisher | is everybody closed whom a publication found too slow? | **violated** |
| `process_exit` | 2 publishers, 2 subscribers, capacity 1, one client leaves, the whole shutdown | panics, leaks, silent misses; who is told before the process ends, what does it leave undone, and can it be held up? | holds |
| `subscription_stream` | 3 publishers, 1 subscription, capacity 2, two spellings of the id, cancellation | what is delivered, in which order, is it what the contract promises, and does the client get all of it? | holds |
| `subscription_liveness` | 2 publishers, 1 subscription, capacity 1, Shutdown | does everybody finish although the client need not read? | holds |
| `subscription_spaced` | 1 publisher, 1 subscription, two spellings | does a client miss nothing, however it spells the id? | **violated** |

The larger ones have between fifty thousand and 1.8 million states, and
take up to two and a half minutes with two workers.

### What the passing runs show

* *Storage.* `IndexIsFaithful`: the index has exactly the stored comments, each
  under its post and parent, sorted. `ThreadsAreTrees`, `PagesAreExact` (a page
  found by binary search is the page a scan would find),
  `BackendsGiveSamePages` and `BackendsGiveSameExcerpts`. `ImplementsContract` of
  both back ends: what is stored changes in no other way than `StoreContract` says;
  for PostgreSQL that a comment never outlives its post.
* *PostgreSQL.* `RepliesSawALiveParent` is what the condition on the parent does
  give; `AnswersAreTrue`: a domain error means that nothing was changed, nil that
  it was, and nobody is told `ErrForbidden` of something of his own, although the
  reason is looked up in a second statement; `EveryCallReturns`: the deadlock of a
  reply with a cascade is broken, and no lock or connection is kept; and, without any
  assumption on scheduling, `SomebodyGoesOn`: while a call is in progress some call
  can take its next statement, or there is a circle of waits that the deadlock detector
  breaks.
* *Services.* `OrphansAreLoneRoots` and `LateCommentsAreBounded` bound what the
  window between the look at a post and the insert can do; `AnswerIsExplained`
  bounds what the re-read of `SetCommentsEnabled` can show.
* *Lists.* `PagesAscend`: no entry twice and none out of order, over all pages of a
  walk; `MissedOnlyIfLate`: an entry that stayed throughout the walk and is not
  shown was stored at a place the client had passed.
* *Operations.* `NoLoadLostOrDoubled`, `SomebodyWillDispatch`,
  `AnsweredWithOwnPage` for the loader. `ResponseIsSound`: a place of the response
  is null exactly when an error at it or below it is not contained by a field that
  `schema.graphqls` lets be null. `ReadsFollowTheirEffect`: a mutation's field shows
  pages read after its own effect and before the next field's, although the pages
  are read by a goroutine the field need not wait for.
  `EveryOperationAnswers`, `EveryDispatcherEnds`.
* *Broker and subscriptions.* `RegisteredIffOpen`, `NoPanic`,
  `SlowSubscribersAreClosed` (whoever misses a publication that returned without
  error is closed), `DeliveredOnceToItsPost`, `DeliveredInPublishOrder` (publications
  that do not overlap), `ForwardedFaithfully`, `NoSilentMissByID`, and the
  liveness properties. `ImplementsContract`: every step of the broker is one of
  `EventContract` or none, so nobody with room is passed over, nobody is closed without
  a reason, and no publication returns before those it owes a close are closed.
  Its run has one subscription and no `Shutdown`; the theorem has any number of both.
* *The process.* `SubscribersAreToldFirst`: the channels found by `Shutdown` are closed
  before the HTTP server is shut down and before anything can kill the process, whoever
  closes them. `PostsArePublished`: when `main` returns, the publication of every
  comment that a POST has stored is over. `SignalIsNeverStuck`: nothing a client
  does or omits can stop `main` between the signal and the end.

### Why the bounds are enough

Three comments make a chain of two replies, a comment with two replies, and
threads on two posts; two instants and three ids order three comments in every
way, with ties and without. In `store_states` one author writes and the second
post is not newer than the first (`MCMemoryStore` says so), for the size; both
only rename what the other half would show. An inconsistency of a request needs
the request, one that interferes, and for the bound on late comments a third. Two
transactions suffice for each conflict of row locks and for the cycle of a reply
with a cascade; a third would add waiters, not conflicts, and what must hold of
many is proved. As many connections as requests mean that the pool is never empty in
the run; the theorems hold for every size of the pool, and a call never waits for a
connection while it holds a lock, so an empty pool only delays. A channel of one element is empty or full, of two also neither;
three comments fill a broker's channel of two, or a channel of one together with
the forwarder's hand and the client's channel. Two closers suffice to race for a
`Once`; the liveness run has five. The operations of `operation_runs` have two
loads that are ready at once beside one that comes later, loads below the element
of a list, fields after a field that loads, and nullable fields above and below
those that may not be null; they meet a dispatcher in each of its phases. Pages of
one and of two entries (`DefaultPageSize` 1, `MaxPageSize` 2, limits 0 and 3) put
page boundaries at every place of a list of three, and take both corrections of
`normalizePageLimit`. `process_exit` has no cancelled publisher and
`subscription_liveness` one spelling of the id, for the time they take; both are in
`subscription_stream`.

Nothing is cut off by a state constraint: the instances are finite because ids
are. That is also why the runs over fresh ids, those of the broker, of an
operation, and of the process turn the deadlock check off: when all ids are used and
all requests are over, nothing is left to do. `store_states` and the two of
PostgreSQL keep it.

### What the violated properties show

* **`NoOrphanComments`.** `AddComment` sees the post; `DeletePost` removes it and
  its comments; `AddComment` stores its comment, since `Create` of the in-memory
  repository does not look at posts. The comment stays for good: no cascade will
  run for that post again. `OrphansAreLoneRoots` says how bad it can get: such a
  comment is a root and never gets a reply. PostgreSQL's foreign key rules it out.
* **`NoReplyToDeletedComment`.** `FOR KEY SHARE` on the parent goes with the lock of
  a soft delete, so the parent may be soft-deleted between the `SELECT` and the
  commit of a reply. The comment on the statement says that its condition prevents
  replies to deleted comments; the in-memory store does prevent them.
* **`EveryMissIsVisible`.** A publisher finds the first of two channels full and
  collects its closer; its context ends; at the second channel it returns from inside
  the loop, and the closer it has collected is never called. The first subscriber's
  channel stays open with a gap in it, contrary to what the comments of the loop say of
  slow subscribers. The property speaks of those only whom a publication has passed
  over, and of the step at which it lets go of their closers; subscribers it has not
  come to yet are not its subject. It takes two subscribers, since a publication with
  nobody left to visit does not look at its context. For
  publications that return without an error, `SlowSubscribersAreClosed` holds.
* **`NoSilentMiss`.** `commentAdded` is accepted for `" id "`, because `GetPost`
  trims, but is registered under `" id "`, while comments are published under
  `"id"`. Clients that spell the id as stored miss nothing silently
  (`NoSilentMissByID`).

The window of the first one also lets a comment be stored on a post that was closed
for comments meanwhile. `LateCommentsAreBounded` says what closing does give: no
more late comments than requests in flight at a time, none from a request that
starts later.

### Fairness

Liveness is checked in `subscription_liveness`, `operation_runs` and
`postgres_transactions`. A goroutine that can take a step takes it (weak fairness of
publishers, watchers, waiting users, the forwarding goroutine and `Shutdown`). The
body of a closer needs the write lock, for which readers may be in the way again and
again; a waiting writer of a `sync.RWMutex` keeps new readers out, hence strong
fairness of `RunCloser`. Nothing forces a user to read, a client to leave, a request
to be cancelled or `Shutdown` to be called. Only `ClosingReachesTheClient` assumes a
client that reads, and says so itself; `NoForwarderStaysBehind` does not need one.

`operation_runs` assumes that services answer, that the timer fires and that the
goroutines of the operation and of its dispatchers run; the context need never end.
No step of theirs can be taken for ever, so one weak fairness condition for all
is as strong as one for each.

`postgres_transactions` assumes strong fairness of a call's statements, because
PostgreSQL lets those that wait for a row queue, as the pool does for a connection,
and weak fairness of the deadlock detector. It does not assume that a context ends.

`SignalIsNeverStuck` is an invariant instead: from the signal on, a step that needs
nobody outside the process is always enabled, and no such step can be taken for
ever. `SomebodyGoesOn` is its like for PostgreSQL,
with the guards written out (`CanGoOn`).

## 4. Proofs

For any sets of ids, authors, times, requests, posts, comments, subscriptions,
operations and loads, any channel capacity and any number of connections, from the
assumptions the modules name:

* ids and times are naturals; nil, "absent", "no cursor" and "no id" are none of the
  values they stand beside;
* every comment has a post; what is published is published under the stored form of
  its post's id;
* the capacity of a channel and the pool of connections are positive; the requests of
  `CommentService` that can be in flight, and those of `PostgresStore`, are finitely
  many;
* a load is not named like an outcome, every field that loads is a load, and the
  selections of an operation are finite trees of fields with the types of the schema;
* a batch is a sequence of requests with non-negative limits, a body a sequence of
  characters.

| theorem | says | argument |
|---|---|---|
| `MemoryStore_proofs!TypeCorrect` | types | inductive as it stands, once inserting into a sequence is shown to give a sequence of entries |
| `IndexCorrect` | `IndexIsFaithful` | lemmas on `insertSortedEntry`: what it adds (`InsertedEntries`) and that it keeps the order (`InsertionKeepsOrder`), which needs the entry not to be in the slice: exactness of the index and the check for an existing id give that |
| `ThreadsCorrect` | `ThreadsAreTrees` | a new comment's parent is stored before it and nothing stored points to the new one; a cascade removes whole threads because the index is exact and complete |
| `CascadeCorrect`, `CommentsKeepTheirHistory` | `CascadeIsExact`, `CommentHistory` | a cascade driven by the index removes exactly the comments of the post, by `IndexIsFaithful` |
| `MemoryImplementsContract` | `Spec => ImplementsContract` | step by step: each action is a step of `StoreContract` on the mapped state; the cascade needs `IndexIsFaithful` |
| `PagesAreAlwaysExact` | `PagesAreExact` | a finite set has one ascending enumeration (`AscendingIsUnique`): the index is one of the thread by `IndexIsFaithful`, and what the binary search skips is what is at or before the cursor (`PageOfIndex`), as in a scan of all comments (`PageOfScan`) |
| `StoreContract_proofs!ContractKeepsThreads` | whatever implements the contract keeps parents stored under the same post and, with `PostRequired`, comments on stored posts | `ParentsAreStored` is inductive; a deleted post takes whole threads |
| `PostgresStore_proofs!PostgresTypeCorrect`, `LocksExclude` | types; no two transactions hold row locks that conflict | one invariant `IInv`: types, lock exclusion, which locks and rows a call at a given statement has, and that ids under way are fresh (`IDsAreFresh`) |
| `RepliesSawALiveParentAlways` | `RepliesSawALiveParent` | the key-share lock keeps the parent's row from a cascade, `overtaken` records a soft delete |
| `AnswersAreTrueAlways` | `AnswersAreTrue` | between the statement that touched no row and the read that explains why, the row may vanish but never comes back, is undeleted or changes hands (`RowsOnlyVanish`), so there is nothing of the caller's own to find (`ExplanationInv`); then answer by answer |
| `PostgresImplementsContract` | `Spec => ImplementsContract` | the commits and updates are the contract's steps, all else stutters: `IInv` says that the rows a commit relies on are still there, because their locks are still held, and that a cascade has locked every comment of the post |
| `SomebodyAlwaysGoesOn` | `SomebodyGoesOn` | a call that is in another's way is between its first lock and its commit (`HoldersContend`), and waits, when it cannot go on, for another such call (`ContenderWaits`): if none can, they are stuck together, and a smallest such set, which exists because calls are finitely many, is what the detector looks for (`StuckContainsDeadlock`). A call that waits for a connection holds none and no lock, so while only such calls are in flight the pool has one (`PoolIsFree`). Guards are written out (`CanGoOn`); `OnlyWhoCanGoesOn` shows that no statement runs without its own |
| `CommentService_proofs!OrphansAreAlwaysLoneRoots` | `OrphansAreLoneRoots` | each step of a request is one call of the store or none (`ServiceStepIsStoreStep`), so the store's invariants, and with them its theorems (`ServiceKeepsStoreCorrect`), hold under concurrent requests; then it needs that ids in requests have been handed out and that a pending reply's parent, while stored, has its post or is under another post |
| `LateCommentsAreAlwaysBounded` | `LateCommentsAreBounded` | the bound itself is not inductive: `LateInv` counts the late comments of a closed post together with the requests that found it open and have yet to store theirs, never more than there are clients; a late comment takes its request's place in the sum |
| `AnswersAreExplained` | `AnswerIsExplained` | `RequestInv`, which has it as a conjunct |
| `Paging_proofs!WalksUseTheStore` | `PagingSpec => Spec` of the store | a walk only reads, so the store's invariants hold under it |
| `PagesAlwaysAscend`, `NothingElseIsMissed` | `PagesAscend`, `MissedOnlyIfLate` | every page is a `Cut`: the start of the one ascending enumeration of what is behind the cursor (`ThreadPageIsCut`, `PostsPageIsCut`); so what a walk was given ascends and stays before its cursor (`WalkInv`), and what a page passes over is not in the store when it is read |
| `BackendsAlwaysGiveSamePages` | `BackendsGiveSamePages` | the rows that the query appends are one block per request (`RowsAreBlocks`), the repository's loop puts them back in order (`ScanSorts`), and each block is the page of the index (`CutIsPage`); loops are followed by counting up (`LoopRuns`); posts by `ListPostsCuts` and `SelectPostsCuts` |
| `BackendsAlwaysGiveSameExcerpts` | `BackendsGiveSameExcerpts` | an excerpt depends on the first characters of a body and on whether there is one more, and the query fetches just these (`ExcerptOfFetched`) |
| `Broker_proofs!TypeCorrect` | types and the capacity of channels | inductive |
| `RegistrationCorrect`, `NeverPanics`, `ShutdownComplete` | `RegisteredIffOpen`, `NoPanic`, `ShutdownClosesWhatItFound` | one invariant `BrokerInv`: the Once and the channel agree (`OnceInv`), what a publisher has still to visit is registered because it holds the read lock (`VisitsRegistered`), and `Shutdown` forgets nobody (`ShutdownInv`) |
| `DeliveryCorrect` | `DeliveredOnceToItsPost` | what a subscription was sent only grows at its end (`DeliveredGrowsAtItsEnd`), by comments whose publisher is still to visit it (`DeliveryInv`) |
| `OrderCorrect` | `DeliveredInPublishOrder` | a publication that had ended before another began has nobody left to visit (`OrderInv`) |
| `MissesAreVisible` | `SlowSubscribersAreClosed` | everybody a publisher found is still to be visited, has the comment, or has a closer it has collected or called (`MissInv`) |
| `BrokerImplementsContract` | `Spec => ImplementsContract` | step by step. What a publication has collected is whom it passed over (`CollectedInv`), what runs a closer's body was called by somebody with a reason (`CallerInv`), and `BrokerInv`, `DeliveryInv` and `MissInv` give that nobody still registered is forgotten; together `ReachedInv` |
| `BrokerUsers_proofs!ResolversImplementBroker` | `SubscriptionSpec => Spec` of `Broker` | step by step; a goroutine runs only for a subscription that was accepted (`GoroutineInv`) |
| `StreamsAreDelivered` | `DeliveredOnceToItsPost` and `DeliveredInPublishOrder` under the resolvers | the theorems on the broker, by `ResolversImplementBroker` |
| `ByIDNobodyMisses` | `NoSilentMissByID` | whoever spells the id as stored and was accepted before the publication began is among those the publisher found (`AskedInv`); then `SlowSubscribersAreClosed` |
| `ForwardingIsFaithful` | `ForwardedFaithfully` | what the goroutine has taken from the channel is what it has forwarded, then the comment in its hand, which only the end of the context makes it drop; it ends by itself only on a closed and drained channel (`ForwardInv`) |
| `UsersSeeTheContract` | `ImplementsContract` under the resolvers and under the process | both refinements of `Broker` and `BrokerImplementsContract` |
| `ProcessImplementsBroker` | `LifecycleSpec => Spec` of `Broker` | step by step, so that the theorems on the broker hold of the process |
| `SubscribersAreAlwaysToldFirst` | `SubscribersAreToldFirst` | main is past `ShutdownServer` only with the broker's `Shutdown` done, which stays so (`ExitInv`), and `ShutdownClosesWhatItFound` |
| `PostsAreAlwaysPublished` | `PostsArePublished` | a request publishes from its own place only and is answered behind its publication, which nothing else begins and nothing begins again (`PublicationsOnlyGoOn`); past the drain every POST is answered, and none begins (`ExitInv`) |
| `NothingHoldsMainUp` | after the signal the guard of a step of the broker, or of `ShutdownServer`, holds (`MainCanGoOn`): `SignalIsNeverStuck` with its `ENABLED` written out as guards | whoever holds the read lock can go on, because the loop never waits for a full channel (`ReadersGoOn`, from the bound of the channels); with nobody holding it, `Shutdown` or the closer it waits for can, since it waits for a closer only after calling it (`WaitsForCalled`) |
| `Execution_proofs!AnswersAreOwn` | `AnsweredWithOwnPage` | the pages read are those of the batch so far (`PagesInv`), and the answers those of the pages (`AnswerInv`) |
| `NobodyWaitsForEver` | `SomebodyWillDispatch` | "scheduled" is set exactly while one dispatcher delays (`SchedulingInv`) |
| `EveryLoadHasItsPlace` | `NoLoadLostOrDoubled` | a load that has begun is queued once, in one batch once, or answered, and no two of these (`PlaceInv`) |
| `ExecutionImplementsLoader`, `FieldsGetTheirPages` | `ExecutionSpec => Spec` of the loader, and the two theorems above for it | a field loads under its own path only, and waits there (`LoadingInv`) |
| `ExecutionIsTyped` | types of fields, values, errors and effects | from `RunInv` and `EffectInv` below |
| `ResponsesAreSound` | `ResponseIsSound` | a field runs only below a running field, and a field that is done without an error of its own has everything below it done (`RunInv`), so its value can be settled from the errors below it (`ValueInv`); the trail from a field up to the root is a recursive function, of which the proof needs its equation (`TrailEquation`) and that it follows the parents (`TrailsLeadUp`) |
| `ReadsFollowEffects` | `ReadsFollowTheirEffect` | the root fields of a mutation run one after another, and the running one made the last effect (`EffectInv`); whoever waits for the loader is a field that waits for its page (`WaitInv`), and all fields above it run |
| `OperationsGoOn` | until an operation is answered the guard of one of its steps holds (`OperationCanGoOn`), and of every dispatcher on its way | of the running fields take one with the longest trail, so that nothing runs below it (`SomebodyRunsAlone`): a child that loads is answered, queued behind a dispatcher or in a batch under way (`WaitersAreServed`, from `PlaceInv` and `SchedulingInv`); else the first of those still to be entered is ready (`SomeFieldIsReady`); else it can finish |

The refinements are of safety: initial states map to initial states, every step to a
step or a stutter.

Every invariant that a passing run checks is among these, with one exception.
`SignalIsNeverStuck` is stated with `ENABLED`, which the prover does not have, and stays
with TLC; `NothingHoldsMainUp` proves its substance with the guards of the steps written
out by hand, so it rests on these being the guards of the actions. The same holds of
`OperationsGoOn` and of `CanGoOn` in `SomebodyGoesOn`. Liveness stays with TLC as well (`EveryCallReturns`,
`EveryOperationAnswers`, `EveryDispatcherEnds`, `NoForwarderStaysBehind`,
`ClosingReachesTheClient`, `CancelledSubscriptionsClose`, `PublisherNeverBlocks`,
`ShutdownEnds`): the prover has no rules for fairness. What is proved of it for every
instance is that nobody is ever stuck: `SomebodyAlwaysGoesOn` for the calls of
PostgreSQL, `OperationsGoOn` for operations and their dispatchers, `NothingHoldsMainUp`
for publishers and `Shutdown`. That the steps which are possible then lead to the end
is what the runs check.

## 5. Not modelled

* Generated code: introspection, `PostConnection` and `PostEdge` (no field leads to
  them), query complexity, deferred fragments (nothing in the schema uses them), and
  the marshalling of a subscription's events.
* The encoding of cursors: a cursor is the entry it encodes, and a request whose
  cursor does not decode is refused (`CursorIsRefused`). Ids that are no UUIDs,
  which PostgreSQL refuses before anything is touched.
* Trimming and the checks of lengths, which reject a request before it touches
  anything; they are the precondition of the inputs.
* The start of the process, configuration, the health check, the table of error
  messages and the scripts that apply the migrations: input and output without
  state of their own.
* A retry by a client after an error for a comment that is stored: it is a new
  request with a new id, and nothing in the repository promises more.
* What happens to a WebSocket at the end of the process: `Lifecycle` has the
  behaviours, no document says what they should be.
