-------------------------------- MODULE Broker --------------------------------
(***************************************************************************)
(* The subscription broker (internal/subscriptions/broker.go): publishers, *)
(* subscribers, their channels, and the goroutines that close them.        *)
(*                                                                         *)
(* Broker.mu is a sync.RWMutex.  A publisher holds its read side from      *)
(* "iterating" on, while it offers the comment to one subscriber after the *)
(* other; sections under the write side are single actions, enabled when   *)
(* no publisher iterates.  A channel is a buffer and a flag; its closer is *)
(* guarded by a sync.Once: the first caller runs the body, every caller    *)
(* waits until the body has run.                                           *)
(*                                                                         *)
(* Each comment is published by one call, so a call is named by its        *)
(* comment.  The receiving side is whatever reads the channel: it may read *)
(* at any time or never, and may unsubscribe at any time.                  *)
(***************************************************************************)
EXTENDS Naturals, Sequences, FiniteSets, SequencesExt

CONSTANTS
  Posts,         \* post ids
  Comments,      \* comments to publish
  PostOf,        \* the post of each comment
  Subs,          \* subscriptions that can be made
  BufferSize,    \* subscriberBufferSize, 16 in the code
  \* What the surroundings may do, all of it or a part to keep a run small:
  Cancellable,   \* comments whose publishing request may be cancelled
  Leavers,       \* subscriptions whose context may end or whose user may leave
  MayShutDown    \* whether Shutdown may be called

ASSUME PostOfIsTyped == PostOf \in [Comments -> Posts]
ASSUME BufferIsNotEmpty == BufferSize \in Nat \ {0}

VARIABLES
  subscribers,   \* post -> registered channels, Broker.subscribers
  chanState,     \* channel: not made, open or closed
  buffer,        \* what is in the channel
  once,          \* the sync.Once of the closer
  publisher,     \* where the publishing call of each comment is
  todo,          \* subscribers the range loop has still to visit
  slowClosers,   \* closers collected by the loop, by channel
  publishCtxDone,\* the context of the publishing call has ended
  watcher,       \* the goroutine that waits for the subscriber's context
  subCtxDone,    \* the context of the subscription has ended
  reader,        \* the user of the subscription
  received,      \* what the user has read
  shutdown,      \* where Shutdown is
  toShut,        \* closers Shutdown has still to call
  shutting,      \* the closer Shutdown is calling, if any
  targets,       \* history: who was registered when the publisher looked
  before,        \* history: publishers that had ended by then
  shutTargets    \* history: who was registered when Shutdown looked

channelVars == <<subscribers, chanState, buffer, once>>
publisherVars == <<publisher, todo, slowClosers, publishCtxDone>>
readerVars == <<watcher, subCtxDone, reader, received>>
shutdownVars == <<shutdown, toShut, shutting>>
historyVars == <<targets, before, shutTargets>>
vars == <<channelVars, publisherVars, readerVars, shutdownVars, historyVars>>

TypeOK ==
  /\ subscribers \in [Posts -> SUBSET Subs]
  /\ chanState \in [Subs -> {"none", "open", "closed"}]
  /\ buffer \in [Subs -> Seq(Comments)]
  /\ \A s \in Subs : Len(buffer[s]) <= BufferSize
  /\ once \in [Subs -> {"free", "running", "done"}]
  /\ publisher \in [Comments -> {"idle", "iterating", "closing", "returned", "failed"}]
  /\ todo \in [Comments -> SUBSET Subs]
  /\ slowClosers \in [Comments -> Seq(Subs)]
  /\ publishCtxDone \in [Comments -> BOOLEAN]
  /\ watcher \in [Subs -> {"none", "waiting", "closing", "ended"}]
  /\ subCtxDone \in [Subs -> BOOLEAN]
  /\ reader \in [Subs -> {"none", "reading", "leaving", "left"}]
  /\ received \in [Subs -> Seq(Comments)]
  /\ shutdown \in {"idle", "closing", "done"}
  /\ toShut \subseteq Subs
  /\ shutting \subseteq Subs
  /\ targets \in [Comments -> SUBSET Subs]
  /\ before \in [Comments -> SUBSET Comments]
  /\ shutTargets \subseteq Subs

Init ==
  /\ subscribers = [p \in Posts |-> {}]
  /\ chanState = [s \in Subs |-> "none"]
  /\ buffer = [s \in Subs |-> <<>>]
  /\ once = [s \in Subs |-> "free"]
  /\ publisher = [c \in Comments |-> "idle"]
  /\ todo = [c \in Comments |-> {}]
  /\ slowClosers = [c \in Comments |-> <<>>]
  /\ publishCtxDone = [c \in Comments |-> FALSE]
  /\ watcher = [s \in Subs |-> "none"]
  /\ subCtxDone = [s \in Subs |-> FALSE]
  /\ reader = [s \in Subs |-> "none"]
  /\ received = [s \in Subs |-> <<>>]
  /\ shutdown = "idle"
  /\ toShut = {}
  /\ shutting = {}
  /\ targets = [c \in Comments |-> {}]
  /\ before = [c \in Comments |-> {}]
  /\ shutTargets = {}

\* The write side of Broker.mu can be taken.
NoReaders == \A c \in Comments : publisher[c] # "iterating"

(***************************************************************************)
(* The closer of a subscription.                                           *)
(***************************************************************************)

\* once.Do by any caller: the first one goes on to run the body.
CallCloser(s) == once' = [once EXCEPT ![s] = IF @ = "free" THEN "running" ELSE @]

\* Seeded faults: the closer takes no lock; it leaves the channel in the map; it
\* cannot have the lock because Shutdown keeps it while it calls closers.
RunCloserUnlocked(s) ==
  /\ once[s] = "running"
  /\ subscribers' = [p \in Posts |-> subscribers[p] \ {s}]
  /\ chanState' = [chanState EXCEPT ![s] = "closed"]
  /\ once' = [once EXCEPT ![s] = "done"]
  /\ UNCHANGED <<buffer, publisherVars, readerVars, shutdownVars, historyVars>>

RunCloserKeepInMap(s) ==
  /\ once[s] = "running"
  /\ NoReaders
  /\ chanState' = [chanState EXCEPT ![s] = "closed"]
  /\ once' = [once EXCEPT ![s] = "done"]
  /\ UNCHANGED <<subscribers, buffer, publisherVars, readerVars, shutdownVars, historyVars>>

RunCloserBehindShutdown(s) ==
  /\ shutdown # "closing"
  /\ RunCloserUnlocked(s)

\* The body, under the write lock: leave the map, close the channel.
RunCloser(s) ==
  /\ once[s] = "running"
  /\ NoReaders
  /\ subscribers' = [p \in Posts |-> subscribers[p] \ {s}]
  /\ chanState' = [chanState EXCEPT ![s] = "closed"]
  /\ once' = [once EXCEPT ![s] = "done"]
  /\ UNCHANGED <<buffer, publisherVars, readerVars, shutdownVars, historyVars>>

(***************************************************************************)
(* PublishCommentCreated.                                                  *)
(***************************************************************************)

\* Seeded fault: the subscribers of every post are visited.
PublishBeginEverywhere(c) ==
  /\ publisher[c] = "idle"
  /\ publisher' = [publisher EXCEPT ![c] = "iterating"]
  /\ todo' = [todo EXCEPT ![c] = UNION {subscribers[p] : p \in Posts}]
  /\ targets' = [targets EXCEPT ![c] = UNION {subscribers[p] : p \in Posts}]
  /\ UNCHANGED <<channelVars, slowClosers, publishCtxDone, readerVars, shutdownVars,
                 before, shutTargets>>

\* RLock, and the start of the range loop.  The map cannot change until
\* RUnlock, so the loop visits who is registered now, in any order.
PublishBegin(c) ==
  /\ publisher[c] = "idle"
  /\ publisher' = [publisher EXCEPT ![c] = "iterating"]
  /\ todo' = [todo EXCEPT ![c] = subscribers[PostOf[c]]]
  /\ targets' = [targets EXCEPT ![c] = subscribers[PostOf[c]]]
  /\ before' = [before EXCEPT ![c] =
                  {d \in Comments : publisher[d] \in {"closing", "returned", "failed"}}]
  /\ UNCHANGED <<channelVars, slowClosers, publishCtxDone, readerVars, shutdownVars,
                 shutTargets>>

\* Seeded faults: the channel has no limit; the newest comment comes first.
PublishSendUnbounded(c, s) ==
  /\ publisher[c] = "iterating" /\ s \in todo[c]
  /\ buffer' = [buffer EXCEPT ![s] = Append(@, c)]
  /\ todo' = [todo EXCEPT ![c] = @ \ {s}]
  /\ UNCHANGED <<subscribers, chanState, once, publisher, slowClosers, publishCtxDone,
                 readerVars, shutdownVars, historyVars>>

PublishSendInFront(c, s) ==
  /\ publisher[c] = "iterating" /\ s \in todo[c]
  /\ Len(buffer[s]) < BufferSize
  /\ buffer' = [buffer EXCEPT ![s] = <<c>> \o @]
  /\ todo' = [todo EXCEPT ![c] = @ \ {s}]
  /\ UNCHANGED <<subscribers, chanState, once, publisher, slowClosers, publishCtxDone,
                 readerVars, shutdownVars, historyVars>>

\* case ch <- comment
PublishSend(c, s) ==
  /\ publisher[c] = "iterating" /\ s \in todo[c]
  /\ Len(buffer[s]) < BufferSize
  /\ buffer' = [buffer EXCEPT ![s] = Append(@, c)]
  /\ todo' = [todo EXCEPT ![c] = @ \ {s}]
  /\ UNCHANGED <<subscribers, chanState, once, publisher, slowClosers, publishCtxDone,
                 readerVars, shutdownVars, historyVars>>

\* Seeded faults: the slow subscriber is passed over; so is one whose channel has
\* one place left; the send has no default.
PublishSkipForget(c, s) ==
  /\ publisher[c] = "iterating" /\ s \in todo[c]
  /\ Len(buffer[s]) = BufferSize
  /\ todo' = [todo EXCEPT ![c] = @ \ {s}]
  /\ UNCHANGED <<channelVars, publisher, slowClosers, publishCtxDone,
                 readerVars, shutdownVars, historyVars>>

PublishSkipTooEarly(c, s) ==
  /\ publisher[c] = "iterating" /\ s \in todo[c]
  /\ Len(buffer[s]) + 1 >= BufferSize
  /\ ~ publishCtxDone[c]
  /\ slowClosers' = [slowClosers EXCEPT ![c] = Append(@, s)]
  /\ todo' = [todo EXCEPT ![c] = @ \ {s}]
  /\ UNCHANGED <<channelVars, publisher, publishCtxDone, readerVars, shutdownVars, historyVars>>

PublishSkipNever(c, s) == FALSE

\* default: neither the channel nor the context is ready
PublishSkip(c, s) ==
  /\ publisher[c] = "iterating" /\ s \in todo[c]
  /\ Len(buffer[s]) = BufferSize
  /\ ~ publishCtxDone[c]
  /\ slowClosers' = [slowClosers EXCEPT ![c] = Append(@, s)]
  /\ todo' = [todo EXCEPT ![c] = @ \ {s}]
  /\ UNCHANGED <<channelVars, publisher, publishCtxDone, readerVars, shutdownVars, historyVars>>

\* case <-ctx.Done(): return at once, with what has been collected so far
PublishAbort(c) ==
  /\ publisher[c] = "iterating" /\ todo[c] # {}
  /\ publishCtxDone[c]
  /\ publisher' = [publisher EXCEPT ![c] = "failed"]
  /\ todo' = [todo EXCEPT ![c] = {}]
  /\ slowClosers' = [slowClosers EXCEPT ![c] = <<>>]
  /\ UNCHANGED <<channelVars, publishCtxDone, readerVars, shutdownVars, historyVars>>

\* RUnlock behind the loop
PublishEndLoop(c) ==
  /\ publisher[c] = "iterating" /\ todo[c] = {}
  /\ publisher' = [publisher EXCEPT ![c] = "closing"]
  /\ UNCHANGED <<channelVars, todo, slowClosers, publishCtxDone,
                 readerVars, shutdownVars, historyVars>>

\* The closers of slow subscribers, one after the other
PublishCallCloser(c) ==
  /\ publisher[c] = "closing" /\ slowClosers[c] # <<>>
  /\ once[Head(slowClosers[c])] = "free"
  /\ CallCloser(Head(slowClosers[c]))
  /\ UNCHANGED <<subscribers, chanState, buffer, publisherVars, readerVars,
                 shutdownVars, historyVars>>

PublishCloserReturns(c) ==
  /\ publisher[c] = "closing" /\ slowClosers[c] # <<>>
  /\ once[Head(slowClosers[c])] = "done"
  /\ slowClosers' = [slowClosers EXCEPT ![c] = Tail(@)]
  /\ UNCHANGED <<channelVars, publisher, todo, publishCtxDone,
                 readerVars, shutdownVars, historyVars>>

PublishReturn(c) ==
  /\ publisher[c] = "closing" /\ slowClosers[c] = <<>>
  /\ publisher' = [publisher EXCEPT ![c] = "returned"]
  /\ UNCHANGED <<channelVars, todo, slowClosers, publishCtxDone,
                 readerVars, shutdownVars, historyVars>>

\* The request that publishes is cancelled or runs into its deadline.
CancelPublish(c) ==
  /\ c \in Cancellable /\ publisher[c] \in {"idle", "iterating"}
  /\ ~ publishCtxDone[c]
  /\ publishCtxDone' = [publishCtxDone EXCEPT ![c] = TRUE]
  /\ UNCHANGED <<channelVars, publisher, todo, slowClosers,
                 readerVars, shutdownVars, historyVars>>

(***************************************************************************)
(* SubscribeToPostComments and the life of a subscription.                 *)
(***************************************************************************)
SubscribeToPostComments(s, p) ==
  /\ chanState[s] = "none"
  /\ NoReaders
  /\ chanState' = [chanState EXCEPT ![s] = "open"]
  /\ subscribers' = [subscribers EXCEPT ![p] = @ \cup {s}]
  /\ watcher' = [watcher EXCEPT ![s] = "waiting"]
  /\ reader' = [reader EXCEPT ![s] = "reading"]
  /\ UNCHANGED <<buffer, once, publisherVars, subCtxDone, received,
                 shutdownVars, historyVars>>

\* The subscriber's context ends, possibly before it has subscribed.
CancelSubscription(s) ==
  /\ s \in Leavers /\ ~ subCtxDone[s]
  /\ subCtxDone' = [subCtxDone EXCEPT ![s] = TRUE]
  /\ UNCHANGED <<channelVars, publisherVars, watcher, reader, received,
                 shutdownVars, historyVars>>

WatcherWakes(s) ==
  /\ watcher[s] = "waiting" /\ subCtxDone[s]
  /\ watcher' = [watcher EXCEPT ![s] = "closing"]
  /\ CallCloser(s)
  /\ UNCHANGED <<subscribers, chanState, buffer, publisherVars, subCtxDone, reader,
                 received, shutdownVars, historyVars>>

WatcherEnds(s) ==
  /\ watcher[s] = "closing" /\ once[s] = "done"
  /\ watcher' = [watcher EXCEPT ![s] = "ended"]
  /\ UNCHANGED <<channelVars, publisherVars, subCtxDone, reader, received,
                 shutdownVars, historyVars>>

Receive(s) ==
  /\ reader[s] = "reading" /\ buffer[s] # <<>>
  /\ received' = [received EXCEPT ![s] = Append(@, Head(buffer[s]))]
  /\ buffer' = [buffer EXCEPT ![s] = Tail(@)]
  /\ UNCHANGED <<subscribers, chanState, once, publisherVars, watcher, subCtxDone,
                 reader, shutdownVars, historyVars>>

\* The function the subscriber was given is the same closer.
Unsubscribe(s) ==
  /\ s \in Leavers /\ reader[s] = "reading"
  /\ reader' = [reader EXCEPT ![s] = "leaving"]
  /\ CallCloser(s)
  /\ UNCHANGED <<subscribers, chanState, buffer, publisherVars, watcher, subCtxDone,
                 received, shutdownVars, historyVars>>

UnsubscribeReturns(s) ==
  /\ reader[s] = "leaving" /\ once[s] = "done"
  /\ reader' = [reader EXCEPT ![s] = "left"]
  /\ UNCHANGED <<channelVars, publisherVars, watcher, subCtxDone, received,
                 shutdownVars, historyVars>>

(***************************************************************************)
(* Shutdown.                                                               *)
(***************************************************************************)
ShutdownBegin ==
  /\ MayShutDown /\ shutdown = "idle"
  /\ NoReaders
  /\ shutdown' = "closing"
  /\ toShut' = UNION {subscribers[p] : p \in Posts}
  /\ shutTargets' = toShut'
  /\ UNCHANGED <<channelVars, publisherVars, readerVars, shutting, targets, before>>

\* The collected closers, one after the other; the maps were ranged over, so in
\* any order.
ShutdownCallCloser(s) ==
  /\ shutdown = "closing" /\ s \in toShut /\ shutting = {}
  /\ shutting' = {s}
  /\ toShut' = toShut \ {s}
  /\ CallCloser(s)
  /\ UNCHANGED <<subscribers, chanState, buffer, publisherVars, readerVars,
                 shutdown, historyVars>>

ShutdownCloserReturns(s) ==
  /\ s \in shutting /\ once[s] = "done"
  /\ shutting' = {}
  /\ UNCHANGED <<channelVars, publisherVars, readerVars, shutdown, toShut, historyVars>>

ShutdownReturn ==
  /\ shutdown = "closing" /\ toShut = {} /\ shutting = {}
  /\ shutdown' = "done"
  /\ UNCHANGED <<channelVars, publisherVars, readerVars, toShut, shutting, historyVars>>

PublisherStep(c) ==
  \/ \E s \in Subs : PublishSend(c, s) \/ PublishSkip(c, s)
  \/ PublishAbort(c)
  \/ PublishEndLoop(c)
  \/ PublishCallCloser(c)
  \/ PublishCloserReturns(c)
  \/ PublishReturn(c)

ShutdownStep ==
  \/ \E s \in Subs : ShutdownCallCloser(s) \/ ShutdownCloserReturns(s)
  \/ ShutdownReturn

Next ==
  \/ \E c \in Comments : PublishBegin(c) \/ PublisherStep(c) \/ CancelPublish(c)
  \/ \E s \in Subs, p \in Posts : SubscribeToPostComments(s, p)
  \/ \E s \in Subs : \/ RunCloser(s)
                     \/ CancelSubscription(s)
                     \/ WatcherWakes(s)
                     \/ WatcherEnds(s)
                     \/ Receive(s)
                     \/ Unsubscribe(s)
                     \/ UnsubscribeReturns(s)
  \/ ShutdownBegin
  \/ ShutdownStep

\* Goroutines that can run do run, and a waiting writer of an RWMutex keeps new
\* readers out, so a closer's body is not overtaken forever.  Nothing makes a
\* user read, a client leave or a request be cancelled.
Fairness ==
  /\ \A c \in Comments : WF_vars(PublisherStep(c))
  /\ \A s \in Subs : /\ SF_vars(RunCloser(s))
                     /\ WF_vars(WatcherWakes(s))
                     /\ WF_vars(WatcherEnds(s))
                     /\ WF_vars(UnsubscribeReturns(s))
  /\ WF_vars(ShutdownStep)

Spec == Init /\ [][Next]_vars
FairSpec == Spec /\ Fairness

(***************************************************************************)
(* Properties.                                                             *)
(***************************************************************************)

\* Everything that was ever put into the channel of s, in order
Delivered(s) == received[s] \o buffer[s]

\* The subscription s has been sent the comment c.
Sent(c, s) == \E i \in 1..Len(Delivered(s)) : Delivered(s)[i] = c

\* A channel is in the map exactly while it is open, under one post: nothing
\* leaks from the map and nobody finds a closed channel there.
RegisteredIffOpen ==
  \A s \in Subs :
    /\ chanState[s] = "open" <=> \E p \in Posts : s \in subscribers[p]
    /\ \A p, q \in Posts : s \in subscribers[p] /\ s \in subscribers[q] => p = q

\* A send on a closed channel and a second close both panic in Go: whoever the
\* loop has still to visit is open, however readers, watchers, publishers and
\* Shutdown race to close it, and a closer's body finds the channel open.
NoPanic ==
  /\ \A c \in Comments, s \in Subs :
       publisher[c] = "iterating" /\ s \in todo[c] => chanState[s] = "open"
  /\ \A s \in Subs : once[s] = "running" => chanState[s] = "open"

\* A subscriber is sent comments of its own post only, each at most once, and
\* only by publishers that found it registered.
DeliveredOnceToItsPost ==
  \A s \in Subs :
    /\ \A i, j \in 1..Len(Delivered(s)) : Delivered(s)[i] = Delivered(s)[j] => i = j
    /\ \A i \in 1..Len(Delivered(s)) : s \in targets[Delivered(s)[i]]
    /\ \A i \in 1..Len(Delivered(s)), p \in Posts :
         s \in subscribers[p] => PostOf[Delivered(s)[i]] = p

\* A comment whose publication began after another one's had ended is never
\* delivered before it.  (Publications that overlap may be delivered in
\* different orders to different subscribers.)
DeliveredInPublishOrder ==
  \A s \in Subs : \A i, j \in 1..Len(Delivered(s)) :
    i < j => Delivered(s)[j] \notin before[Delivered(s)[i]]

\* When a publication has returned without an error, every subscriber it found
\* has been sent the comment or has been closed: who missed it can tell
\* (broker_test.go:104, TestBroker_SlowSubscriberChannelClosedOnOverflow).
SlowSubscribersAreClosed ==
  \A c \in Comments :
    publisher[c] = "returned" =>
      \A s \in targets[c] : chanState[s] = "closed" \/ c \in ToSet(Delivered(s))

\* What the comments of the loop say of a subscriber whose channel is full, "collect
\* its closer" (broker.go:37) and "close slow subscribers" (broker.go:44): a publication
\* that has passed somebody over lets go of its closer only when the channel is closed,
\* so that whoever was passed over can tell.
EveryMissIsVisible ==
  [][\A c \in Comments :
       \A s \in ToSet(slowClosers[c]) \ ToSet(slowClosers'[c]) : chanState[s] = "closed"]_vars

\* Shutdown has closed every channel it found, also those another goroutine was
\* closing at the same time.
ShutdownClosesWhatItFound ==
  shutdown = "done" => \A s \in shutTargets : chanState[s] = "closed"

\* The state of the contract: streams instead of channels, and whom a publication
\* passed over instead of the closers it has still to call.
Closed == {s \in Subs : chanState[s] = "closed"}
Streams == [s \in Subs |-> Delivered(s)]
Reads == [s \in Subs |-> Len(received[s])]
Passed == [c \in Comments |->
  IF publisher[c] = "failed" THEN {} ELSE {s \in targets[c] \ todo[c] : ~ Sent(c, s)}]
Cancelled == {c \in Comments : publishCtxDone[c]}
Left == {s \in Subs : subCtxDone[s] \/ reader[s] \in {"leaving", "left"}}

Contract == INSTANCE EventContract WITH
  Capacity <- BufferSize, members <- subscribers, closed <- Closed, stream <- Streams,
  read <- Reads, publication <- publisher, found <- targets, passed <- Passed,
  cancelled <- Cancelled, left <- Left, toClose <- shutTargets

\* The broker keeps what the ports promise: a comment goes to the open subscriptions
\* of its post that have room, nobody with room is passed over, no stream is closed
\* without a reason, and neither a publication nor Shutdown returns before whom it
\* owes a close is closed (broker.go, all of it).
ImplementsContract == Contract!Spec

\* A publisher gets through whatever its subscribers do: none of them has to
\* read, and the closers it calls or waits for do finish.
PublisherNeverBlocks ==
  \A c \in Comments :
    publisher[c] = "iterating" ~> publisher[c] \in {"returned", "failed"}

\* The end of a subscription's context closes its channel, whatever publishers
\* do meanwhile.
CancelledSubscriptionsClose ==
  \A s \in Subs : chanState[s] = "open" /\ subCtxDone[s] ~> chanState[s] = "closed"

\* Shutdown comes to an end although other goroutines close the same channels.
ShutdownEnds == shutdown = "closing" ~> shutdown = "done"
==============================================================================
