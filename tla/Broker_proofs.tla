---------------------------- MODULE Broker_proofs ----------------------------
(***************************************************************************)
(* Proofs about Broker, for any number of publishers, subscriptions and    *)
(* posts and any channel size: registration and closing first, then what   *)
(* the broker delivers, to whom, how often, in which order, and that who   *)
(* misses a comment can tell; last, that it implements EventContract.      *)
(***************************************************************************)
EXTENDS Broker, SequenceTheorems, TLAPS

(***************************************************************************)
(* Type correctness.                                                       *)
(***************************************************************************)
LEMMA TypeInductive ==
  /\ Init => TypeOK
  /\ TypeOK /\ [Next]_vars => TypeOK'
<1> USE PostOfIsTyped, BufferIsNotEmpty
<1>1. Init => TypeOK
  BY EmptySeq DEF Init, TypeOK
<1>2. ASSUME TypeOK, [Next]_vars PROVE TypeOK'
  <2> USE <1>2
  <2>1. ASSUME NEW c \in Comments, PublishBegin(c) PROVE TypeOK'
    BY <2>1 DEF TypeOK, PublishBegin, channelVars, readerVars, shutdownVars
  <2>2. ASSUME NEW c \in Comments, NEW s \in Subs, PublishSend(c, s) PROVE TypeOK'
    <3>1. /\ Append(buffer[s], c) \in Seq(Comments)
          /\ Len(Append(buffer[s], c)) = Len(buffer[s]) + 1
          /\ Len(buffer[s]) \in Nat
      BY DEF TypeOK
    <3>2. buffer' \in [Subs -> Seq(Comments)] /\ \A r \in Subs : Len(buffer'[r]) <= BufferSize
      BY <2>2, <3>1 DEF TypeOK, PublishSend
    <3> QED BY <2>2, <3>2 DEF TypeOK, PublishSend, readerVars, shutdownVars, historyVars
  <2>3. ASSUME NEW c \in Comments, NEW s \in Subs, PublishSkip(c, s) PROVE TypeOK'
    BY <2>3 DEF TypeOK, PublishSkip, channelVars, readerVars, shutdownVars, historyVars
  <2>4. ASSUME NEW c \in Comments, PublishAbort(c) PROVE TypeOK'
    BY <2>4, EmptySeq DEF TypeOK, PublishAbort, channelVars, readerVars, shutdownVars, historyVars
  <2>5. ASSUME NEW c \in Comments, PublishEndLoop(c) PROVE TypeOK'
    BY <2>5 DEF TypeOK, PublishEndLoop, channelVars, readerVars, shutdownVars, historyVars
  <2>6. ASSUME NEW c \in Comments, PublishCallCloser(c) PROVE TypeOK'
    BY <2>6 DEF TypeOK, PublishCallCloser, CallCloser, publisherVars, readerVars,
                shutdownVars, historyVars
  <2>7. ASSUME NEW c \in Comments, PublishCloserReturns(c) PROVE TypeOK'
    BY <2>7 DEF TypeOK, PublishCloserReturns, channelVars, readerVars, shutdownVars, historyVars
  <2>8. ASSUME NEW c \in Comments, PublishReturn(c) PROVE TypeOK'
    BY <2>8 DEF TypeOK, PublishReturn, channelVars, readerVars, shutdownVars, historyVars
  <2>9. ASSUME NEW c \in Comments, CancelPublish(c) PROVE TypeOK'
    BY <2>9 DEF TypeOK, CancelPublish, channelVars, readerVars, shutdownVars, historyVars
  <2>10. ASSUME NEW s \in Subs, NEW p \in Posts, SubscribeToPostComments(s, p) PROVE TypeOK'
    BY <2>10 DEF TypeOK, SubscribeToPostComments, publisherVars, shutdownVars, historyVars
  <2>11. ASSUME NEW s \in Subs, RunCloser(s) PROVE TypeOK'
    BY <2>11 DEF TypeOK, RunCloser, publisherVars, readerVars, shutdownVars, historyVars
  <2>12. ASSUME NEW s \in Subs, CancelSubscription(s) PROVE TypeOK'
    BY <2>12 DEF TypeOK, CancelSubscription, channelVars, publisherVars, shutdownVars, historyVars
  <2>13. ASSUME NEW s \in Subs, WatcherWakes(s) PROVE TypeOK'
    BY <2>13 DEF TypeOK, WatcherWakes, CallCloser, publisherVars, shutdownVars, historyVars
  <2>14. ASSUME NEW s \in Subs, WatcherEnds(s) PROVE TypeOK'
    BY <2>14 DEF TypeOK, WatcherEnds, channelVars, publisherVars, shutdownVars, historyVars
  <2>15. ASSUME NEW s \in Subs, Receive(s) PROVE TypeOK'
    <3>1. /\ Tail(buffer[s]) \in Seq(Comments)
          /\ Len(Tail(buffer[s])) <= BufferSize
          /\ Head(buffer[s]) \in Comments
      <4>1. buffer[s] \in Seq(Comments) /\ buffer[s] # <<>> /\ Len(buffer[s]) <= BufferSize
        BY <2>15 DEF TypeOK, Receive
      <4>2. Len(Tail(buffer[s])) = Len(buffer[s]) - 1 /\ Len(buffer[s]) \in Nat
        BY <4>1, HeadTailProperties
      <4> QED BY <4>1, <4>2, HeadTailProperties
    <3>2. Append(received[s], Head(buffer[s])) \in Seq(Comments)
      BY <3>1 DEF TypeOK
    <3>3. buffer' \in [Subs -> Seq(Comments)] /\ \A r \in Subs : Len(buffer'[r]) <= BufferSize
      BY <2>15, <3>1 DEF TypeOK, Receive
    <3> QED BY <2>15, <3>2, <3>3 DEF TypeOK, Receive, publisherVars, shutdownVars, historyVars
  <2>16. ASSUME NEW s \in Subs, Unsubscribe(s) PROVE TypeOK'
    BY <2>16 DEF TypeOK, Unsubscribe, CallCloser, publisherVars, shutdownVars, historyVars
  <2>17. ASSUME NEW s \in Subs, UnsubscribeReturns(s) PROVE TypeOK'
    BY <2>17 DEF TypeOK, UnsubscribeReturns, channelVars, publisherVars, shutdownVars, historyVars
  <2>18. ASSUME ShutdownBegin PROVE TypeOK'
    BY <2>18 DEF TypeOK, ShutdownBegin, channelVars, publisherVars, readerVars
  <2>19. ASSUME NEW s \in Subs, ShutdownCallCloser(s) PROVE TypeOK'
    BY <2>19 DEF TypeOK, ShutdownCallCloser, CallCloser, publisherVars, readerVars, historyVars
  <2>20. ASSUME NEW s \in Subs, ShutdownCloserReturns(s) PROVE TypeOK'
    BY <2>20 DEF TypeOK, ShutdownCloserReturns, channelVars, publisherVars, readerVars, historyVars
  <2>21. ASSUME ShutdownReturn PROVE TypeOK'
    BY <2>21 DEF TypeOK, ShutdownReturn, channelVars, publisherVars, readerVars, historyVars
  <2>22. ASSUME UNCHANGED vars PROVE TypeOK'
    BY <2>22 DEF TypeOK, vars, channelVars, publisherVars, readerVars, shutdownVars, historyVars
  <2> QED BY <2>1, <2>2, <2>3, <2>4, <2>5, <2>6, <2>7, <2>8, <2>9, <2>10, <2>11, <2>12,
             <2>13, <2>14, <2>15, <2>16, <2>17, <2>18, <2>19, <2>20, <2>21, <2>22
          DEF Next, PublisherStep, ShutdownStep
<1> QED BY <1>1, <1>2

\* Channels stay within their capacity and every part of the broker keeps its
\* type, for any number of actors.
THEOREM TypeCorrect == Spec => []TypeOK
<1>1. Init => TypeOK
  BY TypeInductive
<1>2. TypeOK /\ [Next]_vars => TypeOK'
  BY TypeInductive
<1> QED BY <1>1, <1>2, PTL DEF Spec

(***************************************************************************)
(* Registration, closing and Shutdown.                                     *)
(***************************************************************************)

\* The Once and the channel agree, and only made channels have closers to call.
OnceInv ==
  /\ \A s \in Subs : /\ once[s] = "done" <=> chanState[s] = "closed"
                     /\ once[s] = "running" => chanState[s] = "open"
  /\ \A s \in Subs : /\ watcher[s] = "waiting" => chanState[s] # "none"
                     /\ reader[s] = "reading" => chanState[s] # "none"
                     /\ s \in toShut => chanState[s] # "none"
  /\ \A c \in Comments : \A i \in 1..Len(slowClosers[c]) : chanState[slowClosers[c][i]] # "none"

\* What a publisher still has to visit is in the map: it holds the read lock.
VisitsRegistered ==
  \A c \in Comments : publisher[c] = "iterating" => todo[c] \subseteq subscribers[PostOf[c]]

\* Shutdown forgets nobody it found.
ShutdownInv ==
  /\ \A s \in shutTargets : s \in toShut \/ s \in shutting \/ chanState[s] = "closed"
  /\ \A s, r \in shutting : s = r
  /\ shutdown = "done" => toShut = {} /\ shutting = {}

BrokerInv == RegisteredIffOpen /\ OnceInv /\ VisitsRegistered /\ ShutdownInv

\* once.Do on a channel that has been made, with nothing else changed but what
\* the caller does to itself.
LEMMA CallCloserKeepsOnce ==
  ASSUME TypeOK, BrokerInv, NEW s \in Subs, chanState[s] # "none",
         CallCloser(s), chanState' = chanState
  PROVE  \A r \in Subs : /\ once'[r] = "done" <=> chanState'[r] = "closed"
                         /\ once'[r] = "running" => chanState'[r] = "open"
<1>1. \A r \in Subs : once'[r] = IF r = s /\ once[r] = "free" THEN "running" ELSE once[r]
  BY DEF CallCloser, TypeOK
<1>2. once[s] = "free" => chanState[s] = "open"
  BY DEF BrokerInv, OnceInv, TypeOK
<1> QED BY <1>1, <1>2 DEF BrokerInv, OnceInv

LEMMA BrokerInductive ==
  /\ Init => BrokerInv
  /\ TypeOK /\ BrokerInv /\ [Next]_vars => BrokerInv'
<1> USE PostOfIsTyped
<1>1. ASSUME Init PROVE BrokerInv
  <2>1. \A c \in Comments : Len(slowClosers[c]) = 0
    BY <1>1, EmptySeq DEF Init
  <2> QED BY <1>1, <2>1 DEF Init, BrokerInv, RegisteredIffOpen, OnceInv, VisitsRegistered, ShutdownInv
<1>2. ASSUME TypeOK, BrokerInv, [Next]_vars PROVE BrokerInv'
  <2> USE <1>2
  <2>1. ASSUME UNCHANGED <<subscribers, chanState, once, shutdown, toShut, shutting, shutTargets>>,
               \A c \in Comments : publisher'[c] = "iterating" => todo'[c] \subseteq subscribers[PostOf[c]],
               \A s \in Subs : /\ watcher'[s] = "waiting" => watcher[s] = "waiting"
                               /\ reader'[s] = "reading" => reader[s] = "reading",
               \A c \in Comments : \A i \in 1..Len(slowClosers'[c]) :
                 chanState[slowClosers'[c][i]] # "none"
        PROVE  BrokerInv'
    BY <2>1 DEF BrokerInv, RegisteredIffOpen, OnceInv, VisitsRegistered, ShutdownInv
  <2>2. ASSUME NEW c \in Comments, PublishBegin(c) PROVE BrokerInv'
    <3>1. \A d \in Comments : publisher'[d] = "iterating" => todo'[d] \subseteq subscribers[PostOf[d]]
      BY <2>2 DEF PublishBegin, TypeOK, BrokerInv, VisitsRegistered
    <3> QED BY <2>1, <2>2, <3>1 DEF PublishBegin, BrokerInv, OnceInv, channelVars, readerVars, shutdownVars
  <2>3. ASSUME NEW c \in Comments, NEW s \in Subs, PublishSend(c, s) PROVE BrokerInv'
    <3>1. \A d \in Comments : publisher'[d] = "iterating" => todo'[d] \subseteq subscribers[PostOf[d]]
      BY <2>3 DEF PublishSend, TypeOK, BrokerInv, VisitsRegistered
    <3> QED BY <2>1, <2>3, <3>1 DEF PublishSend, BrokerInv, OnceInv, readerVars, shutdownVars, historyVars
  <2>4. ASSUME NEW c \in Comments, NEW s \in Subs, PublishSkip(c, s) PROVE BrokerInv'
    <3>1. \A d \in Comments : publisher'[d] = "iterating" => todo'[d] \subseteq subscribers[PostOf[d]]
      BY <2>4 DEF PublishSkip, TypeOK, BrokerInv, VisitsRegistered
    <3>2. chanState[s] # "none"
      BY <2>4 DEF PublishSkip, BrokerInv, VisitsRegistered, RegisteredIffOpen
    <3>3. ASSUME NEW d \in Comments, NEW i \in 1..Len(slowClosers'[d])
          PROVE  chanState[slowClosers'[d][i]] # "none"
      <4>1. CASE d # c
        BY <2>4, <3>3, <4>1 DEF PublishSkip, TypeOK, BrokerInv, OnceInv
      <4>2. CASE d = c
        <5>1. slowClosers[c] \in Seq(Subs) BY DEF TypeOK
        <5>2. slowClosers'[c] = Append(slowClosers[c], s)
          BY <2>4 DEF PublishSkip, TypeOK
        <5>3. /\ Len(slowClosers'[c]) = Len(slowClosers[c]) + 1
              /\ \A k \in 1..Len(slowClosers[c]) : slowClosers'[c][k] = slowClosers[c][k]
              /\ slowClosers'[c][Len(slowClosers[c]) + 1] = s
          BY <5>1, <5>2, AppendProperties
        <5>4. i \in 1..Len(slowClosers[c]) \/ i = Len(slowClosers[c]) + 1
          BY <3>3, <4>2, <5>1, <5>3
        <5> QED BY <3>2, <4>2, <5>3, <5>4 DEF BrokerInv, OnceInv
      <4> QED BY <4>1, <4>2
    <3> QED BY <2>1, <2>4, <3>1, <3>3 DEF PublishSkip, channelVars, readerVars, shutdownVars, historyVars
  <2>5. ASSUME NEW c \in Comments, PublishAbort(c) PROVE BrokerInv'
    <3>1. \A d \in Comments : publisher'[d] = "iterating" => todo'[d] \subseteq subscribers[PostOf[d]]
      BY <2>5 DEF PublishAbort, TypeOK, BrokerInv, VisitsRegistered
    <3>2. \A d \in Comments : slowClosers'[d] = IF d = c THEN <<>> ELSE slowClosers[d]
      BY <2>5 DEF PublishAbort, TypeOK
    <3>3. \A d \in Comments : \A i \in 1..Len(slowClosers'[d]) : chanState[slowClosers'[d][i]] # "none"
      BY <3>2, EmptySeq DEF BrokerInv, OnceInv
    <3> QED BY <2>1, <2>5, <3>1, <3>3 DEF PublishAbort, channelVars, readerVars, shutdownVars, historyVars
  <2>6. ASSUME NEW c \in Comments, PublishEndLoop(c) \/ PublishReturn(c) \/ CancelPublish(c)
        PROVE BrokerInv'
    <3>1. \A d \in Comments : publisher'[d] = "iterating" => todo'[d] \subseteq subscribers[PostOf[d]]
      BY <2>6 DEF PublishEndLoop, PublishReturn, CancelPublish, TypeOK, BrokerInv, VisitsRegistered
    <3> QED BY <2>1, <2>6, <3>1 DEF PublishEndLoop, PublishReturn, CancelPublish, BrokerInv, OnceInv,
               channelVars, readerVars, shutdownVars, historyVars
  <2>7. ASSUME NEW c \in Comments, PublishCallCloser(c) PROVE BrokerInv'
    <3> DEFINE s == Head(slowClosers[c])
    <3>1. slowClosers[c] \in Seq(Subs) /\ slowClosers[c] # <<>>
      BY <2>7 DEF PublishCallCloser, TypeOK
    <3>2. s \in Subs /\ s = slowClosers[c][1] /\ 1 \in 1..Len(slowClosers[c])
      BY <3>1, HeadTailProperties, EmptySeq
    <3>3. chanState[s] # "none"
      BY <3>2 DEF BrokerInv, OnceInv
    <3>4. CallCloser(s) /\ chanState' = chanState
      BY <2>7 DEF PublishCallCloser
    <3> HIDE DEF s
    <3>5. \A r \in Subs : /\ once'[r] = "done" <=> chanState'[r] = "closed"
                          /\ once'[r] = "running" => chanState'[r] = "open"
      BY <3>2, <3>3, <3>4, CallCloserKeepsOnce
    <3> QED BY <2>7, <3>5 DEF PublishCallCloser, BrokerInv, RegisteredIffOpen, OnceInv,
               VisitsRegistered, ShutdownInv, publisherVars, readerVars, shutdownVars, historyVars
  <2>8. ASSUME NEW c \in Comments, PublishCloserReturns(c) PROVE BrokerInv'
    <3>1. slowClosers[c] \in Seq(Subs) /\ slowClosers[c] # <<>>
      BY <2>8 DEF PublishCloserReturns, TypeOK
    <3>2. \A d \in Comments : slowClosers'[d] = IF d = c THEN Tail(slowClosers[c]) ELSE slowClosers[d]
      BY <2>8 DEF PublishCloserReturns, TypeOK
    <3>3. ASSUME NEW d \in Comments, NEW i \in 1..Len(slowClosers'[d])
          PROVE  chanState[slowClosers'[d][i]] # "none"
      <4>1. CASE d # c
        BY <3>2, <3>3, <4>1 DEF BrokerInv, OnceInv
      <4>2. CASE d = c
        <5>1. Len(Tail(slowClosers[c])) = Len(slowClosers[c]) - 1 /\ Len(slowClosers[c]) \in Nat
          BY <3>1, HeadTailProperties
        <5>6. i \in 1..Len(Tail(slowClosers[c]))
          BY <3>2, <3>3, <4>2
        <5> HIDE <2>8, <3>3
        <5>2. i + 1 \in 1..Len(slowClosers[c]) /\ i \in 1..Len(slowClosers[c]) - 1
          BY <5>1, <5>6
        <5>3. Tail(slowClosers[c])[i] = slowClosers[c][i + 1]
          BY <3>1, <5>1, <5>2, HeadTailProperties
        <5>4. chanState[slowClosers[c][i + 1]] # "none"
          BY <5>2 DEF BrokerInv, OnceInv
        <5>5. slowClosers'[d][i] = Tail(slowClosers[c])[i]
          BY <3>2, <4>2
        <5> QED BY <5>3, <5>4, <5>5
      <4> QED BY <4>1, <4>2
    <3> QED BY <2>1, <2>8, <3>3 DEF PublishCloserReturns, BrokerInv, VisitsRegistered,
               channelVars, readerVars, shutdownVars, historyVars
  <2>9. ASSUME NEW s \in Subs, NEW p \in Posts, SubscribeToPostComments(s, p) PROVE BrokerInv'
    <3>1. \A c \in Comments : publisher'[c] # "iterating"
      BY <2>9 DEF SubscribeToPostComments, NoReaders, publisherVars
    <3>2. \A q \in Posts : subscribers'[q] = IF q = p THEN subscribers[q] \cup {s} ELSE subscribers[q]
      BY <2>9 DEF SubscribeToPostComments, TypeOK
    <3>3. \A r \in Subs : chanState'[r] = IF r = s THEN "open" ELSE chanState[r]
      BY <2>9 DEF SubscribeToPostComments, TypeOK
    <3>4. chanState[s] = "none" /\ once' = once /\ UNCHANGED <<slowClosers, toShut, shutting, shutdown, shutTargets>>
      BY <2>9 DEF SubscribeToPostComments, publisherVars, shutdownVars, historyVars
    <3>5. RegisteredIffOpen'
      <4>1. \A q \in Posts : s \in subscribers'[q] <=> q = p
        BY <3>2, <3>4 DEF BrokerInv, RegisteredIffOpen
      <4>2. \A r \in Subs, q \in Posts : r # s => (r \in subscribers'[q] <=> r \in subscribers[q])
        BY <3>2
      <4>3. ASSUME NEW r \in Subs, r # s
            PROVE  /\ chanState'[r] = "open" <=> \E q \in Posts : r \in subscribers'[q]
                   /\ \A q, t \in Posts : r \in subscribers'[q] /\ r \in subscribers'[t] => q = t
        BY <3>3, <4>2, <4>3 DEF BrokerInv, RegisteredIffOpen
      <4>4. chanState'[s] = "open"
        BY <3>3
      <4> QED BY <4>1, <4>3, <4>4 DEF RegisteredIffOpen
    <3>6. OnceInv'
      <4>1. \A r \in Subs : r # s => watcher'[r] = watcher[r] /\ reader'[r] = reader[r]
        BY <2>9 DEF SubscribeToPostComments, TypeOK
      <4>2. once[s] = "free"
        BY <3>4 DEF BrokerInv, OnceInv, TypeOK
      <4>3. \A c \in Comments : \A i \in 1..Len(slowClosers[c]) : slowClosers[c][i] \in Subs
        <5>1. \A c \in Comments : slowClosers[c] \in Seq(Subs) BY DEF TypeOK
        <5> QED BY <5>1
      <4> QED BY <3>3, <3>4, <4>1, <4>2, <4>3 DEF BrokerInv, OnceInv
    <3>7. ShutdownInv'
      BY <3>3, <3>4 DEF BrokerInv, ShutdownInv, TypeOK
    <3> QED BY <3>1, <3>5, <3>6, <3>7 DEF BrokerInv, VisitsRegistered
  <2>10. ASSUME NEW s \in Subs, RunCloser(s) PROVE BrokerInv'
    <3>1. \A c \in Comments : publisher'[c] # "iterating"
      BY <2>10 DEF RunCloser, NoReaders, publisherVars
    <3>2. \A q \in Posts : subscribers'[q] = subscribers[q] \ {s}
      BY <2>10 DEF RunCloser
    <3>3. \A r \in Subs : /\ chanState'[r] = IF r = s THEN "closed" ELSE chanState[r]
                          /\ once'[r] = IF r = s THEN "done" ELSE once[r]
      BY <2>10 DEF RunCloser, TypeOK
    <3>4. UNCHANGED <<watcher, reader, slowClosers, toShut, shutting, shutdown, shutTargets>>
      BY <2>10 DEF RunCloser, publisherVars, readerVars, shutdownVars, historyVars
    <3>5. RegisteredIffOpen'
      BY <3>2, <3>3 DEF BrokerInv, RegisteredIffOpen
    <3>6. OnceInv'
      <4>1. \A c \in Comments : \A i \in 1..Len(slowClosers[c]) : slowClosers[c][i] \in Subs
        <5>1. \A c \in Comments : slowClosers[c] \in Seq(Subs) BY DEF TypeOK
        <5> QED BY <5>1
      <4> QED BY <3>3, <3>4, <4>1 DEF BrokerInv, OnceInv
    <3>7. ShutdownInv'
      BY <3>3, <3>4 DEF BrokerInv, ShutdownInv, TypeOK
    <3> QED BY <3>1, <3>5, <3>6, <3>7 DEF BrokerInv, VisitsRegistered
  <2>11. ASSUME NEW s \in Subs, CancelSubscription(s) \/ WatcherEnds(s) \/ Receive(s) \/ UnsubscribeReturns(s)
         PROVE BrokerInv'
    <3>1. UNCHANGED <<subscribers, chanState, once, publisher, todo, slowClosers,
                      shutdown, toShut, shutting, shutTargets>>
      BY <2>11 DEF CancelSubscription, WatcherEnds, Receive, UnsubscribeReturns,
                   channelVars, publisherVars, shutdownVars, historyVars
    <3>2. \A r \in Subs : /\ watcher'[r] = "waiting" => watcher[r] = "waiting"
                          /\ reader'[r] = "reading" => reader[r] = "reading"
      BY <2>11 DEF CancelSubscription, WatcherEnds, Receive, UnsubscribeReturns, TypeOK
    <3> QED BY <2>1, <3>1, <3>2 DEF BrokerInv, VisitsRegistered, OnceInv
  <2>12. ASSUME NEW s \in Subs, WatcherWakes(s) \/ Unsubscribe(s) \/ ShutdownCallCloser(s) PROVE BrokerInv'
    <3>1. CallCloser(s) /\ chanState' = chanState /\ chanState[s] # "none"
      BY <2>12 DEF WatcherWakes, Unsubscribe, ShutdownCallCloser, BrokerInv, OnceInv
    <3>2. \A r \in Subs : /\ once'[r] = "done" <=> chanState'[r] = "closed"
                          /\ once'[r] = "running" => chanState'[r] = "open"
      BY <3>1, CallCloserKeepsOnce
    <3>3. UNCHANGED <<subscribers, chanState, publisher, todo, slowClosers, shutdown, shutTargets>>
      BY <2>12 DEF WatcherWakes, Unsubscribe, ShutdownCallCloser, publisherVars, shutdownVars, historyVars
    <3>4. \A r \in Subs : /\ watcher'[r] = "waiting" => watcher[r] = "waiting"
                          /\ reader'[r] = "reading" => reader[r] = "reading"
      BY <2>12 DEF WatcherWakes, Unsubscribe, ShutdownCallCloser, readerVars, TypeOK
    <3>5. /\ toShut' \subseteq toShut
          /\ toShut \cup shutting \subseteq toShut' \cup shutting'
          /\ shutting' = shutting \/ shutting' = {s}
          /\ shutdown = "done" => toShut' = toShut /\ shutting' = shutting
      BY <2>12 DEF WatcherWakes, Unsubscribe, ShutdownCallCloser, shutdownVars
    <3>6. OnceInv'
      BY <3>2, <3>3, <3>4, <3>5 DEF BrokerInv, OnceInv
    <3>7. ShutdownInv'
      BY <3>3, <3>5 DEF BrokerInv, ShutdownInv
    <3> QED BY <3>3, <3>6, <3>7 DEF BrokerInv, RegisteredIffOpen, VisitsRegistered
  <2>13. ASSUME ShutdownBegin PROVE BrokerInv'
    <3>1. ASSUME NEW s \in toShut' PROVE s \in Subs /\ chanState[s] # "none"
      <4>1. PICK p \in Posts : s \in subscribers[p]
        BY <2>13, <3>1 DEF ShutdownBegin
      <4>2. s \in Subs
        BY <4>1 DEF TypeOK
      <4> QED BY <4>1, <4>2 DEF BrokerInv, RegisteredIffOpen
    <3> QED BY <2>13, <3>1 DEF ShutdownBegin, BrokerInv, RegisteredIffOpen, OnceInv, VisitsRegistered,
               ShutdownInv, channelVars, publisherVars, readerVars
  <2>14. ASSUME NEW s \in Subs, ShutdownCloserReturns(s) PROVE BrokerInv'
    <3>1. s \in shutting => chanState[s] = "closed"
      BY <2>14 DEF ShutdownCloserReturns, BrokerInv, OnceInv
    <3>2. s \in shutting /\ shutting' = {} /\ UNCHANGED <<chanState, toShut, shutdown, shutTargets>>
      BY <2>14 DEF ShutdownCloserReturns, channelVars, historyVars
    <3>3. ShutdownInv'
      BY <3>1, <3>2 DEF BrokerInv, ShutdownInv
    <3>4. RegisteredIffOpen' /\ OnceInv' /\ VisitsRegistered'
      BY <2>14 DEF ShutdownCloserReturns, BrokerInv, RegisteredIffOpen, OnceInv,
                   VisitsRegistered, channelVars, publisherVars, readerVars, historyVars
    <3> QED BY <3>3, <3>4 DEF BrokerInv
  <2>15. ASSUME ShutdownReturn PROVE BrokerInv'
    BY <2>15 DEF ShutdownReturn, BrokerInv, RegisteredIffOpen, OnceInv, VisitsRegistered,
                 ShutdownInv, channelVars, publisherVars, readerVars, historyVars
  <2>16. ASSUME UNCHANGED vars PROVE BrokerInv'
    BY <2>16 DEF vars, BrokerInv, RegisteredIffOpen, OnceInv, VisitsRegistered, ShutdownInv,
                 channelVars, publisherVars, readerVars, shutdownVars, historyVars
  <2> QED BY <2>2, <2>3, <2>4, <2>5, <2>6, <2>7, <2>8, <2>9, <2>10, <2>11, <2>12, <2>13,
             <2>14, <2>15, <2>16 DEF Next, PublisherStep, ShutdownStep
<1> QED BY <1>1, <1>2

\* A channel is in the map exactly while it is open, and under one post.
THEOREM RegistrationCorrect == Spec => []RegisteredIffOpen
<1>1. TypeOK /\ BrokerInv => RegisteredIffOpen
  BY DEF BrokerInv
<1> QED BY <1>1, BrokerInductive, TypeInductive, PTL DEF Spec

\* No send on a closed channel and no second close, whatever the interleaving.
THEOREM NeverPanics == Spec => []NoPanic
<1>1. ASSUME TypeOK, BrokerInv PROVE NoPanic
  <2>1. ASSUME NEW c \in Comments, NEW s \in Subs, publisher[c] = "iterating", s \in todo[c]
        PROVE  chanState[s] = "open"
    <3>1. PostOf[c] \in Posts /\ s \in subscribers[PostOf[c]]
      BY <1>1, <2>1, PostOfIsTyped DEF BrokerInv, VisitsRegistered
    <3> QED BY <1>1, <3>1 DEF BrokerInv, RegisteredIffOpen
  <2>2. \A s \in Subs : once[s] = "running" => chanState[s] = "open"
    BY <1>1 DEF BrokerInv, OnceInv
  <2> QED BY <2>1, <2>2 DEF NoPanic
<1> QED BY <1>1, BrokerInductive, TypeInductive, PTL DEF Spec

\* Shutdown returns only when every channel it found is closed.
THEOREM ShutdownComplete == Spec => []ShutdownClosesWhatItFound
<1>1. TypeOK /\ BrokerInv => ShutdownClosesWhatItFound
  BY DEF BrokerInv, ShutdownInv, ShutdownClosesWhatItFound
<1> QED BY <1>1, BrokerInductive, TypeInductive, PTL DEF Spec

(***************************************************************************)
(* What a subscription has been sent.                                      *)
(***************************************************************************)

\* Two ways to read a sequence that is put together from two.
LEMMA AppendBehind ==
  ASSUME NEW S, NEW a \in Seq(S), NEW b \in Seq(S), NEW e \in S
  PROVE  a \o Append(b, e) = Append(a \o b, e)
<1>1. Append(b, e) = b \o <<e>> /\ <<e>> \in Seq(S)
  BY AppendIsConcat
<1>2. a \o b \in Seq(S)
  BY ConcatProperties
<1>3. Append(a \o b, e) = (a \o b) \o <<e>>
  BY <1>2, AppendIsConcat
<1> QED BY <1>1, <1>3, ConcatAssociative

LEMMA HeadGoesOver ==
  ASSUME NEW S, NEW a \in Seq(S), NEW b \in Seq(S), b # <<>>
  PROVE  Append(a, Head(b)) \o Tail(b) = a \o b
<1>1. /\ Head(b) \in S /\ Tail(b) \in Seq(S) /\ Len(Tail(b)) = Len(b) - 1
      /\ \A i \in 1..Len(Tail(b)) : Tail(b)[i] = b[i + 1]
      /\ Head(b) = b[1]
  BY HeadTailProperties
<1> DEFINE h == <<Head(b)>>
           t == Tail(b)
<1>2. h \in Seq(S) /\ t \in Seq(S) /\ Len(h) = 1 /\ h[1] = b[1]
  BY <1>1
<1>3. Append(a, Head(b)) = a \o h
  BY <1>1, AppendIsConcat
<1>4. h \o t = b
  <2>1. /\ h \o t \in Seq(S) /\ Len(h \o t) = Len(b)
        /\ \A i \in 1..Len(b) : (h \o t)[i] = IF i <= 1 THEN h[i] ELSE t[i - 1]
    <3> HIDE DEF h
    <3>1. Len(h) + Len(t) = Len(b) /\ Len(b) \in Nat
      BY <1>1, <1>2
    <3> HIDE DEF t
    <3>2. /\ h \o t \in Seq(S) /\ Len(h \o t) = Len(h) + Len(t)
          /\ \A i \in 1..Len(h) + Len(t) : (h \o t)[i] = IF i <= Len(h) THEN h[i] ELSE t[i - Len(h)]
      BY <1>2, ConcatProperties, Zenon
    <3> QED BY <1>2, <3>1, <3>2
  <2>2. ASSUME NEW i \in 1..Len(b) PROVE (h \o t)[i] = b[i]
    <3> HIDE DEF h
    <3>1. CASE i <= 1
      BY <1>2, <2>1, <3>1
    <3>2. CASE ~ (i <= 1)
      <4>1. i - 1 \in 1..Len(t)
        BY <1>1, <3>2
      <4>2. t[i - 1] = b[(i - 1) + 1]
        BY <1>1, <4>1
      <4> QED BY <2>1, <3>2, <4>2
    <3> QED BY <3>1, <3>2
  <2> HIDE DEF h, t
  <2> QED BY <2>1, <2>2, SeqEqual
<1> HIDE DEF h
<1> QED BY <1>2, <1>3, <1>4, ConcatAssociative

LEMMA SendAppends ==
  ASSUME TypeOK, NEW c \in Comments, NEW s \in Subs, PublishSend(c, s)
  PROVE  Delivered(s)' = Append(Delivered(s), c)
<1>1. received[s] \in Seq(Comments) /\ buffer[s] \in Seq(Comments)
  BY DEF TypeOK
<1>2. received'[s] = received[s] /\ buffer'[s] = Append(buffer[s], c)
  BY DEF PublishSend, TypeOK, readerVars
<1>3. \A a, b \in Seq(Comments) : a \o Append(b, c) = Append(a \o b, c)
  BY AppendBehind
<1>4. received[s] \o Append(buffer[s], c) = Append(received[s] \o buffer[s], c)
  BY <1>1, <1>3
<1> QED BY <1>2, <1>4 DEF Delivered

\* What a subscription has been sent grows at its end only, by what is sent to it:
\* reading moves a comment from the channel to its reader.
LEMMA DeliveredGrowsAtItsEnd ==
  ASSUME TypeOK, [Next]_vars, NEW s \in Subs
  PROVE  \/ Delivered(s)' = Delivered(s)
         \/ \E c \in Comments : PublishSend(c, s) /\ Delivered(s)' = Append(Delivered(s), c)
<1>1. ASSUME UNCHANGED <<buffer, received>> PROVE Delivered(s)' = Delivered(s)
  BY <1>1 DEF Delivered
<1>2. ASSUME NEW c \in Comments, NEW r \in Subs, PublishSend(c, r)
      PROVE  \/ Delivered(s)' = Delivered(s)
             \/ PublishSend(c, s) /\ Delivered(s)' = Append(Delivered(s), c)
  <2>1. CASE r # s
    BY <1>2, <2>1 DEF PublishSend, Delivered, TypeOK, readerVars
  <2>2. CASE r = s
    BY <1>2, <2>2, SendAppends
  <2> QED BY <2>1, <2>2
<1>3. ASSUME NEW r \in Subs, Receive(r) PROVE Delivered(s)' = Delivered(s)
  <2>1. CASE r # s
    BY <1>3, <2>1 DEF Receive, Delivered, TypeOK
  <2>2. CASE r = s
    <3>1. received[s] \in Seq(Comments) /\ buffer[s] \in Seq(Comments) /\ buffer[s] # <<>>
      BY <1>3, <2>2 DEF TypeOK, Receive
    <3>2. received'[s] = Append(received[s], Head(buffer[s])) /\ buffer'[s] = Tail(buffer[s])
      BY <1>3, <2>2 DEF Receive, TypeOK
    <3>3. Append(received[s], Head(buffer[s])) \o Tail(buffer[s]) = received[s] \o buffer[s]
      BY <3>1, HeadGoesOver
    <3> QED BY <3>2, <3>3 DEF Delivered
  <2> QED BY <2>1, <2>2
<1>4. ASSUME NEW c \in Comments, NEW r \in Subs, PublishSkip(c, r)
      PROVE  UNCHANGED <<buffer, received>>
  BY <1>4 DEF PublishSkip, channelVars, readerVars
<1>5. ASSUME NEW c \in Comments,
             \/ PublishBegin(c) \/ PublishAbort(c) \/ PublishEndLoop(c) \/ PublishCallCloser(c)
             \/ PublishCloserReturns(c) \/ PublishReturn(c) \/ CancelPublish(c)
      PROVE  UNCHANGED <<buffer, received>>
  BY <1>5 DEF PublishBegin, PublishAbort, PublishEndLoop, PublishCallCloser, PublishCloserReturns,
              PublishReturn, CancelPublish, channelVars, readerVars
<1>6. ASSUME NEW r \in Subs,
             \/ RunCloser(r) \/ CancelSubscription(r) \/ WatcherWakes(r) \/ WatcherEnds(r)
             \/ Unsubscribe(r) \/ UnsubscribeReturns(r)
      PROVE  UNCHANGED <<buffer, received>>
  BY <1>6 DEF RunCloser, CancelSubscription, WatcherWakes, WatcherEnds, Unsubscribe,
              UnsubscribeReturns, channelVars, readerVars
<1>7. ASSUME NEW r \in Subs, NEW p \in Posts, SubscribeToPostComments(r, p)
      PROVE  UNCHANGED <<buffer, received>>
  BY <1>7 DEF SubscribeToPostComments
<1>8. ShutdownBegin \/ ShutdownStep => UNCHANGED <<buffer, received>>
  BY DEF ShutdownBegin, ShutdownStep, ShutdownCallCloser, ShutdownCloserReturns, ShutdownReturn,
         channelVars, readerVars
<1>9. UNCHANGED vars => UNCHANGED <<buffer, received>>
  BY DEF vars, channelVars, readerVars
<1> QED BY <1>1, <1>2, <1>3, <1>4, <1>5, <1>6, <1>7, <1>8, <1>9 DEF Next, PublisherStep

Ended(c) == publisher[c] \in {"closing", "returned", "failed"}

LEMMA DeliveredIsTyped ==
  ASSUME TypeOK, NEW s \in Subs
  PROVE  Delivered(s) \in Seq(Comments)
BY ConcatProperties DEF Delivered, TypeOK

LEMMA AppendedIsSent ==
  ASSUME TypeOK, NEW c \in Comments, NEW d \in Comments, NEW s \in Subs,
         Delivered(s)' = Append(Delivered(s), d)
  PROVE  Sent(c, s)' <=> Sent(c, s) \/ c = d
<1> DEFINE old == Delivered(s)
           new == Delivered(s)'
<1>1. old \in Seq(Comments) /\ Len(old) \in Nat
  BY DeliveredIsTyped
<1> HIDE DEF old
<1>2. new = Append(old, d)
  BY DEF old
<1>3. /\ Len(Append(old, d)) = Len(old) + 1
      /\ \A i \in 1..Len(old) : Append(old, d)[i] = old[i]
      /\ Append(old, d)[Len(old) + 1] = d
  BY <1>1, AppendProperties
<1> HIDE DEF new
<1>4. /\ Len(new) = Len(old) + 1
      /\ \A i \in 1..Len(old) : new[i] = old[i]
      /\ new[Len(old) + 1] = d
  BY <1>2, <1>3
<1>5. Sent(c, s) <=> \E i \in 1..Len(old) : old[i] = c
  BY DEF Sent, old
<1>6. Sent(c, s)' <=> \E i \in 1..Len(new) : new[i] = c
  BY DEF Sent, new
<1>7. \A i \in 1..Len(new) : i \in 1..Len(old) \/ i = Len(old) + 1
  BY <1>1, <1>4
<1>8. 1..Len(old) \subseteq 1..Len(new) /\ Len(old) + 1 \in 1..Len(new)
  BY <1>1, <1>4
<1> QED BY <1>4, <1>5, <1>6, <1>7, <1>8

\* Nothing is taken back, and nothing is sent but by a send.
LEMMA SentGrows ==
  ASSUME TypeOK, [Next]_vars, NEW c \in Comments, NEW s \in Subs
  PROVE  /\ Sent(c, s) => Sent(c, s)'
         /\ Sent(c, s)' => Sent(c, s) \/ PublishSend(c, s)
<1>1. CASE Delivered(s)' = Delivered(s)
  BY <1>1 DEF Sent
<1>2. ASSUME NEW d \in Comments, PublishSend(d, s), Delivered(s)' = Append(Delivered(s), d)
      PROVE  /\ Sent(c, s) => Sent(c, s)'
             /\ Sent(c, s)' => Sent(c, s) \/ PublishSend(c, s)
  BY <1>2, AppendedIsSent
<1> QED BY <1>1, <1>2, DeliveredGrowsAtItsEnd

LEMMA OnlySendsSend ==
  ASSUME UNCHANGED <<buffer, received>>, NEW c \in Comments, NEW s \in Subs
  PROVE  Sent(c, s)' <=> Sent(c, s)
BY DEF Sent, Delivered

LEMMA SendIsSent ==
  ASSUME TypeOK, NEW c \in Comments, NEW d \in Comments, NEW s \in Subs, NEW r \in Subs,
         PublishSend(c, s)
  PROVE  Sent(d, r)' <=> Sent(d, r) \/ (d = c /\ r = s)
<1>1. CASE r = s
  BY <1>1, SendAppends, AppendedIsSent
<1>2. CASE r # s
  <2>1. Delivered(r)' = Delivered(r)
    BY <1>2 DEF PublishSend, Delivered, TypeOK, readerVars
  <2> QED BY <1>2, <2>1 DEF Sent
<1> QED BY <1>1, <1>2

(***************************************************************************)
(* Delivery once, to the right post, in order.                             *)
(***************************************************************************)

\* A publication sends to those it found and has not still to visit, and counts as
\* earlier than another one only when it has ended.
SentToTargets ==
  \A c \in Comments, s \in Subs :
    Sent(c, s) => /\ s \in targets[c] /\ s \notin todo[c]
                  /\ publisher[c] # "idle" /\ chanState[s] # "none"

TargetsWereMade ==
  \A c \in Comments : /\ todo[c] \subseteq targets[c]
                      /\ \A s \in Subs : s \in targets[c] => chanState[s] # "none"
                      /\ publisher[c] = "idle" => todo[c] = {} /\ targets[c] = {}

SentToItsPost ==
  \A s \in Subs, p \in Posts, c \in Comments : Sent(c, s) /\ s \in subscribers[p] => PostOf[c] = p

EarlierHaveEnded == \A c \in Comments : \A d \in before[c] : Ended(d)

DeliveryInv == SentToTargets /\ TargetsWereMade /\ SentToItsPost /\ EarlierHaveEnded

LEMMA DeliveryInductive ==
  /\ Init => DeliveryInv
  /\ TypeOK /\ BrokerInv /\ DeliveryInv /\ [Next]_vars => DeliveryInv'
<1> USE PostOfIsTyped
<1>1. ASSUME Init PROVE DeliveryInv
  <2>1. ASSUME NEW c \in Comments, NEW s \in Subs PROVE ~ Sent(c, s)
    <3>1. Delivered(s) = <<>> \o <<>> /\ <<>> \o <<>> = <<>>
      BY <1>1, EmptySeq, ConcatEmptySeq DEF Init, Delivered
    <3> QED BY <3>1, EmptySeq DEF Sent
  <2> QED BY <1>1, <2>1 DEF Init, DeliveryInv, SentToTargets, TargetsWereMade,
              SentToItsPost, EarlierHaveEnded
<1>2. ASSUME TypeOK, BrokerInv, DeliveryInv, [Next]_vars PROVE DeliveryInv'
  <2> USE <1>2
  <2>1. ASSUME \A c \in Comments, s \in Subs : Sent(c, s)' => Sent(c, s),
               \A s \in Subs : chanState[s] # "none" => chanState'[s] # "none",
               \A p \in Posts : subscribers'[p] \subseteq subscribers[p],
               \A c \in Comments : todo'[c] \subseteq todo[c],
               \A c \in Comments : publisher[c] # "idle" => publisher'[c] # "idle",
               \A c \in Comments : publisher'[c] = "idle" => publisher[c] = "idle",
               \A c \in Comments : Ended(c) => Ended(c)',
               UNCHANGED <<targets, before>>
        PROVE  DeliveryInv'
    <3>1. \A c \in Comments : \A d \in before[c] : d \in Comments
      BY DEF TypeOK
    <3> QED BY <2>1, <3>1 DEF DeliveryInv, SentToTargets, TargetsWereMade, SentToItsPost,
               EarlierHaveEnded
  <2>2. ASSUME NEW c \in Comments, PublishBegin(c) PROVE DeliveryInv'
    <3>1. \A d \in Comments, s \in Subs : Sent(d, s)' <=> Sent(d, s)
      BY <2>2, OnlySendsSend DEF PublishBegin, channelVars, readerVars
    <3>2. /\ \A d \in Comments : /\ publisher'[d] = IF d = c THEN "iterating" ELSE publisher[d]
                                 /\ todo'[d] = IF d = c THEN subscribers[PostOf[c]] ELSE todo[d]
                                 /\ targets'[d] = IF d = c THEN subscribers[PostOf[c]] ELSE targets[d]
                                 /\ before'[d] = IF d = c THEN {e \in Comments : Ended(e)} ELSE before[d]
          /\ UNCHANGED <<subscribers, chanState>> /\ publisher[c] = "idle"
      BY <2>2 DEF PublishBegin, TypeOK, channelVars, Ended
    <3>3. \A d \in Comments : Ended(d) => Ended(d)'
      BY <3>2 DEF Ended
    <3>4. \A s \in Subs : s \in subscribers[PostOf[c]] => chanState[s] # "none"
      BY DEF BrokerInv, RegisteredIffOpen
    <3>5. \A s \in Subs : ~ Sent(c, s)
      BY <3>2 DEF DeliveryInv, SentToTargets, TargetsWereMade, SentToItsPost,
               EarlierHaveEnded
    <3>6. \A d \in Comments : \A e \in before[d] : e \in Comments
      BY DEF TypeOK
    <3> QED BY <3>1, <3>2, <3>3, <3>4, <3>5, <3>6
            DEF DeliveryInv, SentToTargets, TargetsWereMade, SentToItsPost,
               EarlierHaveEnded
  <2>3. ASSUME NEW c \in Comments, NEW s \in Subs, PublishSend(c, s) PROVE DeliveryInv'
    <3>1. \A d \in Comments, r \in Subs : Sent(d, r)' <=> Sent(d, r) \/ (d = c /\ r = s)
      BY <2>3, SendIsSent
    <3>2. /\ \A d \in Comments : todo'[d] = IF d = c THEN todo[d] \ {s} ELSE todo[d]
          /\ UNCHANGED <<subscribers, chanState, publisher, targets, before>>
          /\ publisher[c] = "iterating" /\ s \in todo[c]
      BY <2>3 DEF PublishSend, TypeOK, historyVars
    <3>3. s \in targets[c] /\ s \notin todo'[c] /\ chanState[s] # "none"
      BY <3>2 DEF DeliveryInv, SentToTargets, TargetsWereMade, SentToItsPost,
               EarlierHaveEnded
    <3>4. \A p \in Posts : s \in subscribers[p] => PostOf[c] = p
      BY <3>2 DEF BrokerInv, VisitsRegistered, RegisteredIffOpen
    <3>5. \A d \in Comments : Ended(d) => Ended(d)'
      BY <3>2 DEF Ended
    <3>6. \A d \in Comments : \A e \in before[d] : e \in Comments
      BY DEF TypeOK
    <3>7. SentToTargets'
      BY <3>1, <3>2, <3>3 DEF DeliveryInv, SentToTargets
    <3>8. TargetsWereMade'
      BY <3>2 DEF DeliveryInv, TargetsWereMade
    <3>9. SentToItsPost'
      BY <3>1, <3>2, <3>4 DEF DeliveryInv, SentToItsPost
    <3>10. EarlierHaveEnded'
      BY <3>2, <3>5, <3>6 DEF DeliveryInv, EarlierHaveEnded
    <3> QED BY <3>7, <3>8, <3>9, <3>10 DEF DeliveryInv
  <2>4. ASSUME NEW s \in Subs, NEW p \in Posts, SubscribeToPostComments(s, p) PROVE DeliveryInv'
    <3>1. \A d \in Comments, r \in Subs : Sent(d, r)' <=> Sent(d, r)
      BY <2>4, OnlySendsSend DEF SubscribeToPostComments
    <3>2. /\ \A q \in Posts : subscribers'[q] = IF q = p THEN subscribers[q] \cup {s} ELSE subscribers[q]
          /\ \A r \in Subs : chanState'[r] = IF r = s THEN "open" ELSE chanState[r]
          /\ UNCHANGED <<publisher, todo, targets, before>> /\ chanState[s] = "none"
      BY <2>4 DEF SubscribeToPostComments, TypeOK, publisherVars, historyVars
    <3>3. \A c \in Comments : ~ Sent(c, s)
      BY <3>2 DEF DeliveryInv, SentToTargets, TargetsWereMade, SentToItsPost,
               EarlierHaveEnded
    <3>5. \A d \in Comments : Ended(d) => Ended(d)'
      BY <3>2 DEF Ended
    <3>6. \A d \in Comments : \A e \in before[d] : e \in Comments
      BY DEF TypeOK
    <3>7. SentToTargets'
      BY <3>1, <3>2 DEF DeliveryInv, SentToTargets
    <3>8. TargetsWereMade'
      BY <3>2 DEF DeliveryInv, TargetsWereMade
    <3>9. SentToItsPost'
      BY <3>1, <3>2, <3>3 DEF DeliveryInv, SentToItsPost
    <3>10. EarlierHaveEnded'
      BY <3>2, <3>5, <3>6 DEF DeliveryInv, EarlierHaveEnded
    <3> QED BY <3>7, <3>8, <3>9, <3>10 DEF DeliveryInv
  <2>5. ASSUME NEW s \in Subs, RunCloser(s) PROVE DeliveryInv'
    <3>1. \A d \in Comments, r \in Subs : Sent(d, r)' <=> Sent(d, r)
      BY <2>5, OnlySendsSend DEF RunCloser, readerVars
    <3>2. /\ \A q \in Posts : subscribers'[q] \subseteq subscribers[q]
          /\ \A r \in Subs : chanState[r] # "none" => chanState'[r] # "none"
          /\ UNCHANGED <<publisher, todo, targets, before>>
      BY <2>5 DEF RunCloser, TypeOK, publisherVars, historyVars
    <3> QED BY <2>1, <3>1, <3>2 DEF Ended
  <2>6. ASSUME NEW s \in Subs, Receive(s) PROVE DeliveryInv'
    <3>1. \A d \in Comments, r \in Subs : Sent(d, r)' => Sent(d, r) \/ PublishSend(d, r)
      BY SentGrows
    <3>2. \A d \in Comments, r \in Subs : ~ PublishSend(d, r)
      <4>1. received' # received
        <5>1. received'[s] = Append(received[s], Head(buffer[s])) /\ received[s] \in Seq(Comments)
              /\ Head(buffer[s]) \in Comments
          BY <2>6, HeadTailProperties DEF Receive, TypeOK
        <5>2. Len(received'[s]) = Len(received[s]) + 1 /\ Len(received[s]) \in Nat
          BY <5>1, AppendProperties
        <5> QED BY <5>2
      <4> QED BY <4>1 DEF PublishSend, readerVars
    <3>3. UNCHANGED <<subscribers, chanState, publisher, todo, targets, before>>
      BY <2>6 DEF Receive, publisherVars, historyVars
    <3> QED BY <2>1, <3>1, <3>2, <3>3 DEF Ended
  <2>7. ASSUME NEW c \in Comments, NEW s \in Subs, PublishSkip(c, s) PROVE DeliveryInv'
    <3>1. \A d \in Comments, r \in Subs : Sent(d, r)' <=> Sent(d, r)
      BY <2>7, OnlySendsSend DEF PublishSkip, channelVars, readerVars
    <3>2. /\ \A d \in Comments : todo'[d] \subseteq todo[d]
          /\ UNCHANGED <<subscribers, chanState, publisher, targets, before>>
      BY <2>7 DEF PublishSkip, TypeOK, channelVars, historyVars
    <3> QED BY <2>1, <3>1, <3>2 DEF Ended
  <2>8. ASSUME NEW c \in Comments,
               \/ PublishAbort(c) \/ PublishEndLoop(c) \/ PublishCallCloser(c)
               \/ PublishCloserReturns(c) \/ PublishReturn(c) \/ CancelPublish(c)
        PROVE  DeliveryInv'
    <3>1. \A d \in Comments, r \in Subs : Sent(d, r)' <=> Sent(d, r)
      BY <2>8, OnlySendsSend DEF PublishAbort, PublishEndLoop, PublishCallCloser,
         PublishCloserReturns, PublishReturn, CancelPublish, channelVars, readerVars
    <3>2. /\ \A d \in Comments : todo'[d] \subseteq todo[d]
          /\ UNCHANGED <<subscribers, chanState, targets, before>>
      BY <2>8 DEF PublishAbort, PublishEndLoop, PublishCallCloser, PublishCloserReturns,
         PublishReturn, CancelPublish, TypeOK, channelVars, publisherVars, historyVars
    <3>3. \A d \in Comments : /\ publisher[d] # "idle" => publisher'[d] # "idle"
                              /\ publisher'[d] = "idle" => publisher[d] = "idle"
                              /\ Ended(d) => Ended(d)'
      BY <2>8 DEF PublishAbort, PublishEndLoop, PublishCallCloser, PublishCloserReturns,
         PublishReturn, CancelPublish, TypeOK, publisherVars, Ended
    <3> QED BY <2>1, <3>1, <3>2, <3>3
  <2>9. ASSUME \/ \E s \in Subs : \/ CancelSubscription(s) \/ WatcherWakes(s) \/ WatcherEnds(s)
                                  \/ Unsubscribe(s) \/ UnsubscribeReturns(s)
               \/ ShutdownBegin \/ ShutdownStep
               \/ UNCHANGED vars
        PROVE  DeliveryInv'
    <3>1. UNCHANGED <<buffer, received, subscribers, chanState, publisher, todo, targets, before>>
      BY <2>9 DEF CancelSubscription, WatcherWakes, WatcherEnds, Unsubscribe, UnsubscribeReturns,
         ShutdownBegin, ShutdownStep, ShutdownCallCloser, ShutdownCloserReturns, ShutdownReturn,
         vars, channelVars, publisherVars, readerVars, historyVars
    <3>2. \A d \in Comments, r \in Subs : Sent(d, r)' <=> Sent(d, r)
      BY <3>1, OnlySendsSend
    <3> QED BY <2>1, <3>1, <3>2 DEF Ended
  <2> QED BY <2>2, <2>3, <2>4, <2>5, <2>6, <2>7, <2>8, <2>9 DEF Next, PublisherStep
<1> QED BY <1>1, <1>2

\* What an earlier publication was is settled before a comment is sent.
LEMMA EarlierIsSettled ==
  ASSUME TypeOK, [Next]_vars, NEW c \in Comments, publisher[c] # "idle"
  PROVE  before'[c] = before[c]
<1>1. ASSUME NEW d \in Comments, PublishBegin(d) PROVE before'[c] = before[c]
  BY <1>1 DEF PublishBegin, TypeOK
<1>2. ASSUME NEW d \in Comments, PublisherStep(d) \/ CancelPublish(d) PROVE before'[c] = before[c]
  BY <1>2 DEF PublisherStep, CancelPublish, PublishSend, PublishSkip, PublishAbort, PublishEndLoop,
     PublishCallCloser, PublishCloserReturns, PublishReturn, historyVars
<1>3. ASSUME NEW s \in Subs,
             \/ RunCloser(s) \/ CancelSubscription(s) \/ WatcherWakes(s) \/ WatcherEnds(s)
             \/ Receive(s) \/ Unsubscribe(s) \/ UnsubscribeReturns(s)
             \/ \E p \in Posts : SubscribeToPostComments(s, p)
      PROVE  before'[c] = before[c]
  BY <1>3 DEF RunCloser, CancelSubscription, WatcherWakes, WatcherEnds, Receive, Unsubscribe,
     UnsubscribeReturns, SubscribeToPostComments, historyVars
<1>4. ShutdownBegin \/ ShutdownStep \/ UNCHANGED vars => before'[c] = before[c]
  BY DEF ShutdownBegin, ShutdownStep, ShutdownCallCloser, ShutdownCloserReturns, ShutdownReturn,
     vars, historyVars
<1> QED BY <1>1, <1>2, <1>3, <1>4 DEF Next

\* Of two comments a subscription was sent, the later one is another one, and was
\* not published before the earlier one.
OrderInv ==
  \A s \in Subs : \A i, j \in 1..Len(Delivered(s)) :
    i < j => /\ Delivered(s)[i] # Delivered(s)[j]
             /\ Delivered(s)[j] \notin before[Delivered(s)[i]]

LEMMA OrderInductive ==
  /\ Init => OrderInv
  /\ TypeOK /\ DeliveryInv /\ OrderInv /\ [Next]_vars => OrderInv'
<1>1. ASSUME Init PROVE OrderInv
  <2>1. ASSUME NEW s \in Subs PROVE Len(Delivered(s)) = 0
    BY <1>1, EmptySeq, ConcatEmptySeq DEF Init, Delivered
  <2> QED BY <2>1 DEF OrderInv
<1>2. ASSUME TypeOK, DeliveryInv, OrderInv, [Next]_vars PROVE OrderInv'
  <2> USE <1>2
  <2> SUFFICES ASSUME NEW s \in Subs
               PROVE  (\A i, j \in 1..Len(Delivered(s)) :
                         i < j => /\ Delivered(s)[i] # Delivered(s)[j]
                                  /\ Delivered(s)[j] \notin before[Delivered(s)[i]])'
    BY DEF OrderInv
  <2> DEFINE old == Delivered(s)
             new == Delivered(s)'
  <2>1. /\ old \in Seq(Comments) /\ Len(old) \in Nat
        /\ \A i \in 1..Len(old) : old[i] \in Comments
    BY DeliveredIsTyped
  <2>2. \A i, j \in 1..Len(old) : i < j => old[i] # old[j] /\ old[j] \notin before[old[i]]
    BY DEF OrderInv
  <2>3. \A i \in 1..Len(old) : before'[old[i]] = before[old[i]]
    <3>1. ASSUME NEW i \in 1..Len(old) PROVE old[i] \in Comments /\ publisher[old[i]] # "idle"
      <4>1. Sent(old[i], s)
        BY DEF Sent
      <4> QED BY <2>1, <4>1 DEF DeliveryInv, SentToTargets
    <3> HIDE DEF old
    <3> QED BY <3>1, EarlierIsSettled
  <2>4. CASE new = old
    <3> HIDE DEF old
    <3> QED BY <2>2, <2>3, <2>4
  <2>5. ASSUME NEW c \in Comments, PublishSend(c, s), new = Append(old, c)
        PROVE  \A i, j \in 1..Len(new) : i < j => new[i] # new[j] /\ new[j] \notin before'[new[i]]
    <3>1. ~ Sent(c, s) /\ ~ Ended(c)
      BY <2>5 DEF PublishSend, DeliveryInv, SentToTargets, Ended
    <3>2. \A i \in 1..Len(old) : old[i] # c
      BY <3>1 DEF Sent
    <3>3. \A i \in 1..Len(old) : c \notin before[old[i]]
      BY <2>1, <3>1 DEF DeliveryInv, EarlierHaveEnded
    <3> HIDE DEF old
    <3>4. /\ Len(Append(old, c)) = Len(old) + 1
          /\ \A i \in 1..Len(old) : Append(old, c)[i] = old[i]
          /\ Append(old, c)[Len(old) + 1] = c
      BY <2>1, AppendProperties
    <3> HIDE DEF new
    <3>5. /\ Len(new) = Len(old) + 1
          /\ \A i \in 1..Len(old) : new[i] = old[i]
          /\ new[Len(old) + 1] = c
      BY <2>5, <3>4
    <3> HIDE <1>2
    <3>6. ASSUME NEW i \in 1..Len(new), NEW j \in 1..Len(new), i < j
          PROVE  new[i] # new[j] /\ new[j] \notin before'[new[i]]
      <4>1. i \in 1..Len(old) /\ (j \in 1..Len(old) \/ j = Len(old) + 1)
        BY <2>1, <3>5, <3>6
      <4>2. CASE j \in 1..Len(old)
        BY <2>2, <2>3, <3>5, <3>6, <4>1, <4>2
      <4>3. CASE j = Len(old) + 1
        BY <2>3, <3>2, <3>3, <3>5, <4>1, <4>3
      <4> QED BY <4>1, <4>2, <4>3
    <3> QED BY <3>6
  <2> QED BY <2>4, <2>5, DeliveredGrowsAtItsEnd
<1> QED BY <1>1, <1>2

LEMMA DeliveryAlways == Spec => [](TypeOK /\ BrokerInv /\ DeliveryInv /\ OrderInv)
BY TypeInductive, BrokerInductive, DeliveryInductive, OrderInductive, PTL DEF Spec

\* A subscriber is sent comments of its own post, each once, by publishers that
\* found it registered.
THEOREM DeliveryCorrect == Spec => []DeliveredOnceToItsPost
<1>1. ASSUME TypeOK, DeliveryInv, OrderInv PROVE DeliveredOnceToItsPost
  <2> SUFFICES ASSUME NEW s \in Subs
               PROVE  /\ \A i, j \in 1..Len(Delivered(s)) : Delivered(s)[i] = Delivered(s)[j] => i = j
                      /\ \A i \in 1..Len(Delivered(s)) : s \in targets[Delivered(s)[i]]
                      /\ \A i \in 1..Len(Delivered(s)), p \in Posts :
                           s \in subscribers[p] => PostOf[Delivered(s)[i]] = p
    BY DEF DeliveredOnceToItsPost
  <2>1. Delivered(s) \in Seq(Comments) /\ Len(Delivered(s)) \in Nat
    BY <1>1, DeliveredIsTyped
  <2>2. ASSUME NEW i \in 1..Len(Delivered(s)) PROVE Delivered(s)[i] \in Comments /\ Sent(Delivered(s)[i], s)
    BY <2>1 DEF Sent
  <2>3. ASSUME NEW i \in 1..Len(Delivered(s)), NEW j \in 1..Len(Delivered(s)),
               Delivered(s)[i] = Delivered(s)[j]
        PROVE  i = j
    <3>1. ~ (i < j) /\ ~ (j < i)
      BY <1>1, <2>3 DEF OrderInv
    <3> QED BY <2>1, <3>1
  <2> QED BY <1>1, <2>2, <2>3 DEF DeliveryInv, SentToTargets, SentToItsPost
<1> QED BY <1>1, DeliveryAlways, PTL

\* Nobody is sent a comment before another one whose publication had already ended
\* when the comment's began.
THEOREM OrderCorrect == Spec => []DeliveredInPublishOrder
<1>1. OrderInv => DeliveredInPublishOrder
  BY DEF OrderInv, DeliveredInPublishOrder
<1> QED BY <1>1, DeliveryAlways, PTL

(***************************************************************************)
(* Nobody misses a comment unawares.                                       *)
(***************************************************************************)

\* The closer of s is among those the publisher of c has collected.
Collected(c, s) == \E i \in 1..Len(slowClosers[c]) : slowClosers[c][i] = s

\* Whom a publication found is still to be visited, has been sent the comment, is
\* closed, or its closer is still to be called by the publisher.
MissInv ==
  \A c \in Comments :
    /\ publisher[c] \in {"iterating", "closing", "returned"} =>
         \A s \in targets[c] :
           s \in todo[c] \/ Collected(c, s) \/ chanState[s] = "closed" \/ Sent(c, s)
    /\ publisher[c] \in {"closing", "returned"} => todo[c] = {}
    /\ publisher[c] = "returned" => slowClosers[c] = <<>>

LEMMA MissInductive ==
  /\ Init => MissInv
  /\ TypeOK /\ BrokerInv /\ MissInv /\ [Next]_vars => MissInv'
<1>1. Init => MissInv
  BY DEF Init, MissInv
<1>2. ASSUME TypeOK, BrokerInv, MissInv, [Next]_vars PROVE MissInv'
  <2> USE <1>2
  <2>1. /\ \A c \in Comments : targets[c] \subseteq Subs /\ slowClosers[c] \in Seq(Subs)
        /\ \A c \in Comments, s \in Subs : Sent(c, s) => Sent(c, s)'
    BY SentGrows DEF TypeOK
  <2>2. ASSUME UNCHANGED <<publisher, todo, targets, slowClosers>>,
               \A s \in Subs : chanState[s] = "closed" => chanState'[s] = "closed"
        PROVE  MissInv'
    BY <2>1, <2>2 DEF MissInv, Collected
  <2>3. ASSUME NEW c \in Comments, PublishBegin(c) PROVE MissInv'
    <3>1. /\ \A d \in Comments : /\ publisher'[d] = IF d = c THEN "iterating" ELSE publisher[d]
                                 /\ d # c => todo'[d] = todo[d] /\ targets'[d] = targets[d]
          /\ todo'[c] = targets'[c] /\ UNCHANGED <<chanState, slowClosers>>
      BY <2>3 DEF PublishBegin, TypeOK, channelVars
    <3> QED BY <2>1, <3>1 DEF MissInv, Collected
  <2>4. ASSUME NEW c \in Comments, NEW s \in Subs, PublishSend(c, s) PROVE MissInv'
    <3>1. /\ \A d \in Comments : todo'[d] = IF d = c THEN todo[d] \ {s} ELSE todo[d]
          /\ UNCHANGED <<chanState, publisher, slowClosers, targets>> /\ publisher[c] = "iterating"
      BY <2>4 DEF PublishSend, TypeOK, historyVars
    <3>2. Sent(c, s)'
      BY <2>4, SendIsSent
    <3> QED BY <2>1, <3>1, <3>2 DEF MissInv, Collected
  <2>5. ASSUME NEW c \in Comments, NEW s \in Subs, PublishSkip(c, s) PROVE MissInv'
    <3>1. /\ \A d \in Comments : /\ todo'[d] = IF d = c THEN todo[d] \ {s} ELSE todo[d]
                                 /\ d # c => slowClosers'[d] = slowClosers[d]
          /\ slowClosers'[c] = Append(slowClosers[c], s)
          /\ UNCHANGED <<chanState, publisher, targets>> /\ publisher[c] = "iterating"
      BY <2>5 DEF PublishSkip, TypeOK, channelVars, historyVars
    <3>2. /\ Len(Append(slowClosers[c], s)) = Len(slowClosers[c]) + 1 /\ Len(slowClosers[c]) \in Nat
          /\ \A i \in 1..Len(slowClosers[c]) : Append(slowClosers[c], s)[i] = slowClosers[c][i]
          /\ Append(slowClosers[c], s)[Len(slowClosers[c]) + 1] = s
      BY <2>1, AppendProperties
    <3>3. \A r \in Subs : Collected(c, r) \/ r = s => Collected(c, r)'
      BY <3>1, <3>2 DEF Collected
    <3>4. \A d \in Comments, r \in Subs : d # c => (Collected(d, r) => Collected(d, r)')
      BY <3>1 DEF Collected
    <3> QED BY <2>1, <3>1, <3>3, <3>4 DEF MissInv
  <2>6. ASSUME NEW c \in Comments, PublishAbort(c) PROVE MissInv'
    <3>1. /\ \A d \in Comments : /\ publisher'[d] = IF d = c THEN "failed" ELSE publisher[d]
                                 /\ d # c => todo'[d] = todo[d] /\ slowClosers'[d] = slowClosers[d]
          /\ UNCHANGED <<chanState, targets>>
      BY <2>6 DEF PublishAbort, TypeOK, channelVars, historyVars
    <3> QED BY <2>1, <3>1 DEF MissInv, Collected
  <2>7. ASSUME NEW c \in Comments, PublishEndLoop(c) \/ PublishReturn(c) PROVE MissInv'
    <3>1. /\ \A d \in Comments : d # c => publisher'[d] = publisher[d]
          /\ publisher'[c] \in {"closing", "returned"} /\ publisher[c] \in {"iterating", "closing"}
          /\ publisher[c] = "iterating" => todo[c] = {}
          /\ publisher'[c] = "returned" => slowClosers[c] = <<>>
          /\ UNCHANGED <<chanState, targets, todo, slowClosers>>
      BY <2>7 DEF PublishEndLoop, PublishReturn, TypeOK, channelVars, historyVars
    <3> QED BY <2>1, <3>1 DEF MissInv, Collected
  <2>8. ASSUME NEW c \in Comments, PublishCloserReturns(c) PROVE MissInv'
    <3> DEFINE q == slowClosers[c]
    <3>1. /\ \A d \in Comments : d # c => slowClosers'[d] = slowClosers[d]
          /\ slowClosers'[c] = Tail(q) /\ q # <<>> /\ publisher[c] = "closing"
          /\ UNCHANGED <<chanState, targets, todo, publisher>>
      BY <2>8 DEF PublishCloserReturns, TypeOK, channelVars, historyVars
    <3>2. chanState[Head(q)] = "closed"
      <4>1. Head(q) \in Subs
        BY <2>1, <3>1, HeadTailProperties
      <4> QED BY <2>8, <4>1 DEF PublishCloserReturns, BrokerInv, OnceInv
    <3>3. /\ q \in Seq(Subs) /\ Len(q) \in Nat /\ Len(Tail(q)) = Len(q) - 1 /\ q[1] = Head(q)
          /\ \A i \in 1..Len(Tail(q)) : Tail(q)[i] = q[i + 1]
      BY <2>1, <3>1, HeadTailProperties
    <3>4. ASSUME NEW r \in Subs, Collected(c, r) PROVE Collected(c, r)' \/ r = Head(q)
      <4>1. PICK i \in 1..Len(q) : q[i] = r
        BY <3>4 DEF Collected
      <4> HIDE DEF q
      <4>2. CASE i = 1
        BY <3>3, <4>1, <4>2
      <4>3. CASE i # 1
        <5>1. i - 1 \in 1..Len(Tail(q)) /\ Tail(q)[i - 1] = q[(i - 1) + 1]
          BY <3>3, <4>3
        <5>2. Tail(q)[i - 1] = r
          BY <4>1, <5>1
        <5> QED BY <3>1, <5>1, <5>2 DEF Collected
      <4> QED BY <4>2, <4>3
    <3>5. \A d \in Comments, r \in Subs : d # c => (Collected(d, r) => Collected(d, r)')
      BY <3>1 DEF Collected
    <3> HIDE DEF q
    <3> QED BY <2>1, <3>1, <3>2, <3>4, <3>5 DEF MissInv
  <2>9. ASSUME NEW c \in Comments, PublishCallCloser(c) \/ CancelPublish(c) PROVE MissInv'
    BY <2>2, <2>9 DEF PublishCallCloser, CancelPublish, channelVars, publisherVars, historyVars
  <2>10. ASSUME NEW s \in Subs, NEW p \in Posts, SubscribeToPostComments(s, p) PROVE MissInv'
    BY <2>2, <2>10 DEF SubscribeToPostComments, TypeOK, publisherVars, historyVars
  <2>11. ASSUME NEW s \in Subs, RunCloser(s) PROVE MissInv'
    BY <2>2, <2>11 DEF RunCloser, TypeOK, publisherVars, historyVars
  <2>12. ASSUME \/ \E s \in Subs : \/ CancelSubscription(s) \/ WatcherWakes(s) \/ WatcherEnds(s)
                                   \/ Receive(s) \/ Unsubscribe(s) \/ UnsubscribeReturns(s)
                \/ ShutdownBegin \/ ShutdownStep
                \/ UNCHANGED vars
         PROVE  MissInv'
    BY <2>2, <2>12 DEF CancelSubscription, WatcherWakes, WatcherEnds, Receive, Unsubscribe,
       UnsubscribeReturns, ShutdownBegin, ShutdownStep, ShutdownCallCloser, ShutdownCloserReturns,
       ShutdownReturn, vars, channelVars, publisherVars, historyVars
  <2> QED BY <2>3, <2>4, <2>5, <2>6, <2>7, <2>8, <2>9, <2>10, <2>11, <2>12 DEF Next, PublisherStep
<1> QED BY <1>1, <1>2

\* When a publication has returned without an error, everybody it found has been
\* sent the comment or is closed.
THEOREM MissesAreVisible == Spec => []SlowSubscribersAreClosed
<1>1. ASSUME TypeOK, MissInv PROVE SlowSubscribersAreClosed
  <2> SUFFICES ASSUME NEW c \in Comments, publisher[c] = "returned", NEW s \in targets[c]
               PROVE  chanState[s] = "closed" \/ c \in ToSet(Delivered(s))
    BY DEF SlowSubscribersAreClosed
  <2>1. s \in Subs
    BY <1>1 DEF TypeOK
  <2>2. ~ Collected(c, s) /\ s \notin todo[c]
    BY <1>1, EmptySeq DEF MissInv, Collected
  <2>3. chanState[s] = "closed" \/ Sent(c, s)
    BY <1>1, <2>2 DEF MissInv
  <2>4. Sent(c, s) => c \in ToSet(Delivered(s))
    <3>1. Delivered(s) \in Seq(Comments)
      BY <1>1, <2>1, DeliveredIsTyped
    <3> QED BY <3>1 DEF Sent, ToSet
  <2> QED BY <2>3, <2>4
<1>2. Spec => [](TypeOK /\ BrokerInv /\ MissInv)
  BY TypeInductive, BrokerInductive, MissInductive, PTL DEF Spec
<1> QED BY <1>1, <1>2, PTL

(***************************************************************************)
(* The broker implements what the ports promise (EventContract).           *)
(***************************************************************************)

\* Whose closer a publication has collected, it found, came to, and sent nothing.
CollectedInv ==
  \A c \in Comments, s \in Subs :
    Collected(c, s) => /\ publisher[c] \in {"iterating", "closing"}
                       /\ s \in targets[c] /\ s \notin todo[c] /\ ~ Sent(c, s)

\* The publication of c has called the closer of s, and waits for it.
CalledBy(c, s) == publisher[c] = "closing" /\ slowClosers[c] # <<>> /\ Head(slowClosers[c]) = s

\* A closer runs for somebody who has called it; Shutdown calls those of whom it found.
CallerInv ==
  /\ \A s \in Subs : once[s] = "running" =>
       s \in Left \/ s \in shutting \/ \E c \in Comments : CalledBy(c, s)
  /\ toShut \cup shutting \subseteq shutTargets
  /\ toShut \cup shutting # {} => shutdown = "closing"
  /\ \A s \in Subs : chanState[s] = "none" => reader[s] = "none"

LEMMA CollectedInductive ==
  /\ Init => CollectedInv
  /\ TypeOK /\ BrokerInv /\ DeliveryInv /\ CollectedInv /\ [Next]_vars => CollectedInv'
<1>1. Init => CollectedInv
  BY EmptySeq DEF Init, CollectedInv, Collected
<1>2. ASSUME TypeOK, BrokerInv, DeliveryInv, CollectedInv, [Next]_vars PROVE CollectedInv'
  <2> USE <1>2
  <2>1. \A c \in Comments : slowClosers[c] \in Seq(Subs)
    BY DEF TypeOK
  <2>2. \A c \in Comments, s \in Subs : Sent(c, s)' => Sent(c, s) \/ PublishSend(c, s)
    BY SentGrows
  <2>3. ASSUME UNCHANGED <<publisher, targets, todo, slowClosers>> PROVE CollectedInv'
    <3>1. \A c \in Comments, s \in Subs : PublishSend(c, s) => ~ Collected(c, s)
      BY DEF CollectedInv, PublishSend
    <3> QED BY <2>2, <2>3, <3>1 DEF CollectedInv, Collected
  <2>4. ASSUME NEW c \in Comments, PublishBegin(c) PROVE CollectedInv'
    <3>1. /\ \A d \in Comments : d # c => /\ publisher'[d] = publisher[d] /\ todo'[d] = todo[d]
                                          /\ targets'[d] = targets[d]
          /\ UNCHANGED slowClosers /\ publisher[c] = "idle"
      BY <2>4 DEF PublishBegin, TypeOK
    <3>2. \A s \in Subs : ~ Collected(c, s)
      BY <3>1 DEF CollectedInv
    <3>3. \A d \in Comments, s \in Subs : ~ PublishSend(d, s)
      BY <2>4 DEF PublishBegin, PublishSend, channelVars, historyVars, TypeOK
    <3> QED BY <2>2, <3>1, <3>2, <3>3 DEF CollectedInv, Collected
  <2>5. ASSUME NEW c \in Comments, NEW s \in Subs, PublishSend(c, s) PROVE CollectedInv'
    <3>1. \A d \in Comments, r \in Subs : Sent(d, r)' <=> Sent(d, r) \/ (d = c /\ r = s)
      BY <2>5, SendIsSent
    <3>2. /\ \A d \in Comments : todo'[d] \subseteq todo[d]
          /\ UNCHANGED <<publisher, targets, slowClosers>> /\ s \in todo[c]
      BY <2>5 DEF PublishSend, TypeOK, historyVars
    <3> QED BY <3>1, <3>2 DEF CollectedInv, Collected
  <2>6. ASSUME NEW c \in Comments, NEW s \in Subs, PublishSkip(c, s) PROVE CollectedInv'
    <3>1. \A d \in Comments, r \in Subs : Sent(d, r)' <=> Sent(d, r)
      BY <2>6, OnlySendsSend DEF PublishSkip, channelVars, readerVars
    <3>2. /\ \A d \in Comments : /\ todo'[d] = IF d = c THEN todo[d] \ {s} ELSE todo[d]
                                 /\ d # c => slowClosers'[d] = slowClosers[d]
          /\ slowClosers'[c] = Append(slowClosers[c], s)
          /\ UNCHANGED <<publisher, targets>> /\ publisher[c] = "iterating" /\ s \in todo[c]
      BY <2>6 DEF PublishSkip, TypeOK, historyVars
    <3>3. \A i \in 1..Len(Append(slowClosers[c], s)) :
            \/ Append(slowClosers[c], s)[i] = s
            \/ i \in 1..Len(slowClosers[c]) /\ Append(slowClosers[c], s)[i] = slowClosers[c][i]
      <4>1. /\ Len(Append(slowClosers[c], s)) = Len(slowClosers[c]) + 1 /\ Len(slowClosers[c]) \in Nat
            /\ \A i \in 1..Len(slowClosers[c]) : Append(slowClosers[c], s)[i] = slowClosers[c][i]
            /\ Append(slowClosers[c], s)[Len(slowClosers[c]) + 1] = s
        BY <2>1, AppendProperties
      <4>2. \A i \in 1..Len(slowClosers[c]) + 1 : i \in 1..Len(slowClosers[c]) \/ i = Len(slowClosers[c]) + 1
        BY <4>1
      <4> QED BY <4>1, <4>2
    <3>4. \A r \in Subs : Collected(c, r)' => Collected(c, r) \/ r = s
      BY <3>2, <3>3 DEF Collected
    <3>5. \A d \in Comments, r \in Subs : d # c => (Collected(d, r)' => Collected(d, r))
      BY <3>2 DEF Collected
    <3>6. s \in targets[c] /\ ~ Sent(c, s)
      BY <3>2 DEF DeliveryInv, SentToTargets, TargetsWereMade
    <3> QED BY <3>1, <3>2, <3>4, <3>5, <3>6 DEF CollectedInv
  <2>7. ASSUME NEW c \in Comments, PublishAbort(c) PROVE CollectedInv'
    <3>1. \A d \in Comments, r \in Subs : Sent(d, r)' <=> Sent(d, r)
      BY <2>7, OnlySendsSend DEF PublishAbort, channelVars, readerVars
    <3>2. /\ \A d \in Comments : d # c => /\ publisher'[d] = publisher[d] /\ todo'[d] = todo[d]
                                          /\ slowClosers'[d] = slowClosers[d]
          /\ slowClosers'[c] = <<>> /\ UNCHANGED targets
      BY <2>7 DEF PublishAbort, TypeOK, historyVars
    <3>3. \A r \in Subs : ~ Collected(c, r)'
      BY <3>2, EmptySeq DEF Collected
    <3>4. \A d \in Comments, r \in Subs : d # c => (Collected(d, r)' => Collected(d, r))
      BY <3>2 DEF Collected
    <3> QED BY <3>1, <3>2, <3>3, <3>4 DEF CollectedInv
  <2>8. ASSUME NEW c \in Comments, PublishEndLoop(c) \/ PublishReturn(c) PROVE CollectedInv'
    <3>1. \A d \in Comments, r \in Subs : Sent(d, r)' <=> Sent(d, r)
      BY <2>8, OnlySendsSend DEF PublishEndLoop, PublishReturn, channelVars, readerVars
    <3>2. /\ \A d \in Comments : d # c => publisher'[d] = publisher[d]
          /\ publisher'[c] = "closing" \/ slowClosers[c] = <<>>
          /\ UNCHANGED <<targets, todo, slowClosers>>
      BY <2>8 DEF PublishEndLoop, PublishReturn, TypeOK, historyVars
    <3>3. slowClosers[c] = <<>> => \A r \in Subs : ~ Collected(c, r)
      BY EmptySeq DEF Collected
    <3> QED BY <3>1, <3>2, <3>3 DEF CollectedInv, Collected
  <2>9. ASSUME NEW c \in Comments, PublishCloserReturns(c) PROVE CollectedInv'
    <3> DEFINE q == slowClosers[c]
    <3>1. \A d \in Comments, r \in Subs : Sent(d, r)' <=> Sent(d, r)
      BY <2>9, OnlySendsSend DEF PublishCloserReturns, channelVars, readerVars
    <3>2. /\ \A d \in Comments : d # c => slowClosers'[d] = slowClosers[d]
          /\ slowClosers'[c] = Tail(q) /\ q # <<>>
          /\ UNCHANGED <<targets, todo, publisher>>
      BY <2>9 DEF PublishCloserReturns, TypeOK, historyVars
    <3>3. /\ q \in Seq(Subs) /\ Len(q) \in Nat /\ Len(Tail(q)) = Len(q) - 1
          /\ \A i \in 1..Len(Tail(q)) : Tail(q)[i] = q[i + 1]
      BY <2>1, <3>2, HeadTailProperties
    <3>4. \A r \in Subs : Collected(c, r)' => Collected(c, r)
      <4> SUFFICES ASSUME NEW i \in 1..Len(Tail(q))
                   PROVE  \E j \in 1..Len(q) : q[j] = Tail(q)[i]
        BY <3>2 DEF Collected
      <4> HIDE DEF q
      <4>1. i + 1 \in 1..Len(q)
        BY <3>3
      <4> QED BY <3>3, <4>1
    <3>5. \A d \in Comments, r \in Subs : d # c => (Collected(d, r)' => Collected(d, r))
      BY <3>2 DEF Collected
    <3> HIDE DEF q
    <3> QED BY <3>1, <3>2, <3>4, <3>5 DEF CollectedInv
  <2>10. ASSUME NEW c \in Comments, PublishCallCloser(c) \/ CancelPublish(c) PROVE CollectedInv'
    BY <2>3, <2>10 DEF PublishCallCloser, CancelPublish, publisherVars, historyVars
  <2>11. ASSUME \/ \E s \in Subs : \/ RunCloser(s) \/ CancelSubscription(s) \/ WatcherWakes(s)
                                   \/ WatcherEnds(s) \/ Receive(s) \/ Unsubscribe(s)
                                   \/ UnsubscribeReturns(s)
                                   \/ \E p \in Posts : SubscribeToPostComments(s, p)
                \/ ShutdownBegin \/ ShutdownStep
                \/ UNCHANGED vars
         PROVE  CollectedInv'
    BY <2>3, <2>11 DEF RunCloser, CancelSubscription, WatcherWakes, WatcherEnds, Receive, Unsubscribe,
       UnsubscribeReturns, SubscribeToPostComments, ShutdownBegin, ShutdownStep, ShutdownCallCloser,
       ShutdownCloserReturns, ShutdownReturn, vars, publisherVars, historyVars
  <2> QED BY <2>4, <2>5, <2>6, <2>7, <2>8, <2>9, <2>10, <2>11 DEF Next, PublisherStep
<1> QED BY <1>1, <1>2

LEMMA CallerInductive ==
  /\ Init => CallerInv
  /\ TypeOK /\ BrokerInv /\ CallerInv /\ [Next]_vars => CallerInv'
<1>1. Init => CallerInv
  BY DEF Init, CallerInv
<1>2. ASSUME TypeOK, BrokerInv, CallerInv, [Next]_vars PROVE CallerInv'
  <2> USE <1>2
  <2>1. ASSUME \A s \in Subs : once'[s] = "running" => once[s] = "running",
               \A s \in Subs : once[s] = "running" /\ s \in Left => s \in Left',
               \A c \in Comments, s \in Subs : once[s] = "running" /\ CalledBy(c, s) => CalledBy(c, s)',
               \A s \in Subs : chanState'[s] = "none" => chanState[s] = "none" /\ reader'[s] = reader[s],
               UNCHANGED <<toShut, shutting, shutTargets, shutdown>>
        PROVE  CallerInv'
    BY <2>1 DEF CallerInv
  <2>2. ASSUME NEW c \in Comments,
               \/ PublishBegin(c) \/ PublishAbort(c) \/ PublishEndLoop(c)
               \/ PublishReturn(c) \/ CancelPublish(c) \/ PublishCloserReturns(c)
               \/ \E s \in Subs : PublishSend(c, s) \/ PublishSkip(c, s)
        PROVE  CallerInv'
    <3>1. UNCHANGED <<once, chanState, subCtxDone, reader, toShut, shutting, shutTargets, shutdown>>
      BY <2>2 DEF PublishBegin, PublishAbort, PublishEndLoop, PublishReturn, CancelPublish,
         PublishCloserReturns, PublishSend, PublishSkip, channelVars, readerVars, shutdownVars, historyVars
    <3>2. ASSUME NEW d \in Comments, NEW r \in Subs, once[r] = "running", CalledBy(d, r)
          PROVE  CalledBy(d, r)'
      <4>1. d # c => publisher'[d] = publisher[d] /\ slowClosers'[d] = slowClosers[d]
        BY <2>2 DEF PublishBegin, PublishAbort, PublishEndLoop, PublishReturn, CancelPublish,
           PublishCloserReturns, PublishSend, PublishSkip, TypeOK
      <4>2. d # c
        BY <2>2, <3>2 DEF CalledBy, PublishBegin, PublishAbort, PublishEndLoop, PublishReturn,
           CancelPublish, PublishCloserReturns, PublishSend, PublishSkip
      <4> QED BY <3>2, <4>1, <4>2 DEF CalledBy
    <3> QED BY <2>1, <3>1, <3>2 DEF Left
  <2>3. ASSUME NEW c \in Comments, PublishCallCloser(c) PROVE CallerInv'
    <3> DEFINE s == Head(slowClosers[c])
    <3>1. CalledBy(c, s) /\ UNCHANGED <<publisher, slowClosers>>
      BY <2>3 DEF PublishCallCloser, CalledBy, publisherVars
    <3>2. CalledBy(c, s)'
      BY <3>1 DEF CalledBy
    <3> HIDE DEF s
    <3>3. \A r \in Subs : once'[r] = "running" => once[r] = "running" \/ r = s
      BY <2>3 DEF PublishCallCloser, CallCloser, TypeOK, s
    <3>4. UNCHANGED <<chanState, subCtxDone, reader, toShut, shutting, shutTargets, shutdown>>
      BY <2>3 DEF PublishCallCloser, readerVars, shutdownVars, historyVars
    <3> QED BY <3>1, <3>2, <3>3, <3>4 DEF CallerInv, CalledBy, Left
  <2>4. ASSUME NEW s \in Subs, NEW p \in Posts, SubscribeToPostComments(s, p) PROVE CallerInv'
    <3>1. /\ \A r \in Subs : r # s => /\ chanState'[r] = chanState[r] /\ reader'[r] = reader[r]
          /\ chanState'[s] = "open" /\ chanState[s] = "none"
          /\ UNCHANGED <<once, publisher, slowClosers, subCtxDone, toShut, shutting, shutTargets, shutdown>>
      BY <2>4 DEF SubscribeToPostComments, TypeOK, publisherVars, shutdownVars, historyVars
    <3>2. once[s] # "running"
      BY <3>1 DEF BrokerInv, OnceInv
    <3> QED BY <2>1, <3>1, <3>2 DEF Left, CalledBy
  <2>5. ASSUME NEW s \in Subs, RunCloser(s) PROVE CallerInv'
    <3>1. /\ \A r \in Subs : /\ chanState'[r] = "none" => chanState[r] = "none"
                             /\ once'[r] = "running" => once[r] = "running"
          /\ UNCHANGED <<publisher, slowClosers, subCtxDone, reader, toShut, shutting, shutTargets, shutdown>>
      BY <2>5 DEF RunCloser, TypeOK, publisherVars, readerVars, shutdownVars, historyVars
    <3> QED BY <2>1, <3>1 DEF Left, CalledBy
  <2>6. ASSUME NEW s \in Subs, WatcherWakes(s) \/ Unsubscribe(s) PROVE CallerInv'
    <3>1. /\ \A r \in Subs : once'[r] = "running" => once[r] = "running" \/ r = s
          /\ \A r \in Subs : r \in Left => r \in Left'
          /\ s \in Left'
          /\ \A r \in Subs : r # s => reader'[r] = reader[r]
      BY <2>6 DEF WatcherWakes, Unsubscribe, CallCloser, TypeOK, Left
    <3>2. UNCHANGED <<chanState, publisher, slowClosers, toShut, shutting, shutTargets, shutdown>>
      BY <2>6 DEF WatcherWakes, Unsubscribe, publisherVars, shutdownVars, historyVars
    <3>3. chanState[s] # "none"
      BY <2>6 DEF WatcherWakes, Unsubscribe, BrokerInv, OnceInv
    <3> QED BY <3>1, <3>2, <3>3 DEF CallerInv, CalledBy
  <2>7. ASSUME NEW s \in Subs,
               CancelSubscription(s) \/ WatcherEnds(s) \/ Receive(s) \/ UnsubscribeReturns(s)
        PROVE  CallerInv'
    <3>1. UNCHANGED <<once, chanState, publisher, slowClosers, toShut, shutting, shutTargets, shutdown>>
      BY <2>7 DEF CancelSubscription, WatcherEnds, Receive, UnsubscribeReturns, channelVars,
         publisherVars, shutdownVars, historyVars
    <3>2. \A r \in Subs : /\ r \in Left => r \in Left'
                          /\ reader[r] = "none" => reader'[r] = "none"
      BY <2>7 DEF CancelSubscription, WatcherEnds, Receive, UnsubscribeReturns, Left, TypeOK
    <3> QED BY <3>1, <3>2 DEF CallerInv, CalledBy
  <2>8. ASSUME ShutdownBegin PROVE CallerInv'
    <3>1. /\ toShut' = shutTargets' /\ shutdown' = "closing" /\ shutdown = "idle"
          /\ UNCHANGED <<once, chanState, publisher, slowClosers, subCtxDone, reader, shutting>>
      BY <2>8 DEF ShutdownBegin, channelVars, publisherVars, readerVars
    <3>2. shutting = {}
      BY <3>1 DEF CallerInv
    <3> QED BY <3>1, <3>2 DEF CallerInv, CalledBy, Left
  <2>9. ASSUME NEW s \in Subs, ShutdownCallCloser(s) PROVE CallerInv'
    <3>1. /\ \A r \in Subs : once'[r] = "running" => once[r] = "running" \/ r = s
          /\ shutdown = "closing" /\ s \in toShut /\ shutting = {} /\ shutting' = {s} /\ toShut' = toShut \ {s}
          /\ UNCHANGED <<chanState, publisher, slowClosers, subCtxDone, reader, shutTargets, shutdown>>
      BY <2>9 DEF ShutdownCallCloser, CallCloser, TypeOK, publisherVars, readerVars, historyVars
    <3> QED BY <3>1 DEF CallerInv, CalledBy, Left
  <2>10. ASSUME NEW s \in Subs, ShutdownCloserReturns(s) PROVE CallerInv'
    <3>1. /\ s \in shutting /\ once[s] = "done" /\ shutting' = {}
          /\ UNCHANGED <<once, chanState, publisher, slowClosers, subCtxDone, reader, toShut,
                         shutTargets, shutdown>>
      BY <2>10 DEF ShutdownCloserReturns, channelVars, publisherVars, readerVars, historyVars
    <3>2. \A r \in Subs : r \in shutting => r = s
      BY <3>1 DEF BrokerInv, ShutdownInv
    <3> QED BY <3>1, <3>2 DEF CallerInv, CalledBy, Left
  <2>11. ASSUME ShutdownReturn PROVE CallerInv'
    BY <2>11 DEF ShutdownReturn, channelVars, publisherVars, readerVars, historyVars, CallerInv,
       CalledBy, Left
  <2>12. ASSUME UNCHANGED vars PROVE CallerInv'
    BY <2>12 DEF vars, channelVars, publisherVars, readerVars, shutdownVars, historyVars, CallerInv,
       CalledBy, Left
  <2> QED BY <2>2, <2>3, <2>4, <2>5, <2>6, <2>7, <2>8, <2>9, <2>10, <2>11, <2>12
          DEF Next, PublisherStep, ShutdownStep
<1> QED BY <1>1, <1>2

\* All that is known of a state of the broker.
ReachedInv == TypeOK /\ BrokerInv /\ DeliveryInv /\ MissInv /\ CollectedInv /\ CallerInv

LEMMA ReachedAlways == Spec => []ReachedInv
BY TypeInductive, BrokerInductive, DeliveryInductive, MissInductive, CollectedInductive,
   CallerInductive, PTL DEF Spec, ReachedInv

\* What a step leaves alone in the contract when it leaves it alone in the broker.
LEMMA StreamsStay ==
  ASSUME UNCHANGED <<buffer, received>> PROVE UNCHANGED <<Streams, Reads>>
BY DEF Streams, Reads, Delivered

LEMMA PassedStays ==
  ASSUME UNCHANGED <<buffer, received, publisher, targets, todo>> PROVE Passed' = Passed
BY DEF Passed, Sent, Delivered

LEMMA OthersStay ==
  /\ UNCHANGED chanState => Closed' = Closed
  /\ UNCHANGED publishCtxDone => Cancelled' = Cancelled
  /\ UNCHANGED <<subCtxDone, reader>> => Left' = Left
BY DEF Closed, Cancelled, Left

\* A publication that iterates has still to come to whom it has found, not passed over
\* and not sent the comment.
LEMMA ToDoIsOffered ==
  ASSUME ReachedInv, NEW c \in Comments, NEW s \in Subs
  PROVE  /\ Contract!Holds(s, c) <=> Sent(c, s)
         /\ Contract!Offered(c, s) <=> publisher[c] = "iterating" /\ s \in todo[c]
<1>1. Contract!Holds(s, c) <=> Sent(c, s)
  BY DEF Contract!Holds, Streams, Sent
<1>2. s \in Passed[c] <=> publisher[c] # "failed" /\ s \in targets[c] /\ s \notin todo[c] /\ ~ Sent(c, s)
  BY DEF Passed
<1>3. s \in todo[c] => s \in targets[c] /\ ~ Sent(c, s)
  BY DEF ReachedInv, DeliveryInv, SentToTargets, TargetsWereMade
<1> QED BY <1>1, <1>2, <1>3 DEF Contract!Offered

\* What is in the channel is what the stream is ahead of its reader.
LEMMA StreamIsAhead ==
  ASSUME TypeOK, NEW s \in Subs
  PROVE  /\ Len(Streams[s]) - Reads[s] = Len(buffer[s])
         /\ Reads[s] \in Nat /\ Len(Streams[s]) \in Nat /\ Len(buffer[s]) \in Nat
<1>1. received[s] \in Seq(Comments) /\ buffer[s] \in Seq(Comments)
  BY DEF TypeOK
<1>2. /\ Len(received[s] \o buffer[s]) = Len(received[s]) + Len(buffer[s])
      /\ Len(received[s]) \in Nat /\ Len(buffer[s]) \in Nat
  BY <1>1, ConcatProperties
<1>3. Streams[s] = received[s] \o buffer[s] /\ Reads[s] = Len(received[s])
  BY DEF Streams, Reads, Delivered
<1>4. Len(Streams[s]) = Reads[s] + Len(buffer[s]) /\ Reads[s] \in Nat /\ Len(buffer[s]) \in Nat
  BY <1>2, <1>3
<1> QED BY <1>4

(***************************************************************************)
(* Step by step: publishers.                                               *)
(***************************************************************************)
LEMMA PublishBeginIsBegin ==
  ASSUME ReachedInv, NEW c \in Comments, PublishBegin(c)
  PROVE  Contract!Begin(c)
<1>1. /\ publisher[c] = "idle"
      /\ publisher' = [publisher EXCEPT ![c] = "iterating"]
      /\ targets' = [targets EXCEPT ![c] = subscribers[PostOf[c]]]
      /\ todo' = [todo EXCEPT ![c] = subscribers[PostOf[c]]]
      /\ UNCHANGED <<subscribers, chanState, buffer, publishCtxDone, subCtxDone, reader, received,
                     shutdown, shutTargets>>
  BY DEF PublishBegin, channelVars, readerVars, shutdownVars
<1>2. UNCHANGED <<Streams, Reads, Closed, Cancelled, Left>>
  BY <1>1, StreamsStay, OthersStay
<1>3. Passed' = Passed
  <2>1. \A d \in Comments, s \in Subs : Sent(d, s)' <=> Sent(d, s)
    BY <1>1, OnlySendsSend
  <2>2. targets[c] = {} /\ targets \in [Comments -> SUBSET Subs]
    BY <1>1 DEF ReachedInv, TypeOK, DeliveryInv, TargetsWereMade
  <2>3. ASSUME NEW d \in Comments PROVE Passed'[d] = Passed[d]
    <3>1. CASE d = c
      BY <1>1, <2>2, <3>1 DEF Passed, ReachedInv, TypeOK
    <3>2. CASE d # c
      BY <1>1, <2>1, <2>2, <3>2 DEF Passed, ReachedInv, TypeOK
    <3> QED BY <3>1, <3>2
  <2> QED BY <2>3 DEF Passed
<1> QED BY <1>1, <1>2, <1>3 DEF Contract!Begin, Contract!subscriptionVars, Contract!shutdownVars

LEMMA PublishSendIsSend ==
  ASSUME ReachedInv, NEW c \in Comments, NEW s \in Subs, PublishSend(c, s)
  PROVE  Contract!Send(c, s)
<1>1. /\ publisher[c] = "iterating" /\ s \in todo[c] /\ Len(buffer[s]) < BufferSize
      /\ todo' = [todo EXCEPT ![c] = @ \ {s}]
      /\ UNCHANGED <<subscribers, chanState, publisher, publishCtxDone, subCtxDone, reader, received,
                     shutdown, targets, shutTargets>>
  BY DEF PublishSend, readerVars, shutdownVars, historyVars
<1>2. UNCHANGED <<Closed, Cancelled, Left>>
  BY <1>1, OthersStay
<1>3. Reads' = Reads
  BY <1>1 DEF Reads
<1>4. Contract!Offered(c, s) /\ s \in subscribers[PostOf[c]]
  BY <1>1, ToDoIsOffered DEF ReachedInv, BrokerInv, VisitsRegistered
<1>5. Len(Streams[s]) - Reads[s] < BufferSize
  BY <1>1, StreamIsAhead DEF ReachedInv
<1>6. Streams' = [Streams EXCEPT ![s] = Append(@, c)]
  <2>1. Delivered(s)' = Append(Delivered(s), c)
    BY SendAppends DEF ReachedInv
  <2>2. \A r \in Subs : r # s => Delivered(r)' = Delivered(r)
    BY DEF PublishSend, Delivered, ReachedInv, TypeOK, readerVars
  <2> QED BY <2>1, <2>2 DEF Streams
<1>7. Passed' = Passed
  <2>1. \A d \in Comments, r \in Subs : Sent(d, r)' <=> Sent(d, r) \/ (d = c /\ r = s)
    BY SendIsSent DEF ReachedInv
  <2>2. targets \in [Comments -> SUBSET Subs] /\ todo \in [Comments -> SUBSET Subs]
    BY DEF ReachedInv, TypeOK
  <2>3. ASSUME NEW d \in Comments PROVE Passed'[d] = Passed[d]
    <3>1. {r \in targets'[d] \ todo'[d] : ~ Sent(d, r)'} = {r \in targets[d] \ todo[d] : ~ Sent(d, r)}
      BY <1>1, <2>1, <2>2
    <3> QED BY <1>1, <3>1 DEF Passed
  <2> QED BY <2>3 DEF Passed
<1> QED BY <1>1, <1>2, <1>3, <1>4, <1>5, <1>6, <1>7
        DEF Contract!Send, Contract!publicationVars, Contract!shutdownVars

LEMMA PublishSkipIsPass ==
  ASSUME ReachedInv, NEW c \in Comments, NEW s \in Subs, PublishSkip(c, s)
  PROVE  Contract!Pass(c, s)
<1>1. /\ publisher[c] = "iterating" /\ s \in todo[c] /\ Len(buffer[s]) = BufferSize
      /\ todo' = [todo EXCEPT ![c] = @ \ {s}]
      /\ UNCHANGED <<subscribers, chanState, buffer, publisher, publishCtxDone, subCtxDone, reader,
                     received, shutdown, targets, shutTargets>>
  BY DEF PublishSkip, channelVars, readerVars, shutdownVars, historyVars
<1>2. UNCHANGED <<Streams, Reads, Closed, Cancelled, Left>>
  BY <1>1, StreamsStay, OthersStay
<1>3. Contract!Offered(c, s)
  BY <1>1, ToDoIsOffered
<1>4. Len(Streams[s]) - Reads[s] = BufferSize
  BY <1>1, StreamIsAhead DEF ReachedInv
<1>5. Passed' = [Passed EXCEPT ![c] = @ \cup {s}]
  <2>1. \A d \in Comments, r \in Subs : Sent(d, r)' <=> Sent(d, r)
    BY <1>1, OnlySendsSend
  <2>2. targets \in [Comments -> SUBSET Subs] /\ todo \in [Comments -> SUBSET Subs]
    BY DEF ReachedInv, TypeOK
  <2>3. s \in targets[c] /\ ~ Sent(c, s)
    BY <1>1 DEF ReachedInv, DeliveryInv, SentToTargets, TargetsWereMade
  <2>4. Passed'[c] = Passed[c] \cup {s}
    <3>1. {r \in targets'[c] \ todo'[c] : ~ Sent(c, r)'} = {r \in targets[c] \ todo[c] : ~ Sent(c, r)} \cup {s}
      BY <1>1, <2>1, <2>2, <2>3
    <3> QED BY <1>1, <3>1 DEF Passed
  <2>5. ASSUME NEW d \in Comments, d # c PROVE Passed'[d] = Passed[d]
    <3>1. {r \in targets'[d] \ todo'[d] : ~ Sent(d, r)'} = {r \in targets[d] \ todo[d] : ~ Sent(d, r)}
      BY <1>1, <2>1, <2>2, <2>5
    <3> QED BY <1>1, <3>1 DEF Passed
  <2> QED BY <2>4, <2>5 DEF Passed
<1> QED BY <1>1, <1>2, <1>3, <1>4, <1>5
        DEF Contract!Pass, Contract!subscriptionVars, Contract!shutdownVars

LEMMA PublishAbortIsFail ==
  ASSUME ReachedInv, NEW c \in Comments, PublishAbort(c)
  PROVE  Contract!Fail(c)
<1>1. /\ publisher[c] = "iterating" /\ publishCtxDone[c]
      /\ publisher' = [publisher EXCEPT ![c] = "failed"]
      /\ todo' = [todo EXCEPT ![c] = {}]
      /\ UNCHANGED <<subscribers, chanState, buffer, publishCtxDone, subCtxDone, reader,
                     received, shutdown, targets, shutTargets>>
  BY DEF PublishAbort, channelVars, readerVars, shutdownVars, historyVars
<1>2. UNCHANGED <<Streams, Reads, Closed, Cancelled, Left>> /\ c \in Cancelled
  BY <1>1, StreamsStay, OthersStay DEF Cancelled
<1>3. Passed' = [Passed EXCEPT ![c] = {}]
  <2>1. \A d \in Comments, r \in Subs : Sent(d, r)' <=> Sent(d, r)
    BY <1>1, OnlySendsSend
  <2>2. targets \in [Comments -> SUBSET Subs] /\ todo \in [Comments -> SUBSET Subs]
    BY DEF ReachedInv, TypeOK
  <2>3. publisher \in [Comments -> {"idle", "iterating", "closing", "returned", "failed"}]
    BY DEF ReachedInv, TypeOK
  <2>4. Passed'[c] = {}
    BY <1>1, <2>3 DEF Passed
  <2>5. ASSUME NEW d \in Comments, d # c PROVE Passed'[d] = Passed[d]
    <3>1. {r \in targets'[d] \ todo'[d] : ~ Sent(d, r)'} = {r \in targets[d] \ todo[d] : ~ Sent(d, r)}
      BY <1>1, <2>1, <2>2, <2>5
    <3> QED BY <1>1, <2>3, <2>5, <3>1 DEF Passed
  <2> QED BY <2>4, <2>5 DEF Passed
<1> QED BY <1>1, <1>2, <1>3 DEF Contract!Fail, Contract!subscriptionVars, Contract!shutdownVars

LEMMA PublishEndLoopIsOfferedToAll ==
  ASSUME ReachedInv, NEW c \in Comments, PublishEndLoop(c)
  PROVE  Contract!OfferedToAll(c)
<1>1. /\ publisher[c] = "iterating" /\ todo[c] = {}
      /\ publisher' = [publisher EXCEPT ![c] = "closing"]
      /\ UNCHANGED <<subscribers, chanState, buffer, todo, publishCtxDone, subCtxDone, reader,
                     received, shutdown, targets, shutTargets>>
  BY DEF PublishEndLoop, channelVars, readerVars, shutdownVars, historyVars
<1>2. UNCHANGED <<Streams, Reads, Closed, Cancelled, Left>>
  BY <1>1, StreamsStay, OthersStay
<1>3. Passed' = Passed
  <2>1. \A d \in Comments : publisher'[d] = "failed" <=> publisher[d] = "failed"
    BY <1>1 DEF ReachedInv, TypeOK
  <2> QED BY <1>1, <2>1 DEF Passed, Sent, Delivered
<1>4. \A s \in Subs : ~ Contract!Offered(c, s)
  BY <1>1, ToDoIsOffered
<1> QED BY <1>1, <1>2, <1>3, <1>4
        DEF Contract!OfferedToAll, Contract!subscriptionVars, Contract!shutdownVars

\* Whom the publication passed over is closed when it has called all its closers.
LEMMA PublishReturnIsReturn ==
  ASSUME ReachedInv, NEW c \in Comments, PublishReturn(c)
  PROVE  Contract!Return(c)
<1>1. /\ publisher[c] = "closing" /\ slowClosers[c] = <<>>
      /\ publisher' = [publisher EXCEPT ![c] = "returned"]
      /\ UNCHANGED <<subscribers, chanState, buffer, todo, publishCtxDone, subCtxDone, reader,
                     received, shutdown, targets, shutTargets>>
  BY DEF PublishReturn, channelVars, readerVars, shutdownVars, historyVars
<1>2. UNCHANGED <<Streams, Reads, Closed, Cancelled, Left>>
  BY <1>1, StreamsStay, OthersStay
<1>3. Passed' = Passed
  <2>1. \A d \in Comments : publisher'[d] = "failed" <=> publisher[d] = "failed"
    BY <1>1 DEF ReachedInv, TypeOK
  <2> QED BY <1>1, <2>1 DEF Passed, Sent, Delivered
<1>4. Passed[c] \subseteq Closed
  <2> SUFFICES ASSUME NEW s \in Passed[c] PROVE s \in Closed
    OBVIOUS
  <2>1. s \in targets[c] /\ ~ Sent(c, s) /\ s \in Subs
    BY <1>1 DEF Passed, ReachedInv, TypeOK
  <2>2. ~ Collected(c, s) /\ s \notin todo[c]
    BY <1>1, EmptySeq DEF ReachedInv, MissInv, Collected
  <2> QED BY <1>1, <2>1, <2>2 DEF ReachedInv, MissInv, Closed
<1> QED BY <1>1, <1>2, <1>3, <1>4
        DEF Contract!Return, Contract!subscriptionVars, Contract!shutdownVars

LEMMA CancelPublishIsCancel ==
  ASSUME ReachedInv, NEW c \in Comments, CancelPublish(c)
  PROVE  Contract!Cancel(c)
<1>1. /\ publishCtxDone' = [publishCtxDone EXCEPT ![c] = TRUE]
      /\ UNCHANGED <<subscribers, chanState, buffer, publisher, todo, subCtxDone, reader,
                     received, shutdown, targets, shutTargets>>
  BY DEF CancelPublish, channelVars, readerVars, shutdownVars, historyVars
<1>2. UNCHANGED <<Streams, Reads, Closed, Left, Passed>>
  BY <1>1, StreamsStay, OthersStay, PassedStays
<1>3. Cancelled' = Cancelled \cup {c}
  BY <1>1 DEF Cancelled, ReachedInv, TypeOK
<1> QED BY <1>1, <1>2, <1>3 DEF Contract!Cancel, Contract!subscriptionVars, Contract!shutdownVars

(***************************************************************************)
(* Step by step: subscribers and Shutdown.                                 *)
(***************************************************************************)
LEMMA SubscribeToPostCommentsIsSubscribe ==
  ASSUME ReachedInv, NEW s \in Subs, NEW p \in Posts, SubscribeToPostComments(s, p)
  PROVE  Contract!Subscribe(s, p)
<1>1. /\ chanState[s] = "none"
      /\ chanState' = [chanState EXCEPT ![s] = "open"]
      /\ subscribers' = [subscribers EXCEPT ![p] = @ \cup {s}]
      /\ reader' = [reader EXCEPT ![s] = "reading"]
      /\ UNCHANGED <<buffer, publisher, todo, publishCtxDone, subCtxDone, received, shutdown,
                     targets, shutTargets>>
  BY DEF SubscribeToPostComments, publisherVars, shutdownVars, historyVars
<1>2. UNCHANGED <<Streams, Reads, Passed, Cancelled>>
  BY <1>1, StreamsStay, OthersStay, PassedStays
<1>3. Closed' = Closed /\ s \notin Closed
  BY <1>1 DEF Closed, ReachedInv, TypeOK
<1>4. Left' = Left
  BY <1>1 DEF Left, ReachedInv, TypeOK, CallerInv
<1>5. \A q \in Posts : s \notin subscribers[q]
  BY <1>1 DEF ReachedInv, BrokerInv, RegisteredIffOpen
<1> QED BY <1>1, <1>2, <1>3, <1>4, <1>5
        DEF Contract!Subscribe, Contract!publicationVars, Contract!shutdownVars

LEMMA ReceiveIsTake ==
  ASSUME ReachedInv, [Next]_vars, NEW s \in Subs, Receive(s)
  PROVE  Contract!Take(s)
<1>1. /\ buffer[s] # <<>>
      /\ received' = [received EXCEPT ![s] = Append(@, Head(buffer[s]))]
      /\ buffer' = [buffer EXCEPT ![s] = Tail(@)]
      /\ UNCHANGED <<subscribers, chanState, publisher, todo, publishCtxDone, subCtxDone, reader,
                     shutdown, targets, shutTargets>>
  BY DEF Receive, publisherVars, shutdownVars, historyVars
<1>2. UNCHANGED <<Closed, Cancelled, Left>>
  BY <1>1, OthersStay
<1>3. /\ received[s] \in Seq(Comments) /\ buffer[s] \in Seq(Comments) /\ Head(buffer[s]) \in Comments
      /\ Len(buffer[s]) > 0
  <2>1. received[s] \in Seq(Comments) /\ buffer[s] \in Seq(Comments)
    BY DEF ReachedInv, TypeOK
  <2>2. Len(buffer[s]) # 0 /\ Len(buffer[s]) \in Nat
    BY <1>1, <2>1, EmptySeq
  <2> QED BY <1>1, <2>1, <2>2, HeadTailProperties
<1>4. \A r \in Subs : Delivered(r)' = Delivered(r)
  <2>1. ASSUME NEW r \in Subs, r # s PROVE Delivered(r)' = Delivered(r)
    BY <1>1, <2>1 DEF Delivered, ReachedInv, TypeOK
  <2>2. Delivered(s)' = Delivered(s)
    <3>1. received'[s] = Append(received[s], Head(buffer[s])) /\ buffer'[s] = Tail(buffer[s])
      BY <1>1 DEF ReachedInv, TypeOK
    <3>2. Append(received[s], Head(buffer[s])) \o Tail(buffer[s]) = received[s] \o buffer[s]
      BY <1>1, <1>3, HeadGoesOver
    <3> QED BY <3>1, <3>2 DEF Delivered
  <2> QED BY <2>1, <2>2
<1>5. Streams' = Streams
  BY <1>4 DEF Streams
<1>6. Reads' = [Reads EXCEPT ![s] = @ + 1]
  <2>1. Len(Append(received[s], Head(buffer[s]))) = Len(received[s]) + 1
    BY <1>3, AppendProperties
  <2>2. Reads'[s] = Reads[s] + 1
    BY <1>1, <2>1 DEF Reads, ReachedInv, TypeOK
  <2>3. \A r \in Subs : r # s => Reads'[r] = Reads[r]
    BY <1>1 DEF Reads, ReachedInv, TypeOK
  <2> QED BY <2>2, <2>3 DEF Reads
<1>7. Reads[s] < Len(Streams[s])
  <2>1. TypeOK
    BY DEF ReachedInv
  <2>2. /\ Len(Streams[s]) - Reads[s] = Len(buffer[s]) /\ Reads[s] \in Nat
        /\ Len(Streams[s]) \in Nat /\ Len(buffer[s]) \in Nat
    BY <2>1, StreamIsAhead
  <2> QED BY <1>3, <2>2
<1>8. Passed' = Passed
  <2>1. targets \in [Comments -> SUBSET Subs]
    BY DEF ReachedInv, TypeOK
  <2>2. ASSUME NEW c \in Comments, NEW r \in Subs PROVE Sent(c, r)' <=> Sent(c, r)
    BY <1>4 DEF Sent
  <2>3. ASSUME NEW c \in Comments PROVE Passed'[c] = Passed[c]
    <3>1. {r \in targets'[c] \ todo'[c] : ~ Sent(c, r)'} = {r \in targets[c] \ todo[c] : ~ Sent(c, r)}
      BY <1>1, <2>1, <2>2
    <3> QED BY <1>1, <3>1 DEF Passed
  <2> QED BY <2>3 DEF Passed
<1> QED BY <1>1, <1>2, <1>5, <1>6, <1>7, <1>8
        DEF Contract!Take, Contract!publicationVars, Contract!shutdownVars

LEMMA GoingIsLeave ==
  ASSUME ReachedInv, NEW s \in Subs, CancelSubscription(s) \/ Unsubscribe(s)
  PROVE  Contract!Leave(s)
<1>1. UNCHANGED <<subscribers, chanState, buffer, publisher, todo, publishCtxDone, received,
                  shutdown, targets, shutTargets>>
  BY DEF CancelSubscription, Unsubscribe, channelVars, publisherVars, shutdownVars, historyVars
<1>2. UNCHANGED <<Streams, Reads, Closed, Passed, Cancelled>>
  BY <1>1, StreamsStay, OthersStay, PassedStays
<1>3. Left' = Left \cup {s}
  BY DEF CancelSubscription, Unsubscribe, Left, ReachedInv, TypeOK
<1> QED BY <1>1, <1>2, <1>3 DEF Contract!Leave, Contract!publicationVars, Contract!shutdownVars

\* Whoever has called the closer had a reason.
LEMMA RunCloserIsClose ==
  ASSUME ReachedInv, NEW s \in Subs, RunCloser(s)
  PROVE  Contract!Close(s)
<1>1. /\ once[s] = "running"
      /\ subscribers' = [p \in Posts |-> subscribers[p] \ {s}]
      /\ chanState' = [chanState EXCEPT ![s] = "closed"]
      /\ UNCHANGED <<buffer, publisher, todo, publishCtxDone, subCtxDone, reader, received, shutdown,
                     targets, shutTargets>>
  BY DEF RunCloser, publisherVars, readerVars, shutdownVars, historyVars
<1>2. UNCHANGED <<Streams, Reads, Passed, Cancelled, Left>>
  BY <1>1, StreamsStay, OthersStay, PassedStays
<1>3. Closed' = Closed \cup {s}
  BY <1>1 DEF Closed, ReachedInv, TypeOK
<1>4. \E p \in Posts : s \in subscribers[p]
  BY <1>1 DEF ReachedInv, BrokerInv, OnceInv, RegisteredIffOpen
<1>5. Contract!Reason(s)
  <2>1. CASE s \in Left
    BY <2>1 DEF Contract!Reason
  <2>2. CASE s \in shutting
    BY <2>2 DEF Contract!Reason, ReachedInv, CallerInv
  <2>3. ASSUME NEW c \in Comments, CalledBy(c, s) PROVE Contract!Reason(s)
    <3>1. slowClosers[c] \in Seq(Subs) /\ slowClosers[c] # <<>> /\ Head(slowClosers[c]) = s
          /\ publisher[c] = "closing"
      BY <2>3 DEF CalledBy, ReachedInv, TypeOK
    <3>2. 1 \in 1..Len(slowClosers[c]) /\ slowClosers[c][1] = s
      BY <3>1, HeadTailProperties, EmptySeq
    <3>3. Collected(c, s)
      BY <3>2 DEF Collected
    <3>4. s \in Passed[c]
      BY <3>1, <3>3 DEF ReachedInv, CollectedInv, Passed
    <3> QED BY <3>1, <3>4 DEF Contract!Reason
  <2> QED BY <1>1, <2>1, <2>2, <2>3 DEF ReachedInv, CallerInv
<1> QED BY <1>1, <1>2, <1>3, <1>4, <1>5
        DEF Contract!Close, Contract!publicationVars, Contract!shutdownVars

LEMMA ShutdownBeginIsBegin ==
  ASSUME ReachedInv, ShutdownBegin
  PROVE  Contract!ShutdownBegin
<1>1. /\ shutdown = "idle" /\ shutdown' = "closing"
      /\ shutTargets' = UNION {subscribers[p] : p \in Posts}
      /\ UNCHANGED <<subscribers, chanState, buffer, publisher, todo, publishCtxDone, subCtxDone,
                     reader, received, targets>>
  BY DEF ShutdownBegin, channelVars, publisherVars, readerVars
<1>2. UNCHANGED <<Streams, Reads, Closed, Passed, Cancelled, Left>>
  BY <1>1, StreamsStay, OthersStay, PassedStays
<1> QED BY <1>1, <1>2
        DEF Contract!ShutdownBegin, Contract!publicationVars, Contract!subscriptionVars

LEMMA ShutdownReturnIsReturn ==
  ASSUME ReachedInv, ShutdownReturn
  PROVE  Contract!ShutdownReturn
<1>1. /\ shutdown = "closing" /\ toShut = {} /\ shutting = {} /\ shutdown' = "done"
      /\ UNCHANGED <<subscribers, chanState, buffer, publisher, todo, publishCtxDone, subCtxDone,
                     reader, received, targets, shutTargets>>
  BY DEF ShutdownReturn, channelVars, publisherVars, readerVars, historyVars
<1>2. UNCHANGED <<Streams, Reads, Closed, Passed, Cancelled, Left>>
  BY <1>1, StreamsStay, OthersStay, PassedStays
<1>3. shutTargets \subseteq Closed
  BY <1>1 DEF ReachedInv, TypeOK, BrokerInv, ShutdownInv, Closed
<1> QED BY <1>1, <1>2, <1>3
        DEF Contract!ShutdownReturn, Contract!publicationVars, Contract!subscriptionVars

\* Closers that are called and return, and goroutines that wake and end, are nobody's
\* business but the broker's.
LEMMA TheRestStutters ==
  ASSUME ReachedInv,
         \/ \E c \in Comments : PublishCallCloser(c) \/ PublishCloserReturns(c)
         \/ \E s \in Subs : \/ WatcherWakes(s) \/ WatcherEnds(s) \/ UnsubscribeReturns(s)
                            \/ ShutdownCallCloser(s) \/ ShutdownCloserReturns(s)
         \/ UNCHANGED vars
  PROVE  UNCHANGED Contract!contractVars
<1>1. UNCHANGED <<subscribers, chanState, buffer, publisher, todo, publishCtxDone, subCtxDone,
                  received, shutdown, targets, shutTargets>>
  BY DEF PublishCallCloser, PublishCloserReturns, WatcherWakes, WatcherEnds, UnsubscribeReturns,
     ShutdownCallCloser, ShutdownCloserReturns, vars, channelVars, publisherVars, readerVars,
     shutdownVars, historyVars
<1>2. Left' = Left
  BY DEF PublishCallCloser, PublishCloserReturns, WatcherWakes, WatcherEnds, UnsubscribeReturns,
     ShutdownCallCloser, ShutdownCloserReturns, vars, readerVars, Left, ReachedInv, TypeOK
<1>3. UNCHANGED <<Streams, Reads, Closed, Passed, Cancelled>>
  BY <1>1, StreamsStay, OthersStay, PassedStays
<1> QED BY <1>1, <1>2, <1>3 DEF Contract!contractVars, Contract!publicationVars,
           Contract!subscriptionVars, Contract!shutdownVars

LEMMA InitIsInit == Init => Contract!Init
<1> SUFFICES ASSUME Init PROVE Contract!Init
  OBVIOUS
<1>1. \A s \in Subs : Delivered(s) = <<>> /\ Len(received[s]) = 0
  BY EmptySeq, ConcatEmptySeq DEF Init, Delivered
<1>2. Streams = [s \in Subs |-> <<>>] /\ Reads = [s \in Subs |-> 0]
  BY <1>1 DEF Streams, Reads
<1>3. Passed = [c \in Comments |-> {}]
  <2>1. \A c \in Comments : Passed[c] = {}
    BY DEF Init, Passed
  <2> QED BY <2>1 DEF Passed
<1>4. Closed = {} /\ Cancelled = {} /\ Left = {}
  BY DEF Init, Closed, Cancelled, Left
<1> QED BY <1>2, <1>3, <1>4 DEF Init, Contract!Init

\* Every step of the broker is a step of the contract or none: a comment is sent to
\* open subscriptions of its post that have room and to nobody else, nobody with room
\* is passed over, a stream is closed for a reason and once, and publications and
\* Shutdown return when whom they owe a close is closed.
THEOREM BrokerImplementsContract == Spec => ImplementsContract
<1>1. Init => Contract!Init
  BY InitIsInit
<1>2. ASSUME ReachedInv, [Next]_vars PROVE [Contract!Next]_(Contract!contractVars)
  <2> USE <1>2
  <2> SUFFICES Contract!Next \/ UNCHANGED Contract!contractVars
    OBVIOUS
  <2>1. ASSUME NEW c \in Comments, PublishBegin(c) \/ CancelPublish(c) PROVE Contract!Next
    BY <2>1, PublishBeginIsBegin, CancelPublishIsCancel DEF Contract!Next
  <2>2. ASSUME NEW c \in Comments, NEW s \in Subs, PublishSend(c, s) \/ PublishSkip(c, s)
        PROVE  Contract!Next
    BY <2>2, PublishSendIsSend, PublishSkipIsPass DEF Contract!Next
  <2>3. ASSUME NEW c \in Comments, PublishAbort(c) \/ PublishEndLoop(c) \/ PublishReturn(c)
        PROVE  Contract!Next
    BY <2>3, PublishAbortIsFail, PublishEndLoopIsOfferedToAll, PublishReturnIsReturn DEF Contract!Next
  <2>4. ASSUME NEW s \in Subs, NEW p \in Posts, SubscribeToPostComments(s, p) PROVE Contract!Next
    BY <2>4, SubscribeToPostCommentsIsSubscribe DEF Contract!Next
  <2>5. ASSUME NEW s \in Subs, Receive(s) PROVE Contract!Next
    BY <2>5, ReceiveIsTake DEF Contract!Next
  <2>6. ASSUME NEW s \in Subs, CancelSubscription(s) \/ Unsubscribe(s) PROVE Contract!Next
    BY <2>6, GoingIsLeave DEF Contract!Next
  <2>7. ASSUME NEW s \in Subs, RunCloser(s) PROVE Contract!Next
    BY <2>7, RunCloserIsClose DEF Contract!Next
  <2>8. ShutdownBegin \/ ShutdownReturn => Contract!Next
    BY ShutdownBeginIsBegin, ShutdownReturnIsReturn DEF Contract!Next
  <2> QED BY <2>1, <2>2, <2>3, <2>4, <2>5, <2>6, <2>7, <2>8, TheRestStutters
          DEF Next, PublisherStep, ShutdownStep
<1> QED BY <1>1, <1>2, ReachedAlways, PTL DEF Spec, ImplementsContract, Contract!Spec
=============================================================================
