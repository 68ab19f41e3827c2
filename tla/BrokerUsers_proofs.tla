-------------------------- MODULE BrokerUsers_proofs --------------------------
(***************************************************************************)
(* Proofs about what is built around the broker: the commentAdded          *)
(* resolvers (Subscription) and the end of the process (Lifecycle).  Both  *)
(* use the broker as its own specification says it may be used, so what    *)
(* Broker_proofs shows carries over to them.  On top of it come what a     *)
(* forwarding goroutine does with what it takes, whom a publication owes   *)
(* its comment, the order in which a process ends, and that nothing can    *)
(* hold it up.                                                             *)
(***************************************************************************)
EXTENDS Subscription, Lifecycle, Broker_proofs

(***************************************************************************)
(* Type correctness of the resolvers.                                      *)
(***************************************************************************)

\* A goroutine is started when the subscription is accepted, and has a comment in
\* hand exactly while it sends.
GoroutineInv ==
  \A s \in Subs : /\ forwarder[s] = "none" <=> resolver[s] # "accepted"
                  /\ held[s] # Nothing <=> forwarder[s] = "sending"

LEMMA SubscriptionTypeInductive ==
  /\ SubscriptionInit => SubscriptionTypeOK /\ GoroutineInv
  /\ TypeOK /\ SubscriptionTypeOK /\ GoroutineInv /\ [SubscriptionNext]_subscriptionVars
       => SubscriptionTypeOK' /\ GoroutineInv'
<1> USE NothingIsNoComment DEF SubscriptionTypeOK, GoroutineInv
<1>1. SubscriptionInit => SubscriptionTypeOK /\ GoroutineInv
  BY EmptySeq DEF SubscriptionInit, OutCapacity
<1>2. ASSUME TypeOK, SubscriptionTypeOK, GoroutineInv, [SubscriptionNext]_subscriptionVars
      PROVE  SubscriptionTypeOK' /\ GoroutineInv'
  <2> USE <1>2
  <2>1. ASSUME NEW p \in Posts, DeletePost(p) PROVE SubscriptionTypeOK' /\ GoroutineInv'
    BY <2>1 DEF DeletePost, resolverVars, forwarderVars
  <2>2. ASSUME NEW c \in Comments, AddCommentCheck(c) PROVE SubscriptionTypeOK' /\ GoroutineInv'
    BY <2>2 DEF AddCommentCheck, resolverVars, forwarderVars
  <2>3. ASSUME NEW c \in Comments, AddCommentPublish(c) PROVE SubscriptionTypeOK' /\ GoroutineInv'
    BY <2>3 DEF AddCommentPublish, requestVars, resolverVars, forwarderVars
  <2>4. BrokerMoves \/ UNCHANGED subscriptionVars => SubscriptionTypeOK' /\ GoroutineInv'
    BY DEF BrokerMoves, subscriptionVars, requestVars, resolverVars, forwarderVars
  <2>5. ASSUME NEW s \in Subs, NEW p \in Posts, GetPost(s, p)
        PROVE  SubscriptionTypeOK' /\ GoroutineInv'
    BY <2>5 DEF GetPost, requestVars, forwarderVars
  <2>6. ASSUME NEW s \in Subs, Subscribe(s) PROVE SubscriptionTypeOK' /\ GoroutineInv'
    BY <2>6 DEF Subscribe, requestVars
  <2>7. ASSUME NEW s \in Subs, ForwarderTakes(s) PROVE SubscriptionTypeOK' /\ GoroutineInv'
    <3>1. Head(buffer[s]) \in Comments
      BY <2>7, HeadTailProperties DEF ForwarderTakes, Receive, TypeOK
    <3> QED BY <2>7, <3>1 DEF ForwarderTakes, requestVars, resolverVars
  <2>8. ASSUME NEW s \in Subs, ForwarderSends(s) PROVE SubscriptionTypeOK' /\ GoroutineInv'
    <3>1. held[s] \in Comments /\ out[s] \in Seq(Comments) /\ Len(out[s]) < OutCapacity
      BY <2>8 DEF ForwarderSends
    <3>2. /\ Append(out[s], held[s]) \in Seq(Comments)
          /\ Len(Append(out[s], held[s])) = Len(out[s]) + 1 /\ Len(out[s]) \in Nat
      BY <3>1, AppendProperties
    <3>3. Len(Append(out[s], held[s])) <= OutCapacity
      BY <3>1, <3>2 DEF OutCapacity
    <3>4. out' \in [Subs -> Seq(Comments)] /\ \A r \in Subs : Len(out'[r]) <= OutCapacity
      BY <2>8, <3>2, <3>3 DEF ForwarderSends
    <3> QED BY <2>8, <3>4 DEF ForwarderSends, requestVars, resolverVars
  <2>9. ASSUME NEW s \in Subs, ForwarderStops(s) \/ ForwarderUnsubscribes(s) \/ ForwarderEnds(s)
        PROVE  SubscriptionTypeOK' /\ GoroutineInv'
    BY <2>9 DEF ForwarderStops, MayStop, ForwarderUnsubscribes, ForwarderEnds, requestVars, resolverVars,
                forwarderVars
  <2>10. ASSUME NEW s \in Subs, ClientReads(s) PROVE SubscriptionTypeOK' /\ GoroutineInv'
    <3>1. out[s] \in Seq(Comments) /\ out[s] # <<>> /\ Len(out[s]) \in Nat
      BY <2>10 DEF ClientReads
    <3>2. /\ Head(out[s]) \in Comments /\ Tail(out[s]) \in Seq(Comments)
          /\ Len(Tail(out[s])) = Len(out[s]) - 1
      BY <3>1, HeadTailProperties
    <3>3. /\ out' \in [Subs -> Seq(Comments)] /\ \A r \in Subs : Len(out'[r]) <= OutCapacity
          /\ got' \in [Subs -> Seq(Comments)]
      BY <2>10, <3>1, <3>2 DEF ClientReads, OutCapacity
    <3> QED BY <2>10, <3>3 DEF ClientReads, requestVars, resolverVars
  <2> QED BY <2>1, <2>2, <2>3, <2>4, <2>5, <2>6, <2>7, <2>8, <2>9, <2>10
          DEF SubscriptionNext, ForwarderStep
<1> QED BY <1>1, <1>2

(***************************************************************************)
(* The resolvers use the broker.                                           *)
(***************************************************************************)

\* What the rest of the broker does to a subscription: it may leave the map, its
\* channel may close, and only an open channel is sent anything.
LEMMA BrokerMovesAround ==
  ASSUME TypeOK, BrokerInv, BrokerMoves
  PROVE  /\ \A p \in Posts : subscribers'[p] \subseteq subscribers[p]
         /\ \A s \in Subs : /\ chanState[s] = "closed" => chanState'[s] = "closed" /\ buffer'[s] = buffer[s]
                            /\ subCtxDone[s] => subCtxDone'[s]
         /\ UNCHANGED <<received, targets>>
<1> DEFINE Around ==
      /\ \A p \in Posts : subscribers'[p] \subseteq subscribers[p]
      /\ \A s \in Subs : /\ chanState[s] = "closed" => chanState'[s] = "closed" /\ buffer'[s] = buffer[s]
                         /\ subCtxDone[s] => subCtxDone'[s]
      /\ UNCHANGED <<received, targets>>
<1>1. ASSUME NEW c \in Comments, NEW s \in Subs, PublishSend(c, s) PROVE Around
  <2>1. chanState[s] = "open"
    <3>1. PostOf[c] \in Posts /\ s \in subscribers[PostOf[c]]
      BY <1>1, PostOfIsTyped DEF PublishSend, BrokerInv, VisitsRegistered
    <3> QED BY <3>1 DEF BrokerInv, RegisteredIffOpen
  <2> QED BY <1>1, <2>1 DEF PublishSend, TypeOK, readerVars, historyVars
<1>2. ASSUME NEW c \in Comments, NEW s \in Subs, PublishSkip(c, s) PROVE Around
  BY <1>2 DEF PublishSkip, channelVars, readerVars, historyVars
<1>3. ASSUME NEW c \in Comments,
             \/ PublishAbort(c) \/ PublishEndLoop(c) \/ PublishCallCloser(c)
             \/ PublishCloserReturns(c) \/ PublishReturn(c) \/ CancelPublish(c)
      PROVE  Around
  BY <1>3 DEF PublishAbort, PublishEndLoop, PublishCallCloser, PublishCloserReturns, PublishReturn,
     CancelPublish, channelVars, readerVars, historyVars
<1>4. ASSUME NEW s \in Subs, RunCloser(s) PROVE Around
  BY <1>4 DEF RunCloser, TypeOK, readerVars, historyVars
<1>5. ASSUME NEW s \in Subs, CancelSubscription(s) \/ WatcherWakes(s) \/ WatcherEnds(s) PROVE Around
  BY <1>5 DEF CancelSubscription, WatcherWakes, WatcherEnds, TypeOK, channelVars, historyVars
<1>6. ShutdownBegin \/ ShutdownStep => Around
  BY DEF ShutdownBegin, ShutdownStep, ShutdownCallCloser, ShutdownCloserReturns, ShutdownReturn,
     channelVars, readerVars, historyVars
<1> QED BY <1>1, <1>2, <1>3, <1>4, <1>5, <1>6 DEF BrokerMoves, PublisherStep

\* What was asked for is settled before a subscription is made, and it is made under
\* the key that was asked for; whoever is owed a comment and spells the post's id
\* as it is stored was found by the comment's publisher.
AskedInv ==
  /\ \A s \in Subs : resolver[s] # "idle" => postID[s] \in Posts
  /\ \A s \in Subs, p \in Posts : s \in subscribers[p] => resolver[s] = "accepted" /\ p = postID[s]
  /\ \A c \in Comments : \A s \in owed[c] :
       resolver[s] = "accepted" /\ (TrimSpace[postID[s]] = postID[s] => s \in targets[c])

LEMMA AskedInductive ==
  /\ SubscriptionInit => AskedInv
  /\ TypeOK /\ BrokerInv /\ SubscriptionTypeOK /\ AskedInv /\ [SubscriptionNext]_subscriptionVars
       => AskedInv'
<1> USE PostOfIsTyped, TrimSpaceIsTyped
<1>1. SubscriptionInit => AskedInv
  BY DEF SubscriptionInit, Init, AskedInv
<1>2. ASSUME TypeOK, BrokerInv, SubscriptionTypeOK, AskedInv, [SubscriptionNext]_subscriptionVars
      PROVE  AskedInv'
  <2> USE <1>2
  <2>1. ASSUME \A p \in Posts : subscribers'[p] \subseteq subscribers[p],
               UNCHANGED <<resolverVars, owed, targets>>
        PROVE  AskedInv'
    BY <2>1 DEF AskedInv, resolverVars
  <2>2. ASSUME NEW p \in Posts, DeletePost(p) PROVE AskedInv'
    BY <2>1, <2>2 DEF DeletePost, vars, channelVars, historyVars
  <2>3. ASSUME NEW c \in Comments, AddCommentCheck(c) PROVE AskedInv'
    BY <2>1, <2>3 DEF AddCommentCheck, vars, channelVars, historyVars
  <2>4. ASSUME NEW c \in Comments, AddCommentPublish(c) PROVE AskedInv'
    <3>1. /\ \A d \in Comments : d # c => targets'[d] = targets[d] /\ owed'[d] = owed[d]
          /\ targets'[c] = subscribers[PostOf[c]]
          /\ UNCHANGED <<subscribers, resolver, postID>>
      BY <2>4 DEF AddCommentPublish, PublishBegin, TypeOK, SubscriptionTypeOK, channelVars, resolverVars
    <3>2. owed'[c] = {s \in Subs : /\ resolver[s] = "accepted" /\ chanState[s] = "open"
                                   /\ TrimSpace[postID[s]] = PostOf[c]}
      BY <2>4 DEF AddCommentPublish, SubscriptionTypeOK
    <3>3. ASSUME NEW s \in owed'[c], TrimSpace[postID[s]] = postID[s] PROVE s \in targets'[c]
      <4>1. PICK p \in Posts : s \in subscribers[p]
        BY <3>2 DEF BrokerInv, RegisteredIffOpen
      <4> QED BY <3>1, <3>2, <3>3, <4>1 DEF AskedInv
    <3> QED BY <3>1, <3>2, <3>3 DEF AskedInv
  <2>5. CASE BrokerMoves
    BY <2>1, <2>5, BrokerMovesAround DEF BrokerMoves
  <2>6. ASSUME NEW s \in Subs, NEW p \in Posts, GetPost(s, p) PROVE AskedInv'
    <3>1. /\ \A r \in Subs : /\ r # s => resolver'[r] = resolver[r] /\ postID'[r] = postID[r]
                             /\ r = s => postID'[r] = p
          /\ UNCHANGED <<subscribers, owed, targets>> /\ resolver[s] = "idle"
      BY <2>6 DEF GetPost, SubscriptionTypeOK, vars, channelVars, historyVars
    <3>2. \A c \in Comments : \A r \in owed[c] : r \in Subs
      BY DEF SubscriptionTypeOK
    <3> QED BY <3>1, <3>2 DEF AskedInv
  <2>7. ASSUME NEW s \in Subs, Subscribe(s) PROVE AskedInv'
    <3>1. /\ \A q \in Posts : subscribers'[q] = IF q = postID[s] THEN subscribers[q] \cup {s} ELSE subscribers[q]
          /\ \A r \in Subs : resolver'[r] = IF r = s THEN "accepted" ELSE resolver[r]
          /\ UNCHANGED <<postID, owed, targets>> /\ resolver[s] = "subscribing"
      BY <2>7 DEF Subscribe, SubscribeToPostComments, SubscriptionTypeOK, TypeOK, historyVars
    <3>2. \A c \in Comments : \A r \in owed[c] : r \in Subs
      BY DEF SubscriptionTypeOK
    <3>3. \A r \in Subs : resolver'[r] # "idle" => postID'[r] \in Posts
      BY <3>1 DEF AskedInv
    <3>4. ASSUME NEW r \in Subs, NEW p \in Posts, r \in subscribers'[p]
          PROVE  resolver'[r] = "accepted" /\ p = postID'[r]
      <4>1. r \in subscribers[p] => resolver[r] = "accepted" /\ p = postID[r]
        BY DEF AskedInv
      <4>2. r \in subscribers[p] \/ (r = s /\ p = postID[s])
        BY <3>1, <3>4
      <4>3. resolver'[r] = IF r = s THEN "accepted" ELSE resolver[r]
        BY <3>1
      <4> QED BY <3>1, <4>1, <4>2, <4>3
    <3>5. \A c \in Comments : \A r \in owed'[c] :
            resolver'[r] = "accepted" /\ (TrimSpace[postID'[r]] = postID'[r] => r \in targets'[c])
      BY <3>1, <3>2 DEF AskedInv
    <3> QED BY <3>3, <3>4, <3>5 DEF AskedInv
  <2>8. ASSUME NEW s \in Subs, ForwarderStep(s) \/ ClientReads(s) PROVE AskedInv'
    BY <2>1, <2>8 DEF ForwarderStep, ForwarderTakes, Receive, ForwarderSends, ForwarderStops,
       ForwarderUnsubscribes, Unsubscribe, ForwarderEnds, UnsubscribeReturns, ClientReads,
       vars, channelVars, historyVars
  <2>9. UNCHANGED subscriptionVars => AskedInv'
    BY <2>1 DEF subscriptionVars, vars, channelVars, historyVars
  <2> QED BY <2>2, <2>3, <2>4, <2>5, <2>6, <2>7, <2>8, <2>9 DEF SubscriptionNext
<1> QED BY <1>1, <1>2

LEMMA ResolverStepsOfTheBroker ==
  /\ SubscriptionInit => Init
  /\ AskedInv /\ [SubscriptionNext]_subscriptionVars => [Next]_vars
<1>1. SubscriptionInit => Init
  BY DEF SubscriptionInit
<1>2. ASSUME AskedInv, [SubscriptionNext]_subscriptionVars PROVE [Next]_vars
  <2> USE <1>2
  <2>1. ASSUME NEW p \in Posts, DeletePost(p) PROVE [Next]_vars
    BY <2>1 DEF DeletePost
  <2>2. ASSUME NEW c \in Comments, AddCommentCheck(c) \/ AddCommentPublish(c) PROVE [Next]_vars
    BY <2>2 DEF AddCommentCheck, AddCommentPublish, Next
  <2>3. CASE BrokerMoves
    BY <2>3 DEF BrokerMoves, Next
  <2>4. ASSUME NEW s \in Subs, NEW p \in Posts, GetPost(s, p) PROVE [Next]_vars
    BY <2>4 DEF GetPost
  <2>5. ASSUME NEW s \in Subs, Subscribe(s) PROVE [Next]_vars
    <3>1. postID[s] \in Posts
      BY <2>5 DEF Subscribe, AskedInv
    <3> QED BY <2>5, <3>1 DEF Subscribe, Next
  <2>6. ASSUME NEW s \in Subs, ForwarderStep(s) \/ ClientReads(s) PROVE [Next]_vars
    BY <2>6 DEF ForwarderStep, ForwarderTakes, ForwarderSends, ForwarderStops,
       ForwarderUnsubscribes, ForwarderEnds, ClientReads, Next
  <2>7. UNCHANGED subscriptionVars => [Next]_vars
    BY DEF subscriptionVars
  <2> QED BY <2>1, <2>2, <2>3, <2>4, <2>5, <2>6, <2>7 DEF SubscriptionNext
<1> QED BY <1>1, <1>2

\* All that the proofs below rest on, with what the broker promises by itself.
StreamInv == TypeOK /\ BrokerInv /\ SubscriptionTypeOK /\ GoroutineInv /\ AskedInv

LEMMA StreamAlways == SubscriptionSpec => []StreamInv
<1>1. SubscriptionInit => StreamInv
  BY ResolverStepsOfTheBroker, TypeInductive, BrokerInductive, SubscriptionTypeInductive, AskedInductive
     DEF StreamInv
<1>2. StreamInv /\ [SubscriptionNext]_subscriptionVars => StreamInv'
  BY ResolverStepsOfTheBroker, TypeInductive, BrokerInductive, SubscriptionTypeInductive, AskedInductive
     DEF StreamInv
<1> QED BY <1>1, <1>2, PTL DEF SubscriptionSpec

\* The resolvers subscribe, receive and unsubscribe as the broker's specification
\* says its users may, under any spelling of a post's id: whatever is proved of the
\* broker holds of the broker below them.
THEOREM ResolversImplementBroker == SubscriptionSpec => Spec
<1>1. StreamInv /\ [SubscriptionNext]_subscriptionVars => [Next]_vars
  BY ResolverStepsOfTheBroker DEF StreamInv
<1>2. SubscriptionInit => Init
  BY ResolverStepsOfTheBroker
<1> QED BY <1>1, <1>2, StreamAlways, PTL DEF SubscriptionSpec, Spec

\* So a stream is made of comments of its own post, each once, and in the order in
\* which publications followed each other.
COROLLARY StreamsAreDelivered ==
  SubscriptionSpec => [](DeliveredOnceToItsPost /\ DeliveredInPublishOrder)
BY ResolversImplementBroker, DeliveryCorrect, OrderCorrect, PTL

(***************************************************************************)
(* Nobody who asked by the stored id misses a comment unawares.            *)
(***************************************************************************)

\* When a publication has returned without an error, every subscription to its post
\* that had been accepted before and spells the id as it is stored has been sent the
\* comment or is closed.
THEOREM ByIDNobodyMisses == SubscriptionSpec => []NoSilentMissByID
<1>1. ASSUME AskedInv, SlowSubscribersAreClosed PROVE NoSilentMissByID
  <2> SUFFICES ASSUME NEW c \in Comments, publisher[c] = "returned", NEW s \in owed[c],
                      TrimSpace[postID[s]] = postID[s]
               PROVE  chanState[s] = "closed" \/ c \in ToSet(Delivered(s))
    BY DEF NoSilentMissByID
  <2>1. s \in targets[c]
    BY <1>1 DEF AskedInv
  <2> QED BY <1>1, <2>1 DEF SlowSubscribersAreClosed
<1>2. StreamInv => AskedInv
  BY DEF StreamInv
<1> QED BY <1>1, <1>2, StreamAlways, ResolversImplementBroker, MissesAreVisible, PTL

(***************************************************************************)
(* Forwarding.                                                             *)
(***************************************************************************)

\* What the goroutine has taken is what has left it, and the comment it has in hand;
\* one comment in hand may be given up, when the context ends.  It ends by itself
\* only when the channel is closed and drained.
ForwardedSoFar(s) ==
  /\ forwarder[s] \in {"none", "receiving"} => Forwarded(s) = received[s]
  /\ forwarder[s] = "sending" => Append(Forwarded(s), held[s]) = received[s]
  /\ \/ Forwarded(s) = received[s]
     \/ \E c \in Comments : Append(Forwarded(s), c) = received[s]
  /\ outClosed[s] =>
       /\ forwarder[s] \in {"unsubscribing", "ended"}
       /\ \/ subCtxDone[s]
          \/ chanState[s] = "closed" /\ buffer[s] = <<>> /\ Forwarded(s) = received[s]

ForwardInv == \A s \in Subs : ForwardedSoFar(s)

LEMMA ForwardedIsTyped ==
  ASSUME SubscriptionTypeOK, NEW s \in Subs
  PROVE  Forwarded(s) \in Seq(Comments)
BY ConcatProperties DEF Forwarded, SubscriptionTypeOK

LEMMA ForwardInductive ==
  /\ SubscriptionInit => ForwardInv
  /\ StreamInv /\ ForwardInv /\ [SubscriptionNext]_subscriptionVars => ForwardInv'
<1>1. ASSUME SubscriptionInit PROVE ForwardInv
  <2>1. <<>> \o <<>> = <<>>
    BY EmptySeq, ConcatEmptySeq
  <2> QED BY <1>1, <2>1 DEF SubscriptionInit, Init, ForwardInv, ForwardedSoFar, Forwarded
<1>2. ASSUME StreamInv, ForwardInv, [SubscriptionNext]_subscriptionVars PROVE ForwardInv'
  <2>0. TypeOK /\ BrokerInv /\ SubscriptionTypeOK /\ GoroutineInv /\ AskedInv
    BY <1>2 DEF StreamInv
  <2>1. ASSUME \A s \in Subs :
                 /\ chanState[s] = "closed" => chanState'[s] = "closed" /\ buffer'[s] = buffer[s]
                 /\ subCtxDone[s] => subCtxDone'[s],
               UNCHANGED <<forwarderVars, got, received>>
        PROVE  ForwardInv'
    BY <1>2, <2>1 DEF ForwardInv, ForwardedSoFar, Forwarded, forwarderVars
  <2>2. ASSUME NEW p \in Posts, DeletePost(p) PROVE ForwardInv'
    BY <2>1, <2>2 DEF DeletePost, vars, channelVars, readerVars
  <2>3. ASSUME NEW c \in Comments, AddCommentCheck(c) \/ AddCommentPublish(c) PROVE ForwardInv'
    BY <2>1, <2>3 DEF AddCommentCheck, AddCommentPublish, PublishBegin, vars, channelVars, readerVars
  <2>4. CASE BrokerMoves
    BY <2>0, <2>1, <2>4, BrokerMovesAround DEF BrokerMoves
  <2>5. ASSUME NEW s \in Subs, NEW p \in Posts, GetPost(s, p) PROVE ForwardInv'
    BY <2>1, <2>5 DEF GetPost, vars, channelVars, readerVars
  <2>6. ASSUME NEW s \in Subs, ForwarderUnsubscribes(s) PROVE ForwardInv'
    BY <2>1, <2>6 DEF ForwarderUnsubscribes, Unsubscribe
  <2>7. UNCHANGED subscriptionVars => ForwardInv'
    BY <2>1 DEF subscriptionVars, vars, channelVars, readerVars
  <2>8. ASSUME NEW s \in Subs,
               \A r \in Subs \ {s} :
                 /\ forwarder'[r] = forwarder[r] /\ held'[r] = held[r] /\ out'[r] = out[r]
                 /\ outClosed'[r] = outClosed[r] /\ got'[r] = got[r]
                 /\ received'[r] = received[r] /\ buffer'[r] = buffer[r]
                 /\ chanState'[r] = chanState[r] /\ subCtxDone'[r] = subCtxDone[r],
               ForwardedSoFar(s)'
        PROVE  ForwardInv'
    <3>1. ASSUME NEW r \in Subs, r # s PROVE ForwardedSoFar(r)'
      <4>1. ForwardedSoFar(r) /\ r \in Subs \ {s}
        BY <1>2, <3>1 DEF ForwardInv
      <4>2. Forwarded(r)' = Forwarded(r)
        BY <2>8, <4>1 DEF Forwarded
      <4> QED BY <2>8, <4>1, <4>2 DEF ForwardedSoFar
    <3> QED BY <2>8, <3>1 DEF ForwardInv
  <2>9. ASSUME NEW s \in Subs, Subscribe(s) PROVE ForwardInv'
    <3>1. Forwarded(s)' = Forwarded(s)
      BY <2>9 DEF Subscribe, Forwarded
    <3>2. forwarder[s] = "none" /\ ForwardedSoFar(s)
      BY <1>2, <2>0, <2>9 DEF Subscribe, GoroutineInv, ForwardInv
    <3>3. forwarder'[s] = "receiving" /\ received' = received /\ outClosed' = outClosed
      BY <2>0, <2>9 DEF Subscribe, SubscribeToPostComments, SubscriptionTypeOK
    <3>4. ForwardedSoFar(s)'
      BY <3>1, <3>2, <3>3 DEF ForwardedSoFar
    <3> QED BY <2>0, <2>8, <2>9, <3>4
            DEF Subscribe, SubscribeToPostComments, TypeOK, SubscriptionTypeOK
  <2>10. ASSUME NEW s \in Subs, ForwarderTakes(s) PROVE ForwardInv'
    <3>1. Forwarded(s)' = Forwarded(s)
      BY <2>10 DEF ForwarderTakes, Forwarded
    <3>2. forwarder[s] = "receiving" /\ ForwardedSoFar(s) /\ Head(buffer[s]) \in Comments
      BY <1>2, <2>0, <2>10, HeadTailProperties DEF ForwarderTakes, Receive, TypeOK, ForwardInv
    <3>3. /\ forwarder'[s] = "sending" /\ held'[s] = Head(buffer[s])
          /\ received'[s] = Append(received[s], Head(buffer[s]))
          /\ outClosed' = outClosed
      BY <2>0, <2>10 DEF ForwarderTakes, Receive, TypeOK, SubscriptionTypeOK
    <3>4. ForwardedSoFar(s)'
      BY <3>1, <3>2, <3>3 DEF ForwardedSoFar
    <3> QED BY <2>0, <2>8, <2>10, <3>4 DEF ForwarderTakes, Receive, TypeOK, SubscriptionTypeOK
  <2>11. ASSUME NEW s \in Subs, ForwarderSends(s) PROVE ForwardInv'
    <3>1. forwarder[s] = "sending" /\ ForwardedSoFar(s) /\ held[s] \in Comments
      BY <1>2, <2>0, <2>11 DEF ForwarderSends, GoroutineInv, SubscriptionTypeOK, ForwardInv
    <3>2. /\ out'[s] = Append(out[s], held[s]) /\ got'[s] = got[s] /\ forwarder'[s] = "receiving"
          /\ received' = received /\ outClosed' = outClosed
      BY <2>0, <2>11 DEF ForwarderSends, SubscriptionTypeOK, vars, readerVars
    <3>3. got[s] \o Append(out[s], held[s]) = Append(got[s] \o out[s], held[s])
      BY <2>0, <3>1, AppendBehind DEF SubscriptionTypeOK
    <3>4. Forwarded(s)' = Append(Forwarded(s), held[s])
      BY <3>2, <3>3 DEF Forwarded
    <3>5. ForwardedSoFar(s)'
      BY <3>1, <3>2, <3>4 DEF ForwardedSoFar
    <3> QED BY <2>0, <2>8, <2>11, <3>5
            DEF ForwarderSends, SubscriptionTypeOK, vars, channelVars, readerVars
  <2>12. ASSUME NEW s \in Subs, ForwarderStops(s) PROVE ForwardInv'
    <3>1. Forwarded(s)' = Forwarded(s)
      BY <2>12 DEF ForwarderStops, Forwarded
    <3>2. /\ ForwardedSoFar(s)
          /\ \/ subCtxDone[s]
             \/ chanState[s] = "closed" /\ buffer[s] = <<>> /\ Forwarded(s) = received[s]
      BY <1>2, <2>12 DEF ForwarderStops, MayStop, ForwardInv, ForwardedSoFar
    <3>3. forwarder'[s] = "unsubscribing" /\ UNCHANGED <<received, chanState, buffer, subCtxDone>>
      BY <2>0, <2>12 DEF ForwarderStops, SubscriptionTypeOK, vars, channelVars, readerVars
    <3>4. ForwardedSoFar(s)'
      BY <3>1, <3>2, <3>3 DEF ForwardedSoFar
    <3> QED BY <2>0, <2>8, <2>12, <3>3, <3>4 DEF ForwarderStops, SubscriptionTypeOK
  <2>13. ASSUME NEW s \in Subs, ForwarderEnds(s) PROVE ForwardInv'
    <3>1. Forwarded(s)' = Forwarded(s) /\ ForwardedSoFar(s)
      BY <1>2, <2>13 DEF ForwarderEnds, Forwarded, ForwardInv
    <3>2. forwarder'[s] = "ended" /\ UNCHANGED <<received, chanState, buffer, subCtxDone, outClosed>>
      BY <2>0, <2>13 DEF ForwarderEnds, UnsubscribeReturns, SubscriptionTypeOK, channelVars
    <3>3. ForwardedSoFar(s)'
      BY <3>1, <3>2 DEF ForwardedSoFar
    <3> QED BY <2>0, <2>8, <2>13, <3>2, <3>3 DEF ForwarderEnds, SubscriptionTypeOK
  <2>14. ASSUME NEW s \in Subs, ClientReads(s) PROVE ForwardInv'
    <3>1. got'[s] = Append(got[s], Head(out[s])) /\ out'[s] = Tail(out[s]) /\ out[s] # <<>>
      BY <2>0, <2>14 DEF ClientReads, SubscriptionTypeOK
    <3>2. Append(got[s], Head(out[s])) \o Tail(out[s]) = got[s] \o out[s]
      BY <2>0, <3>1, HeadGoesOver DEF SubscriptionTypeOK
    <3>3. Forwarded(s)' = Forwarded(s) /\ ForwardedSoFar(s)
      BY <1>2, <3>1, <3>2 DEF Forwarded, ForwardInv
    <3>4. UNCHANGED <<received, chanState, buffer, subCtxDone, forwarder, held, outClosed>>
      BY <2>14 DEF ClientReads, vars, channelVars, readerVars
    <3>5. ForwardedSoFar(s)'
      BY <3>3, <3>4 DEF ForwardedSoFar
    <3> QED BY <2>0, <2>8, <2>14, <3>4, <3>5 DEF ClientReads, SubscriptionTypeOK
  <2> QED BY <1>2, <2>2, <2>3, <2>4, <2>5, <2>6, <2>7, <2>9, <2>10, <2>11, <2>12, <2>13, <2>14
          DEF SubscriptionNext, ForwarderStep
<1> QED BY <1>1, <1>2

LEMMA AppendExtends ==
  ASSUME NEW S, NEW a \in Seq(S), NEW e \in S
  PROVE  IsPrefix(a, Append(a, e))
<1>1. Len(a) \in Nat /\ Append(a, e) \in Seq(S)
  BY AppendProperties
<1>2. /\ Len(Append(a, e)) = Len(a) + 1
      /\ \A i \in 1..Len(a) : Append(a, e)[i] = a[i]
  BY AppendProperties
<1>3. SubSeq(Append(a, e), 1, Len(a)) = SubSeq(a, 1, Len(a))
  BY <1>1, <1>2
<1> QED BY <1>1, <1>2, <1>3 DEF IsPrefix

\* Between the broker's channel and the client nothing is lost, repeated or
\* reordered, but for the comment in hand when the context ends; a stream that ends
\* by itself has handed over all that was ever put into its channel.
THEOREM ForwardingIsFaithful == SubscriptionSpec => []ForwardedFaithfully
<1>1. ASSUME StreamInv, ForwardInv PROVE ForwardedFaithfully
  <2> SUFFICES ASSUME NEW s \in Subs
               PROVE  /\ forwarder[s] \in {"receiving", "sending"} => Forwarded(s) \o InHand(s) = received[s]
                      /\ IsPrefix(Forwarded(s), received[s])
                      /\ outClosed[s] /\ ~ subCtxDone[s] => Forwarded(s) = Delivered(s)
    BY DEF ForwardedFaithfully
  <2>1. /\ Forwarded(s) \in Seq(Comments) /\ received[s] \in Seq(Comments)
        /\ held[s] # Nothing <=> forwarder[s] = "sending"
        /\ held[s] # Nothing => held[s] \in Comments
    BY <1>1, ForwardedIsTyped DEF StreamInv, TypeOK, SubscriptionTypeOK, GoroutineInv
  <2>2. ASSUME forwarder[s] = "receiving" PROVE Forwarded(s) \o InHand(s) = received[s]
    <3>1. InHand(s) = <<>> /\ Forwarded(s) = received[s]
      BY <1>1, <2>1, <2>2 DEF InHand, ForwardInv, ForwardedSoFar
    <3>2. Forwarded(s) \o <<>> = Forwarded(s)
      BY <2>1, ConcatEmptySeq
    <3> QED BY <3>1, <3>2
  <2>3. ASSUME forwarder[s] = "sending" PROVE Forwarded(s) \o InHand(s) = received[s]
    <3>1. InHand(s) = <<held[s]>> /\ Append(Forwarded(s), held[s]) = received[s]
      BY <1>1, <2>1, <2>3 DEF InHand, ForwardInv, ForwardedSoFar
    <3>2. Append(Forwarded(s), held[s]) = Forwarded(s) \o <<held[s]>>
      BY <2>1, <2>3, AppendIsConcat
    <3> QED BY <3>1, <3>2
  <2>4. IsPrefix(Forwarded(s), received[s])
    <3>1. CASE Forwarded(s) = received[s]
      BY <2>1, <3>1 DEF IsPrefix
    <3>2. ASSUME NEW c \in Comments, Append(Forwarded(s), c) = received[s]
          PROVE  IsPrefix(Forwarded(s), received[s])
      BY <2>1, <3>2, AppendExtends
    <3> QED BY <1>1, <3>1, <3>2 DEF ForwardInv, ForwardedSoFar
  <2>5. ASSUME outClosed[s], ~ subCtxDone[s] PROVE Forwarded(s) = Delivered(s)
    <3>1. buffer[s] = <<>> /\ Forwarded(s) = received[s]
      BY <1>1, <2>5 DEF ForwardInv, ForwardedSoFar
    <3>2. received[s] \o <<>> = received[s]
      BY <2>1, ConcatEmptySeq
    <3> QED BY <3>1, <3>2 DEF Delivered
  <2> QED BY <2>2, <2>3, <2>4, <2>5
<1>2. SubscriptionSpec => [](StreamInv /\ ForwardInv)
  BY StreamAlways, ForwardInductive, PTL DEF SubscriptionSpec
<1> QED BY <1>1, <1>2, PTL

(***************************************************************************)
(* The process runs the broker.                                            *)
(***************************************************************************)
LEMMA ProcessStepsOfTheBroker ==
  /\ LifecycleInit => Init
  /\ [LifecycleNext]_allVars => [Next]_vars
<1>1. LifecycleInit => Init
  BY DEF LifecycleInit
<1>2. ASSUME [LifecycleNext]_allVars PROVE [Next]_vars
  <2>1. CASE UNCHANGED allVars
    BY <2>1 DEF allVars
  <2>2. ASSUME NEW c \in Comments, RequestStep(c) \/ Accept(c)
        PROVE  [Next]_vars
    BY <2>2 DEF RequestStep, BeginLookUp, EndLookUp, BeginStore, EndStore, FindPoolClosed,
                Publish, Answer, Accept, Goes, Next
  <2>3. CASE BrokerProceeds
    BY <2>3 DEF BrokerProceeds, Next
  <2>4. CASE ClientsOfBroker
    BY <2>4 DEF ClientsOfBroker, Next
  <2>5. CASE ShutdownBroker
    BY <2>5 DEF ShutdownBroker, Next
  <2>6. CASE ShutdownServer \/ ServerDrained \/ DrainTimesOut \/ Exit \/ Signal
    BY <2>6 DEF ShutdownServer, ServerDrained, DrainTimesOut, Exit, Signal
  <2>7. ASSUME NEW s \in Subs, NEW p \in Posts, SubscribeOver(s, p) PROVE [Next]_vars
    BY <2>7 DEF SubscribeOver, Next
  <2> QED BY <1>2, <2>1, <2>2, <2>3, <2>4, <2>5, <2>6, <2>7
          DEF LifecycleNext, Progress, Demands
<1> QED BY <1>1, <1>2

\* The process uses the broker as the broker's own specification says it may be
\* used, so all its theorems hold while the process serves and while it ends.
THEOREM ProcessImplementsBroker == LifecycleSpec => Spec
BY ProcessStepsOfTheBroker, PTL DEF LifecycleSpec, Spec

\* What the ports promise of events is kept while clients subscribe through the
\* resolvers, and while the process serves and ends.
THEOREM UsersSeeTheContract ==
  /\ SubscriptionSpec => ImplementsContract
  /\ LifecycleSpec => ImplementsContract
BY ResolversImplementBroker, ProcessImplementsBroker, BrokerImplementsContract

(***************************************************************************)
(* The order of the end.                                                   *)
(***************************************************************************)

\* A finished Shutdown is never begun again.
LEMMA ShutdownStaysDone ==
  ASSUME [Next]_vars, shutdown = "done"
  PROVE  shutdown' = "done"
<1>1. ASSUME NEW c \in Comments, PublishBegin(c) \/ PublisherStep(c) \/ CancelPublish(c)
      PROVE  shutdown' = shutdown
  BY <1>1 DEF PublishBegin, PublisherStep, CancelPublish, PublishSend, PublishSkip, PublishAbort,
              PublishEndLoop, PublishCallCloser, PublishCloserReturns, PublishReturn, shutdownVars
<1>2. ASSUME NEW s \in Subs,
             \/ RunCloser(s) \/ CancelSubscription(s) \/ WatcherWakes(s) \/ WatcherEnds(s)
             \/ Receive(s) \/ Unsubscribe(s) \/ UnsubscribeReturns(s)
      PROVE  shutdown' = shutdown
  BY <1>2 DEF RunCloser, CancelSubscription, WatcherWakes, WatcherEnds, Receive, Unsubscribe,
              UnsubscribeReturns, shutdownVars
<1>3. ASSUME NEW s \in Subs, NEW p \in Posts, SubscribeToPostComments(s, p)
      PROVE  shutdown' = shutdown
  BY <1>3 DEF SubscribeToPostComments, shutdownVars
<1>4. ShutdownBegin \/ ShutdownStep => shutdown' = "done"
  BY DEF ShutdownBegin, ShutdownStep, ShutdownCallCloser, ShutdownCloserReturns, ShutdownReturn
<1>5. UNCHANGED vars => shutdown' = shutdown
  BY DEF vars, shutdownVars
<1> QED BY <1>1, <1>2, <1>3, <1>4, <1>5 DEF Next

\* A step of the broker other than the beginning of a publication moves only
\* publications that are under way.
LEMMA PublicationsOnlyGoOn ==
  ASSUME BrokerProceeds \/ ClientsOfBroker \/ ShutdownBroker, TypeOK
  PROVE  \A c \in Comments :
           /\ publisher[c] \in {"idle", "returned", "failed"} => publisher'[c] = publisher[c]
           /\ publisher[c] # "idle" => publisher'[c] # "idle"
<1>1. ASSUME NEW d \in Comments, PublisherStep(d)
      PROVE  \A c \in Comments :
               /\ publisher[c] \in {"idle", "returned", "failed"} => publisher'[c] = publisher[c]
               /\ publisher[c] # "idle" => publisher'[c] # "idle"
  <2>1. publisher[d] \in {"iterating", "closing"}
    BY <1>1 DEF PublisherStep, PublishSend, PublishSkip, PublishAbort, PublishEndLoop,
                PublishCallCloser, PublishCloserReturns, PublishReturn
  <2>2. \/ publisher' = publisher
        \/ \E to \in {"failed", "closing", "returned"} :
             publisher' = [publisher EXCEPT ![d] = to]
    BY <1>1 DEF PublisherStep, PublishSend, PublishSkip, PublishAbort, PublishEndLoop,
                PublishCallCloser, PublishCloserReturns, PublishReturn, publisherVars
  <2> QED BY <2>1, <2>2 DEF TypeOK
<1>2. ASSUME NEW c \in Comments, CancelPublish(c) PROVE publisher' = publisher
  BY <1>2 DEF CancelPublish
<1>3. ASSUME NEW s \in Subs,
             \/ RunCloser(s) \/ CancelSubscription(s) \/ WatcherWakes(s) \/ WatcherEnds(s)
             \/ Receive(s) \/ Unsubscribe(s) \/ UnsubscribeReturns(s)
      PROVE  publisher' = publisher
  BY <1>3 DEF RunCloser, CancelSubscription, WatcherWakes, WatcherEnds, Receive, Unsubscribe,
              UnsubscribeReturns, publisherVars
<1>4. ShutdownBegin \/ ShutdownStep => publisher' = publisher
  BY DEF ShutdownBegin, ShutdownStep, ShutdownCallCloser, ShutdownCloserReturns,
         ShutdownReturn, publisherVars
<1> QED BY <1>1, <1>2, <1>3, <1>4 DEF BrokerProceeds, ClientsOfBroker, ShutdownBroker

Processes == {"serving", "signalled", "draining", "closing", "stopped", "killed"}

Requests == {"none", "arrived", "lookingUp", "checked", "storing", "publishing", "answered"}

\* Main goes on with Shutdown of the broker done and with the POSTs answered, and no
\* other begins; a request publishes from its own place only, and is answered behind it.
ExitInv ==
  /\ process \in Processes
  /\ request \in [Comments -> Requests]
  /\ process \notin {"serving", "signalled"} => shutdown = "done"
  /\ process \in {"closing", "stopped"} => \A c \in Posted : request[c] \in {"none", "answered"}
  /\ \A c \in Comments : publisher[c] # "idle" => request[c] \in {"publishing", "answered"}
  /\ \A c \in Comments : request[c] = "answered" => publisher[c] \in {"idle", "returned", "failed"}

LEMMA ExitInductive ==
  /\ LifecycleInit => ExitInv
  /\ TypeOK /\ ExitInv /\ [LifecycleNext]_allVars => ExitInv'
<1> USE PostedAreComments
<1>1. LifecycleInit => ExitInv
  BY DEF LifecycleInit, Init, ExitInv, Processes, Requests
<1>2. ASSUME TypeOK, ExitInv, [LifecycleNext]_allVars PROVE ExitInv'
  <2> USE <1>2
  <2>0. shutdown = "done" => shutdown' = "done"
    BY ProcessStepsOfTheBroker, ShutdownStaysDone
  <2>1. ASSUME UNCHANGED lifecycleVars,
               \A c \in Comments :
                 /\ publisher[c] \in {"idle", "returned", "failed"} => publisher'[c] = publisher[c]
                 /\ publisher[c] # "idle" => publisher'[c] # "idle",
               publisher' \in [Comments -> {"idle", "iterating", "closing", "returned", "failed"}]
        PROVE  ExitInv'
    <3>1. \A c \in Comments : publisher'[c] # "idle" => request'[c] \in {"publishing", "answered"}
      BY <2>1 DEF ExitInv, lifecycleVars
    <3>2. \A c \in Comments : request'[c] = "answered" => publisher'[c] \in {"idle", "returned", "failed"}
      BY <2>1 DEF ExitInv, lifecycleVars
    <3> QED BY <2>0, <2>1, <3>1, <3>2 DEF ExitInv, lifecycleVars
  <2>2. ASSUME NEW c \in Comments, NEW from \in Requests, NEW to \in Requests \ {"none"},
               Goes(c, from, to), from # "answered",
               c \in Posted /\ from = "none" => HasConnections,
               from \in {"publishing", "answered"} => to = "answered",
               to = "answered" => publisher[c] \in {"idle", "returned", "failed"}
        PROVE  ExitInv'
    <3>1. /\ request' = [request EXCEPT ![c] = to] /\ request[c] = from
          /\ UNCHANGED <<process, shutdown, publisher>> /\ process # "stopped"
      BY <2>2 DEF Goes, Runs, vars, publisherVars, shutdownVars
    <3>2. request' \in [Comments -> Requests]
      BY <2>2, <3>1 DEF ExitInv
    <3>3. process \in {"closing", "stopped"} => \A d \in Posted : request'[d] \in {"none", "answered"}
      <4>1. c \in Posted => process # "closing"
        BY <2>2, <3>1 DEF ExitInv, HasConnections
      <4> QED BY <3>1, <4>1 DEF ExitInv
    <3>4. \A d \in Comments : publisher[d] # "idle" => request'[d] \in {"publishing", "answered"}
      BY <2>2, <3>1 DEF ExitInv
    <3>5. \A d \in Comments : request'[d] = "answered" => publisher[d] \in {"idle", "returned", "failed"}
      BY <2>2, <3>1 DEF ExitInv
    <3> QED BY <3>1, <3>2, <3>3, <3>4, <3>5 DEF ExitInv
  <2>3. ASSUME NEW c \in Comments, request[c] \in {"lookingUp", "storing", "arrived", "checked"}
        PROVE  publisher[c] = "idle"
    BY <2>3 DEF ExitInv
  <2>4. ASSUME NEW c \in Comments, Accept(c) PROVE ExitInv'
    BY <2>2, <2>4 DEF Accept, Requests
  <2>5. ASSUME NEW c \in Comments, BeginLookUp(c) \/ EndLookUp(c) PROVE ExitInv'
    BY <2>2, <2>3, <2>5 DEF BeginLookUp, EndLookUp, Goes, Requests
  <2>6. ASSUME NEW c \in Comments, BeginStore(c) \/ EndStore(c) PROVE ExitInv'
    BY <2>2, <2>3, <2>6 DEF BeginStore, EndStore, Goes, Requests
  <2>7. ASSUME NEW c \in Comments, FindPoolClosed(c) PROVE ExitInv'
    BY <2>2, <2>3, <2>7 DEF FindPoolClosed, Goes, Requests
  <2>8. ASSUME NEW c \in Comments, Answer(c) PROVE ExitInv'
    BY <2>2, <2>8 DEF Answer, Requests
  <2>9. ASSUME NEW c \in Comments, Publish(c) PROVE ExitInv'
    <3>1. /\ publisher' = [publisher EXCEPT ![c] = "iterating"] /\ request[c] = "publishing"
          /\ UNCHANGED <<process, request, shutdown>>
      BY <2>9 DEF Publish, PublishBegin, lifecycleVars, shutdownVars
    <3>2. \A d \in Comments : d # c => publisher'[d] = publisher[d]
      BY <3>1 DEF TypeOK
    <3> QED BY <3>1, <3>2 DEF ExitInv
  <2>10. CASE Signal \/ ShutdownServer \/ ServerDrained \/ DrainTimesOut \/ Exit
    <3>1. UNCHANGED <<request, shutdown, publisher>>
      BY <2>10 DEF Signal, ShutdownServer, ServerDrained, DrainTimesOut, Exit, vars,
                   publisherVars, shutdownVars
    <3> QED BY <2>10, <3>1 DEF Signal, ShutdownServer, ServerDrained, DrainTimesOut, Exit,
                               ExitInv, Processes
  <2>11. CASE BrokerProceeds \/ ClientsOfBroker \/ ShutdownBroker
    <3>1. UNCHANGED lifecycleVars
      BY <2>11 DEF BrokerProceeds, ClientsOfBroker, ShutdownBroker
    <3>2. TypeOK'
      BY TypeInductive, ProcessStepsOfTheBroker
    <3> QED BY <2>1, <2>11, <3>1, <3>2, PublicationsOnlyGoOn DEF TypeOK
  <2>12. ASSUME NEW s \in Subs, NEW p \in Posts, SubscribeOver(s, p) PROVE ExitInv'
    <3>1. UNCHANGED <<lifecycleVars, publisher>>
      BY <2>12 DEF SubscribeOver, SubscribeToPostComments, publisherVars
    <3> QED BY <2>1, <3>1 DEF TypeOK
  <2>13. CASE UNCHANGED allVars
    BY <2>1, <2>13 DEF allVars, vars, publisherVars, TypeOK
  <2> QED BY <2>4, <2>5, <2>6, <2>7, <2>8, <2>9, <2>10, <2>11, <2>12, <2>13
          DEF LifecycleNext, Progress, Demands, RequestStep
<1> QED BY <1>1, <1>2

LEMMA ExitInvAlways == LifecycleSpec => [](TypeOK /\ BrokerInv /\ ExitInv)
<1>1. LifecycleSpec => [](TypeOK /\ BrokerInv)
  BY ProcessImplementsBroker, BrokerInductive, TypeInductive, PTL DEF Spec
<1> QED BY <1>1, ExitInductive, PTL DEF LifecycleSpec

\* Every channel that Shutdown of the broker found is closed before the HTTP server is
\* shut down, whoever runs the closers.
THEOREM SubscribersAreAlwaysToldFirst == LifecycleSpec => []SubscribersAreToldFirst
<1>1. BrokerInv /\ ExitInv => SubscribersAreToldFirst
  BY DEF BrokerInv, ShutdownInv, ExitInv, SubscribersAreToldFirst
<1> QED BY <1>1, ExitInvAlways, PTL

\* Main returns only when the publication of every comment that a POST has stored is over.
THEOREM PostsAreAlwaysPublished == LifecycleSpec => []PostsArePublished
<1>1. TypeOK /\ ExitInv => PostsArePublished
  BY PostedAreComments DEF ExitInv, PostsArePublished, Stored
<1> QED BY <1>1, ExitInvAlways, PTL

(***************************************************************************)
(* Nothing holds main up.                                                  *)
(*                                                                         *)
(* SignalIsNeverStuck says with ENABLED that the process can go on; what   *)
(* is proved is the same with the guards of its steps written out.         *)
(***************************************************************************)

\* A publisher with the read lock: PublishEndLoop, or for a subscriber still to be
\* visited PublishSend, PublishSkip or PublishAbort.
VisitIsDue(c) ==
  /\ publisher[c] = "iterating"
  /\ \/ todo[c] = {}
     \/ \E s \in todo[c] : \/ Len(buffer[s]) < BufferSize
                           \/ Len(buffer[s]) = BufferSize /\ ~ publishCtxDone[c]
                           \/ publishCtxDone[c]

\* ShutdownBegin, ShutdownCallCloser, the closer that Shutdown waits for,
\* ShutdownCloserReturns, ShutdownReturn
ShutdownIsDue ==
  \/ shutdown = "idle" /\ MayShutDown /\ NoReaders
  \/ \E s \in toShut : shutdown = "closing" /\ shutting = {}
  \/ \E s \in shutting : once[s] = "running" /\ NoReaders
  \/ \E s \in shutting : once[s] = "done"
  \/ shutdown = "closing" /\ toShut = {} /\ shutting = {}

\* A step of the broker is due, or ShutdownServer is.  (Later on DrainTimesOut is, and
\* Exit or the EndLookUp or EndStore it waits for.)
MainCanGoOn ==
  process = "signalled" => \/ \E c \in Comments : VisitIsDue(c)
                           \/ ShutdownIsDue
                           \/ shutdown = "done"

\* Shutdown waits for a closer only after it has called it.
WaitsForCalled == \A s \in shutting : once[s] # "free"

LEMMA WaitsForCalledInductive ==
  /\ Init => WaitsForCalled
  /\ TypeOK /\ WaitsForCalled /\ [Next]_vars => WaitsForCalled'
<1>1. Init => WaitsForCalled
  BY DEF Init, WaitsForCalled
<1>2. ASSUME TypeOK, WaitsForCalled, [Next]_vars PROVE WaitsForCalled'
  <2> USE <1>2
  <2>1. ASSUME NEW s \in Subs, CallCloser(s)
        PROVE  once'[s] # "free" /\ \A r \in Subs : once[r] # "free" => once'[r] # "free"
    BY <2>1 DEF CallCloser, TypeOK
  <2>2. ASSUME \A r \in Subs : once[r] # "free" => once'[r] # "free", shutting' \subseteq shutting
        PROVE  WaitsForCalled'
    BY <2>2 DEF WaitsForCalled, TypeOK
  <2>3. ASSUME NEW c \in Comments, PublishBegin(c) \/ PublisherStep(c) \/ CancelPublish(c)
        PROVE  WaitsForCalled'
    <3>1. CASE PublishCallCloser(c)
      <4>1. Head(slowClosers[c]) \in Subs
        BY <3>1 DEF PublishCallCloser, TypeOK
      <4> QED BY <2>1, <2>2, <3>1, <4>1 DEF PublishCallCloser, shutdownVars
    <3>2. CASE ~ PublishCallCloser(c)
      <4>1. once' = once /\ shutting' = shutting
        BY <2>3, <3>2 DEF PublisherStep, PublishBegin, CancelPublish, PublishSend, PublishSkip,
              PublishAbort, PublishEndLoop, PublishCloserReturns, PublishReturn,
              channelVars, shutdownVars
      <4> QED BY <4>1 DEF WaitsForCalled
    <3> QED BY <3>1, <3>2
  <2>4. ASSUME NEW s \in Subs, NEW p \in Posts, SubscribeToPostComments(s, p)
        PROVE  WaitsForCalled'
    BY <2>4 DEF SubscribeToPostComments, WaitsForCalled, shutdownVars
  <2>5. ASSUME NEW s \in Subs, WatcherWakes(s) \/ Unsubscribe(s) PROVE WaitsForCalled'
    BY <2>1, <2>2, <2>5 DEF WatcherWakes, Unsubscribe, shutdownVars
  <2>6. ASSUME NEW s \in Subs, RunCloser(s) PROVE WaitsForCalled'
    <3>1. \A r \in Subs : once[r] # "free" => once'[r] # "free"
      BY <2>6 DEF RunCloser, TypeOK
    <3> QED BY <2>2, <2>6, <3>1 DEF RunCloser, shutdownVars
  <2>7. ASSUME NEW s \in Subs,
               CancelSubscription(s) \/ WatcherEnds(s) \/ Receive(s) \/ UnsubscribeReturns(s)
        PROVE  WaitsForCalled'
    BY <2>7 DEF CancelSubscription, WatcherEnds, Receive, UnsubscribeReturns, WaitsForCalled,
                channelVars, shutdownVars
  <2>8. ASSUME NEW s \in Subs, ShutdownCallCloser(s) PROVE WaitsForCalled'
    BY <2>1, <2>8 DEF ShutdownCallCloser, WaitsForCalled
  <2>9. ASSUME NEW s \in Subs, ShutdownCloserReturns(s) PROVE WaitsForCalled'
    BY <2>9 DEF ShutdownCloserReturns, WaitsForCalled
  <2>10. CASE ShutdownBegin \/ ShutdownReturn \/ UNCHANGED vars
    BY <2>10 DEF ShutdownBegin, ShutdownReturn, WaitsForCalled, vars, channelVars, shutdownVars
  <2> QED BY <2>3, <2>4, <2>5, <2>6, <2>7, <2>8, <2>9, <2>10 DEF Next, ShutdownStep
<1> QED BY <1>1, <1>2

\* Whoever holds the read lock can take its next step: the loop offers and never waits.
LEMMA ReadersGoOn ==
  ASSUME TypeOK, NEW c \in Comments, publisher[c] = "iterating"
  PROVE  VisitIsDue(c)
<1>1. CASE todo[c] = {}
  BY <1>1 DEF VisitIsDue
<1>2. ASSUME NEW s \in todo[c] PROVE VisitIsDue(c)
  <2>1. s \in Subs /\ Len(buffer[s]) \in Nat /\ Len(buffer[s]) <= BufferSize /\ BufferSize \in Nat
    BY <1>2, BufferIsNotEmpty DEF TypeOK
  <2>2. Len(buffer[s]) < BufferSize \/ Len(buffer[s]) = BufferSize
    BY <2>1
  <2> QED BY <1>2, <2>2 DEF VisitIsDue
<1> QED BY <1>1, <1>2

\* After the signal Shutdown of the broker can go on, or somebody can on whom it waits,
\* whatever publishers, closers, subscribers that do not read and requests do meanwhile:
\* neither the lock nor a Once that somebody else runs holds Shutdown of the broker
\* up (main.go:80, broker.go:96-122).
THEOREM NothingHoldsMainUp == MayShutDown /\ LifecycleSpec => []MainCanGoOn
<1>1. ASSUME MayShutDown, TypeOK, BrokerInv, WaitsForCalled PROVE MainCanGoOn
  <2> USE <1>1
  <2>1. ASSUME ~ NoReaders PROVE \E c \in Comments : VisitIsDue(c)
    BY <2>1, ReadersGoOn DEF NoReaders
  <2>2. ASSUME NoReaders, shutdown = "closing" PROVE ShutdownIsDue
    <3>1. ASSUME NEW s \in shutting PROVE once[s] \in {"running", "done"}
      BY <3>1 DEF TypeOK, WaitsForCalled
    <3>2. CASE shutting # {}
      BY <2>2, <3>1, <3>2 DEF ShutdownIsDue
    <3>3. CASE shutting = {}
      BY <2>2, <3>3 DEF ShutdownIsDue
    <3> QED BY <3>2, <3>3
  <2>3. shutdown \in {"idle", "closing", "done"}
    BY DEF TypeOK
  <2>4. NoReaders /\ shutdown = "idle" => ShutdownIsDue
    BY DEF ShutdownIsDue
  <2> QED BY <2>1, <2>2, <2>3, <2>4 DEF MainCanGoOn
<1>2. LifecycleSpec => [](TypeOK /\ BrokerInv)
  BY ProcessImplementsBroker, BrokerInductive, TypeInductive, PTL DEF Spec
<1>3. LifecycleSpec => []WaitsForCalled
  <2>1. Spec => []WaitsForCalled
    BY WaitsForCalledInductive, TypeInductive, PTL DEF Spec
  <2> QED BY <2>1, ProcessImplementsBroker, PTL
<1>4. CASE MayShutDown
  BY <1>1, <1>2, <1>3, <1>4, PTL
<1>5. CASE ~ MayShutDown
  BY <1>5
<1> QED BY <1>4, <1>5
==============================================================================
