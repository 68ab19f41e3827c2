----------------------------- MODULE Subscription -----------------------------
(***************************************************************************)
(* The commentAdded subscription (CommentAdded in                          *)
(* internal/graph/schema.resolvers.go) over the broker: the resolver looks *)
(* up the post, subscribes, and starts a goroutine that forwards comments  *)
(* from the broker's channel to the channel of the client.                 *)
(*                                                                         *)
(* The goroutine is the user of the broker's channel: its receive and its  *)
(* unsubscribe are Receive and Unsubscribe of Broker, every other step of  *)
(* the broker may happen at any time.  "Posts" of Broker are the keys of   *)
(* its map, post ids as clients spell them; the spelling without spaces is *)
(* the id of the post.                                                     *)
(***************************************************************************)
EXTENDS Broker

CONSTANTS
  TrimSpace,   \* the id each spelling stands for
  Nothing      \* no comment

ASSUME TrimSpaceIsTyped ==
  /\ TrimSpace \in [Posts -> Posts]
  /\ \A p \in Posts : TrimSpace[TrimSpace[p]] = TrimSpace[p]
ASSUME CommentsAreOnIDs == \A c \in Comments : TrimSpace[PostOf[c]] = PostOf[c]
ASSUME NothingIsNoComment == Nothing \notin Comments

VARIABLES
  storedPosts,  \* ids of the posts that exist
  checked,      \* comments whose AddComment has seen its post
  resolver,     \* where the call of CommentAdded is
  postID,       \* the spelling it was given
  forwarder,    \* where its goroutine is
  held,         \* the comment the goroutine has taken and not yet handed on
  out,          \* the client's channel, of capacity one
  outClosed,    \* that channel is closed
  got,          \* what the client has read
  owed          \* history: whose subscription to the comment's post had been
                \* accepted, and was open, when its publication began

requestVars == <<storedPosts, checked>>
resolverVars == <<resolver, postID>>
forwarderVars == <<forwarder, held, out, outClosed>>
subscriptionVars == <<vars, requestVars, resolverVars, forwarderVars, got, owed>>

OutCapacity == 1

SubscriptionTypeOK ==
  /\ storedPosts \subseteq Posts
  /\ checked \subseteq Comments
  /\ resolver \in [Subs -> {"idle", "subscribing", "accepted", "rejected"}]
  /\ postID \in [Subs -> Posts \cup {Nothing}]
  /\ forwarder \in [Subs -> {"none", "receiving", "sending", "unsubscribing", "ended"}]
  /\ held \in [Subs -> Comments \cup {Nothing}]
  /\ out \in [Subs -> Seq(Comments)]
  /\ \A s \in Subs : Len(out[s]) <= OutCapacity
  /\ outClosed \in [Subs -> BOOLEAN]
  /\ got \in [Subs -> Seq(Comments)]
  /\ owed \in [Comments -> SUBSET Subs]

SubscriptionInit ==
  /\ Init
  /\ storedPosts = {p \in Posts : TrimSpace[p] = p}
  /\ checked = {}
  /\ resolver = [s \in Subs |-> "idle"]
  /\ postID = [s \in Subs |-> Nothing]
  /\ forwarder = [s \in Subs |-> "none"]
  /\ held = [s \in Subs |-> Nothing]
  /\ out = [s \in Subs |-> <<>>]
  /\ outClosed = [s \in Subs |-> FALSE]
  /\ got = [s \in Subs |-> <<>>]
  /\ owed = [c \in Comments |-> {}]

(***************************************************************************)
(* What other requests do.                                                 *)
(***************************************************************************)
DeletePost(p) ==
  /\ p \in storedPosts
  /\ storedPosts' = storedPosts \ {p}
  /\ UNCHANGED <<vars, checked, resolverVars, forwarderVars, got, owed>>

\* AddComment publishes only what it has stored, on a post it has seen.
AddCommentCheck(c) ==
  /\ c \notin checked /\ PostOf[c] \in storedPosts
  /\ checked' = checked \cup {c}
  /\ UNCHANGED <<vars, storedPosts, resolverVars, forwarderVars, got, owed>>

AddCommentPublish(c) ==
  /\ c \in checked
  /\ PublishBegin(c)
  /\ owed' = [owed EXCEPT ![c] =
                {s \in Subs : /\ resolver[s] = "accepted" /\ chanState[s] = "open"
                              /\ TrimSpace[postID[s]] = PostOf[c]}]
  /\ UNCHANGED <<requestVars, resolverVars, forwarderVars, got>>

\* The rest of the broker
BrokerMoves ==
  /\ \/ \E c \in Comments : PublisherStep(c) \/ CancelPublish(c)
     \/ \E s \in Subs : \/ RunCloser(s)
                        \/ CancelSubscription(s)
                        \/ WatcherWakes(s)
                        \/ WatcherEnds(s)
     \/ ShutdownBegin
     \/ ShutdownStep
  /\ UNCHANGED <<requestVars, resolverVars, forwarderVars, got, owed>>

(***************************************************************************)
(* The resolver.                                                           *)
(***************************************************************************)

\* PostService.GetPost trims the id; the repository refuses a context that has ended.
GetPost(s, p) ==
  /\ resolver[s] = "idle"
  /\ postID' = [postID EXCEPT ![s] = p]
  /\ resolver' = [resolver EXCEPT ![s] =
                    IF TrimSpace[p] \in storedPosts /\ ~ subCtxDone[s]
                      THEN "subscribing" ELSE "rejected"]
  /\ UNCHANGED <<vars, requestVars, forwarderVars, got, owed>>

\* Seeded fault: the key is any other than the one asked for.
SubscribeElsewhere(s) ==
  /\ resolver[s] = "subscribing"
  /\ \E p \in Posts \ {postID[s]} : SubscribeToPostComments(s, p)
  /\ resolver' = [resolver EXCEPT ![s] = "accepted"]
  /\ forwarder' = [forwarder EXCEPT ![s] = "receiving"]
  /\ UNCHANGED <<requestVars, postID, held, out, outClosed, got, owed>>

\* The key is the id as it was given.
Subscribe(s) ==
  /\ resolver[s] = "subscribing"
  /\ SubscribeToPostComments(s, postID[s])
  /\ resolver' = [resolver EXCEPT ![s] = "accepted"]
  /\ forwarder' = [forwarder EXCEPT ![s] = "receiving"]
  /\ UNCHANGED <<requestVars, postID, held, out, outClosed, got, owed>>

(***************************************************************************)
(* The goroutine.                                                          *)
(***************************************************************************)
ForwarderTakes(s) ==
  /\ forwarder[s] = "receiving"
  /\ Receive(s)
  /\ held' = [held EXCEPT ![s] = Head(buffer[s])]
  /\ forwarder' = [forwarder EXCEPT ![s] = "sending"]
  /\ UNCHANGED <<requestVars, resolverVars, out, outClosed, got, owed>>

ForwarderSends(s) ==
  /\ forwarder[s] = "sending"
  /\ Len(out[s]) < OutCapacity
  /\ out' = [out EXCEPT ![s] = Append(@, held[s])]
  /\ held' = [held EXCEPT ![s] = Nothing]
  /\ forwarder' = [forwarder EXCEPT ![s] = "receiving"]
  /\ UNCHANGED <<vars, requestVars, resolverVars, outClosed, got, owed>>

\* Seeded faults: a closed channel ends the loop before it is drained; the send
\* to the client does not look at the context; only the context ends the loop.
MayStopUndrained(s) ==
  \/ forwarder[s] \in {"receiving", "sending"} /\ subCtxDone[s]
  \/ forwarder[s] = "receiving" /\ chanState[s] = "closed"

MayStopWhileReceiving(s) ==
  /\ forwarder[s] = "receiving"
  /\ subCtxDone[s] \/ (chanState[s] = "closed" /\ buffer[s] = <<>>)

MayStopWhenCancelled(s) == forwarder[s] \in {"receiving", "sending"} /\ subCtxDone[s]

\* Both selects watch the context; a receive says "not ok" only from a channel
\* that is closed and empty.
MayStop(s) ==
  \/ forwarder[s] \in {"receiving", "sending"} /\ subCtxDone[s]
  \/ forwarder[s] = "receiving" /\ chanState[s] = "closed" /\ buffer[s] = <<>>

\* The deferred calls, last one first: close(out), then unsubscribe()
ForwarderStops(s) ==
  /\ MayStop(s)
  /\ outClosed' = [outClosed EXCEPT ![s] = TRUE]
  /\ held' = [held EXCEPT ![s] = Nothing]
  /\ forwarder' = [forwarder EXCEPT ![s] = "unsubscribing"]
  /\ UNCHANGED <<vars, requestVars, resolverVars, out, got, owed>>

ForwarderUnsubscribes(s) ==
  /\ forwarder[s] = "unsubscribing"
  /\ Unsubscribe(s)
  /\ UNCHANGED <<requestVars, resolverVars, forwarderVars, got, owed>>

ForwarderEnds(s) ==
  /\ forwarder[s] = "unsubscribing"
  /\ UnsubscribeReturns(s)
  /\ forwarder' = [forwarder EXCEPT ![s] = "ended"]
  /\ UNCHANGED <<requestVars, resolverVars, held, out, outClosed, got, owed>>

ForwarderStep(s) ==
  \/ ForwarderTakes(s)
  \/ ForwarderSends(s)
  \/ ForwarderStops(s)
  \/ ForwarderUnsubscribes(s)
  \/ ForwarderEnds(s)

\* The transport reads the client's channel.
ClientReads(s) ==
  /\ out[s] # <<>>
  /\ got' = [got EXCEPT ![s] = Append(@, Head(out[s]))]
  /\ out' = [out EXCEPT ![s] = Tail(@)]
  /\ UNCHANGED <<vars, requestVars, resolverVars, forwarder, held, outClosed, owed>>

SubscriptionNext ==
  \/ \E p \in Posts : DeletePost(p)
  \/ \E c \in Comments : AddCommentCheck(c) \/ AddCommentPublish(c)
  \/ BrokerMoves
  \/ \E s \in Subs, p \in Posts : GetPost(s, p)
  \/ \E s \in Subs : Subscribe(s) \/ ForwarderStep(s) \/ ClientReads(s)

SubscriptionSpec == SubscriptionInit /\ [][SubscriptionNext]_subscriptionVars

\* The scheduler's fairness of Broker, and that of the goroutines here.  A client
\* need not read.
FairSubscriptionSpec ==
  /\ SubscriptionSpec
  /\ Fairness
  /\ \A s \in Subs : WF_subscriptionVars(ForwarderStep(s))

(***************************************************************************)
(* Properties.                                                             *)
(***************************************************************************)

\* What has left the broker's channel and has not been given up
Forwarded(s) == got[s] \o out[s]
InHand(s) == IF held[s] = Nothing THEN <<>> ELSE <<held[s]>>

\* Between the broker's channel and the client nothing is lost, repeated or
\* reordered, except for one comment in hand when the context ends.  A client
\* whose stream ends although its context has not has been handed everything that
\* was ever put into its channel: one that was closed for being slow still gets
\* what it was sent before.
ForwardedFaithfully ==
  \A s \in Subs :
    /\ forwarder[s] \in {"receiving", "sending"} => Forwarded(s) \o InHand(s) = received[s]
    /\ IsPrefix(Forwarded(s), received[s])
    /\ outClosed[s] /\ ~ subCtxDone[s] => Forwarded(s) = Delivered(s)

\* A client misses no comment silently: when a publication has returned without
\* an error, every subscription to its post that had been accepted before it
\* began has been sent the comment or has been closed (README.md:82, "new comments
\* to the post in real time").
NoSilentMiss ==
  \A c \in Comments :
    publisher[c] = "returned" =>
      \A s \in owed[c] : chanState[s] = "closed" \/ c \in ToSet(Delivered(s))

\* The same of clients that spell the id as it is stored.
NoSilentMissByID ==
  \A c \in Comments :
    publisher[c] = "returned" =>
      \A s \in owed[c] : \/ TrimSpace[postID[s]] # postID[s]
                         \/ chanState[s] = "closed"
                         \/ c \in ToSet(Delivered(s))

\* The goroutine of a client that has gone ends, wherever it was, also when
\* nobody reads what it would send.
NoForwarderStaysBehind ==
  \A s \in Subs :
    forwarder[s] \in {"receiving", "sending"} /\ subCtxDone[s] ~> forwarder[s] = "ended"

\* A client that reads comes to know that the broker has closed its channel.
ClosingReachesTheClient ==
  (\A s \in Subs : WF_subscriptionVars(ClientReads(s))) =>
    \A s \in Subs : chanState[s] = "closed" ~> outClosed[s] /\ out[s] = <<>>
==============================================================================
