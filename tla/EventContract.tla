---------------------------- MODULE EventContract ----------------------------
(***************************************************************************)
(* What the events of comments promise their publisher and their           *)
(* subscribers: ports.CommentEventPublisher and CommentEventSubscriber     *)
(* without locks, channels, goroutines and closers.                        *)
(*                                                                         *)
(* A subscription is a stream that grows at its end and is read from its   *)
(* beginning.  A publication offers its comment to everybody it finds on   *)
(* its post; it never waits: whoever has no room is passed over, and is    *)
(* closed before the publication returns.  A stream is closed for a        *)
(* reason: its subscriber has gone, it was passed over, or Shutdown found  *)
(* it.                                                                     *)
(***************************************************************************)
EXTENDS Naturals, Sequences

CONSTANTS
  Posts,
  Comments,
  PostOf,      \* the post of each comment
  Subs,        \* subscriptions that can be made
  Capacity     \* how far a stream may be ahead of its reader

VARIABLES
  members,     \* post -> the open subscriptions to it
  closed,      \* subscriptions that are closed
  stream,      \* what each subscription has been sent
  read,        \* how much of that its subscriber has read
  publication, \* where each publication is: it offers its comment (iterating),
               \* closes whom it passed over (closing), has returned or failed
  found,       \* whom each publication found
  passed,      \* whom it found without room
  cancelled,   \* publications whose request has been cancelled
  left,        \* subscribers who have gone
  shutdown,    \* where Shutdown is
  toClose      \* whom it found

publicationVars == <<publication, found, passed, cancelled>>
subscriptionVars == <<members, closed, stream, read, left>>
shutdownVars == <<shutdown, toClose>>
contractVars == <<publicationVars, subscriptionVars, shutdownVars>>

Init ==
  /\ members = [p \in Posts |-> {}]
  /\ closed = {}
  /\ stream = [s \in Subs |-> <<>>]
  /\ read = [s \in Subs |-> 0]
  /\ publication = [c \in Comments |-> "idle"]
  /\ found = [c \in Comments |-> {}]
  /\ passed = [c \in Comments |-> {}]
  /\ cancelled = {}
  /\ left = {}
  /\ shutdown = "idle"
  /\ toClose = {}

Holds(s, c) == \E i \in 1..Len(stream[s]) : stream[s][i] = c

(***************************************************************************)
(* Publishers.                                                             *)
(***************************************************************************)
Cancel(c) ==
  /\ cancelled' = cancelled \cup {c}
  /\ UNCHANGED <<publication, found, passed, subscriptionVars, shutdownVars>>

Begin(c) ==
  /\ publication[c] = "idle"
  /\ publication' = [publication EXCEPT ![c] = "iterating"]
  /\ found' = [found EXCEPT ![c] = members[PostOf[c]]]
  /\ UNCHANGED <<passed, cancelled, subscriptionVars, shutdownVars>>

\* Whom the publication has still to come to
Offered(c, s) ==
  /\ publication[c] = "iterating"
  /\ s \in found[c] /\ s \notin passed[c] /\ ~ Holds(s, c)

\* A comment goes to an open subscription to its post that has room for it.
Send(c, s) ==
  /\ Offered(c, s)
  /\ s \in members[PostOf[c]]
  /\ Len(stream[s]) - read[s] < Capacity
  /\ stream' = [stream EXCEPT ![s] = Append(@, c)]
  /\ UNCHANGED <<publicationVars, members, closed, read, left, shutdownVars>>

\* Nobody who has room is passed over.
Pass(c, s) ==
  /\ Offered(c, s)
  /\ Len(stream[s]) - read[s] = Capacity
  /\ passed' = [passed EXCEPT ![c] = @ \cup {s}]
  /\ UNCHANGED <<publication, found, cancelled, subscriptionVars, shutdownVars>>

\* Only a cancelled publication stops halfway; it forgets whom it passed over.
Fail(c) ==
  /\ publication[c] = "iterating" /\ c \in cancelled
  /\ publication' = [publication EXCEPT ![c] = "failed"]
  /\ passed' = [passed EXCEPT ![c] = {}]
  /\ UNCHANGED <<found, cancelled, subscriptionVars, shutdownVars>>

OfferedToAll(c) ==
  /\ publication[c] = "iterating"
  /\ \A s \in Subs : ~ Offered(c, s)
  /\ publication' = [publication EXCEPT ![c] = "closing"]
  /\ UNCHANGED <<found, passed, cancelled, subscriptionVars, shutdownVars>>

\* Whoever was found has the comment or is closed, and so can tell.
Return(c) ==
  /\ publication[c] = "closing"
  /\ passed[c] \subseteq closed
  /\ publication' = [publication EXCEPT ![c] = "returned"]
  /\ UNCHANGED <<found, passed, cancelled, subscriptionVars, shutdownVars>>

(***************************************************************************)
(* Subscribers.                                                            *)
(***************************************************************************)
Subscribe(s, p) ==
  /\ s \notin closed /\ \A q \in Posts : s \notin members[q]
  /\ members' = [members EXCEPT ![p] = @ \cup {s}]
  /\ UNCHANGED <<publicationVars, closed, stream, read, left, shutdownVars>>

\* The next comment, in the order they were sent, also from a closed stream
Take(s) ==
  /\ read[s] < Len(stream[s])
  /\ read' = [read EXCEPT ![s] = @ + 1]
  /\ UNCHANGED <<publicationVars, members, closed, stream, left, shutdownVars>>

Leave(s) ==
  /\ left' = left \cup {s}
  /\ UNCHANGED <<publicationVars, members, closed, stream, read, shutdownVars>>

Reason(s) ==
  \/ s \in left
  \/ \E c \in Comments : publication[c] = "closing" /\ s \in passed[c]
  \/ shutdown = "closing" /\ s \in toClose

\* A stream that is closed is never opened again, and nothing is sent to it.
Close(s) ==
  /\ Reason(s)
  /\ \E p \in Posts : s \in members[p]
  /\ members' = [p \in Posts |-> members[p] \ {s}]
  /\ closed' = closed \cup {s}
  /\ UNCHANGED <<publicationVars, stream, read, left, shutdownVars>>

(***************************************************************************)
(* Shutdown.                                                               *)
(***************************************************************************)
ShutdownBegin ==
  /\ shutdown = "idle"
  /\ shutdown' = "closing"
  /\ toClose' = UNION {members[p] : p \in Posts}
  /\ UNCHANGED <<publicationVars, subscriptionVars>>

ShutdownReturn ==
  /\ shutdown = "closing"
  /\ toClose \subseteq closed
  /\ shutdown' = "done"
  /\ UNCHANGED <<publicationVars, subscriptionVars, toClose>>

Next ==
  \/ \E c \in Comments : \/ Cancel(c)
                         \/ Begin(c)
                         \/ \E s \in Subs : Send(c, s) \/ Pass(c, s)
                         \/ Fail(c)
                         \/ OfferedToAll(c)
                         \/ Return(c)
  \/ \E s \in Subs : Take(s) \/ Leave(s) \/ Close(s)
  \/ \E s \in Subs, p \in Posts : Subscribe(s, p)
  \/ ShutdownBegin
  \/ ShutdownReturn

Spec == Init /\ [][Next]_contractVars
==============================================================================
