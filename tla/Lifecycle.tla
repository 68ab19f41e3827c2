------------------------------ MODULE Lifecycle ------------------------------
(***************************************************************************)
(* The end of the process (cmd/api/main.go:73-90, internal/server/http.go) *)
(* while it serves: the signal, Shutdown of the broker, Shutdown of the    *)
(* HTTP server with its deadline, and the close of the PostgreSQL pool,    *)
(* against requests that add comments and clients that subscribe.          *)
(*                                                                         *)
(* The request that adds a comment is named by the comment, as its         *)
(* publication is.  It comes in a POST, or over a WebSocket that was opened *)
(* before the signal: net/http knows nothing of a connection that has been *)
(* taken over, so its Shutdown neither closes it nor waits for it.         *)
(*                                                                         *)
(* A request has a connection of the pool during each of its two calls of  *)
(* a repository, and none before, between and after them.                  *)
(***************************************************************************)
EXTENDS Broker

CONSTANTS
  Posted,     \* comments added by a POST, the others over a WebSocket
  Postgres    \* the process has a connection pool to close

ASSUME PostedAreComments == Posted \subseteq Comments
ASSUME PostgresIsBoolean == Postgres \in BOOLEAN

VARIABLES
  process,    \* where main is
  request     \* where each request is

lifecycleVars == <<process, request>>
allVars == <<vars, lifecycleVars>>

LifecycleTypeOK ==
  /\ TypeOK
  /\ process \in {"serving", "signalled", "draining", "closing", "stopped", "killed"}
  /\ request \in [Comments -> {"none", "arrived", "lookingUp", "checked", "storing",
                              "publishing", "answered"}]

LifecycleInit ==
  /\ Init
  /\ process = "serving"
  /\ request = [c \in Comments |-> "none"]

Runs == process \notin {"stopped", "killed"}

\* net/http still has connections: those it has accepted stay until it finds them
\* idle, and a fresh one may bring its first request while the others are drained.
HasConnections == process \in {"serving", "signalled", "draining"}

\* pool.Close refuses those who ask for a connection from its beginning on.
PoolIsOpen == Postgres => process # "closing"

HoldsConnection(c) == Postgres /\ request[c] \in {"lookingUp", "storing"}

(***************************************************************************)
(* A request that adds a comment.                                          *)
(***************************************************************************)
Goes(c, from, to) ==
  /\ Runs /\ request[c] = from
  /\ request' = [request EXCEPT ![c] = to]
  /\ UNCHANGED <<vars, process>>

Accept(c) ==
  /\ c \in Posted => HasConnections
  /\ Goes(c, "none", "arrived")

\* GetByID of the post, which takes a connection and gives it back
BeginLookUp(c) == PoolIsOpen /\ Goes(c, "arrived", "lookingUp")
EndLookUp(c) == \E to \in {"checked", "answered"} : Goes(c, "lookingUp", to)

\* Create of the comment, one statement or one transaction on one connection
BeginStore(c) == PoolIsOpen /\ Goes(c, "checked", "storing")
EndStore(c) == \E to \in {"publishing", "answered"} : Goes(c, "storing", to)

\* A call that finds the pool closed returns an error.
FindPoolClosed(c) ==
  /\ ~ PoolIsOpen
  /\ \E from \in {"arrived", "checked"} : Goes(c, from, "answered")

Publish(c) ==
  /\ Runs /\ request[c] = "publishing"
  /\ PublishBegin(c)
  /\ UNCHANGED lifecycleVars

\* Seeded fault: nobody waits for the publication that has been begun.
AnswerAtOnce(c) ==
  /\ publisher[c] # "idle"
  /\ Goes(c, "publishing", "answered")

Answer(c) ==
  /\ publisher[c] \in {"returned", "failed"}
  /\ Goes(c, "publishing", "answered")

\* A client with a WebSocket subscribes, also while the process is going down.
SubscribeOver(s, p) ==
  /\ Runs
  /\ SubscribeToPostComments(s, p)
  /\ UNCHANGED lifecycleVars

(***************************************************************************)
(* main.                                                                   *)
(***************************************************************************)
Signal ==
  /\ process = "serving"
  /\ process' = "signalled"
  /\ UNCHANGED <<vars, request>>

ShutdownBroker ==
  /\ process = "signalled"
  /\ ShutdownBegin
  /\ UNCHANGED lifecycleVars

\* Seeded fault: the server is shut down while the broker still is.
ShutdownServerAtOnce ==
  /\ process = "signalled" /\ shutdown # "idle"
  /\ process' = "draining"
  /\ UNCHANGED <<vars, request>>

ShutdownServer ==
  /\ process = "signalled" /\ shutdown = "done"
  /\ process' = "draining"
  /\ UNCHANGED <<vars, request>>

\* Every connection that net/http knows is idle.
ServerDrained ==
  /\ process = "draining"
  /\ \A c \in Posted : request[c] \in {"none", "answered"}
  /\ process' = "closing"
  /\ UNCHANGED <<vars, request>>

\* The five seconds are over: log.Fatalf, which runs no deferred call.
DrainTimesOut ==
  /\ process = "draining"
  /\ process' = "killed"
  /\ UNCHANGED <<vars, request>>

\* main returns through pool.Close, which waits for the connections that are in use.
Exit ==
  /\ process = "closing"
  /\ \A c \in Comments : ~ HoldsConnection(c)
  /\ process' = "stopped"
  /\ UNCHANGED <<vars, request>>

BrokerProceeds ==
  /\ Runs
  /\ \/ \E c \in Comments : PublisherStep(c)
     \/ \E s \in Subs : \/ RunCloser(s)
                        \/ WatcherWakes(s)
                        \/ WatcherEnds(s)
                        \/ UnsubscribeReturns(s)
     \/ ShutdownStep
  /\ UNCHANGED lifecycleVars

ClientsOfBroker ==
  /\ Runs
  /\ \/ \E c \in Comments : CancelPublish(c)
     \/ \E s \in Subs : CancelSubscription(s) \/ Receive(s) \/ Unsubscribe(s)
  /\ UNCHANGED lifecycleVars

RequestStep(c) ==
  \/ BeginLookUp(c) \/ EndLookUp(c)
  \/ BeginStore(c) \/ EndStore(c)
  \/ FindPoolClosed(c)
  \/ Publish(c) \/ Answer(c)

\* The steps the process takes by itself, and those of its clients and its owner
Progress ==
  \/ \E c \in Comments : RequestStep(c)
  \/ BrokerProceeds
  \/ ShutdownBroker
  \/ ShutdownServer
  \/ ServerDrained
  \/ DrainTimesOut
  \/ Exit

Demands ==
  \/ \E c \in Comments : Accept(c)
  \/ \E s \in Subs, p \in Posts : SubscribeOver(s, p)
  \/ ClientsOfBroker
  \/ Signal

LifecycleNext == Progress \/ Demands

LifecycleSpec == LifecycleInit /\ [][LifecycleNext]_allVars

(***************************************************************************)
(* Properties.                                                             *)
(***************************************************************************)

\* Whoever Shutdown of the broker finds is told so: its channel is closed before
\* httpServer.Shutdown is called, which is before anything can kill the process
\* (main.go:80 and :85), also if a publisher, the watcher or the client was closing
\* it at the time.
SubscribersAreToldFirst ==
  process \notin {"serving", "signalled"} => \A s \in shutTargets : chanState[s] = "closed"

\* Create has returned without an error: the publication is due, under way or over.
Stored(c) == request[c] = "publishing" \/ publisher[c] # "idle"

\* When main returns, no POST leaves a comment behind that it has stored and whose
\* publication is not over, although POSTs may begin after the signal and main knows
\* of no publication: the drain waits for the handler, and the handler for the broker
\* (main.go:85, comment_service.go:91-97).  A request over a WebSocket may leave one,
\* since nobody waits for it behind its call of the repository.
PostsArePublished ==
  process = "stopped" =>
    \A c \in Posted : Stored(c) => publisher[c] \in {"returned", "failed"}

\* From the signal on, something can always be done without a client's help until
\* the process has ended.  No step of the model can be taken for ever, so a process
\* that is scheduled ends: neither a publisher nor a closer nor a client that does
\* not read can keep main in Shutdown of the broker, which has no deadline.
SignalIsNeverStuck ==
  process \in {"signalled", "draining", "closing"} => ENABLED Progress
==============================================================================
