-------------------------- MODULE CommentPageLoader --------------------------
(***************************************************************************)
(* The loader of comment pages (internal/graph/comment_loader.go).  The    *)
(* resolvers of one operation call Load concurrently; the loader collects  *)
(* their requests, a dispatcher goroutine takes all of them after a delay, *)
(* reads the pages in one call of the comment service and hands every load *)
(* its answer.  A loader belongs to one operation (handler.go:65), and all *)
(* its loads share the operation's context.                                *)
(*                                                                         *)
(* A dispatcher is named by the load that started it.  The page of a       *)
(* request is named by the load that made the request; what is in a page   *)
(* is the matter of MemoryStore.                                           *)
(***************************************************************************)
EXTENDS Naturals, Sequences, FiniteSets, SequencesExt

CONSTANTS
  Loads,      \* calls of Load
  Refused     \* loads whose request the repository refuses, and with it every
              \* call that contains it: PostgreSQL, given a cursor whose id is
              \* no UUID

ASSUME RefusedAreLoads == Refused \subseteq Loads
ASSUME NoLoadIsAnOutcome == Loads \cap {"empty", "none", "error", "cancelled"} = {}

VARIABLES
  pending,     \* loads waiting to be dispatched
  scheduled,   \* a dispatcher has been started and has not yet taken its batch
  load,        \* where each call of Load is
  response,    \* the channel of each load, of capacity one
  result,      \* what each call of Load has returned
  dispatcher,  \* where each dispatcher is
  batch,       \* the loads it has taken
  pages,       \* the pages read so far, in the order of the batch
  failed,      \* the call of the service has returned an error
  answered,    \* how many loads of the batch the last loop has passed
  ctxDone      \* the context of the operation has ended

loadVars == <<load, result>>
dispatcherVars == <<dispatcher, batch, pages, failed, answered>>
vars == <<pending, scheduled, loadVars, response, dispatcherVars, ctxDone>>

Answers == Loads \cup {"error"}

TypeOK ==
  /\ pending \in Seq(Loads)
  /\ scheduled \in BOOLEAN
  /\ load \in [Loads -> {"idle", "waiting", "returned"}]
  /\ response \in [Loads -> {"empty"} \cup Answers]
  /\ result \in [Loads -> {"none", "cancelled"} \cup Answers]
  /\ dispatcher \in [Loads -> {"none", "delaying", "reading", "answering", "ended"}]
  /\ batch \in [Loads -> Seq(Loads)]
  /\ pages \in [Loads -> Seq(Loads)]
  /\ failed \in [Loads -> BOOLEAN]
  /\ answered \in [Loads -> Nat]
  /\ ctxDone \in BOOLEAN

Init ==
  /\ pending = <<>>
  /\ scheduled = FALSE
  /\ load = [l \in Loads |-> "idle"]
  /\ response = [l \in Loads |-> "empty"]
  /\ result = [l \in Loads |-> "none"]
  /\ dispatcher = [l \in Loads |-> "none"]
  /\ batch = [l \in Loads |-> <<>>]
  /\ pages = [l \in Loads |-> <<>>]
  /\ failed = [l \in Loads |-> FALSE]
  /\ answered = [l \in Loads |-> 0]
  /\ ctxDone = FALSE

(***************************************************************************)
(* Load.                                                                   *)
(***************************************************************************)

\* The section under the mutex
Load(l) ==
  /\ load[l] = "idle"
  /\ load' = [load EXCEPT ![l] = "waiting"]
  /\ pending' = Append(pending, l)
  /\ scheduled' = TRUE
  /\ dispatcher' = IF scheduled THEN dispatcher ELSE [dispatcher EXCEPT ![l] = "delaying"]
  /\ UNCHANGED <<response, result, batch, pages, failed, answered, ctxDone>>

\* The select: either case may be taken when both are ready.
LoadReceives(l) ==
  /\ load[l] = "waiting" /\ response[l] # "empty"
  /\ load' = [load EXCEPT ![l] = "returned"]
  /\ result' = [result EXCEPT ![l] = response[l]]
  /\ response' = [response EXCEPT ![l] = "empty"]
  /\ UNCHANGED <<pending, scheduled, dispatcherVars, ctxDone>>

LoadGivesUp(l) ==
  /\ load[l] = "waiting" /\ ctxDone
  /\ load' = [load EXCEPT ![l] = "returned"]
  /\ result' = [result EXCEPT ![l] = "cancelled"]
  /\ UNCHANGED <<pending, scheduled, response, dispatcherVars, ctxDone>>

(***************************************************************************)
(* dispatch.                                                               *)
(***************************************************************************)

\* Seeded faults: the flag is not taken back; loads that came during the delay
\* are thrown away.
TakeBatchKeepScheduled(d) ==
  /\ dispatcher[d] = "delaying"
  /\ batch' = [batch EXCEPT ![d] = pending]
  /\ pending' = <<>>
  /\ dispatcher' = [dispatcher EXCEPT ![d] = "reading"]
  /\ UNCHANGED <<scheduled, loadVars, response, pages, failed, answered, ctxDone>>

TakeBatchOfOne(d) ==
  /\ dispatcher[d] = "delaying"
  /\ batch' = [batch EXCEPT ![d] = <<Head(pending)>>]
  /\ pending' = <<>>
  /\ scheduled' = FALSE
  /\ dispatcher' = [dispatcher EXCEPT ![d] = "reading"]
  /\ UNCHANGED <<loadVars, response, pages, failed, answered, ctxDone>>

\* The delay is over, or the context is: take what is pending.
TakeBatch(d) ==
  /\ dispatcher[d] = "delaying"
  /\ batch' = [batch EXCEPT ![d] = pending]
  /\ pending' = <<>>
  /\ scheduled' = FALSE
  /\ dispatcher' = [dispatcher EXCEPT ![d] = IF pending = <<>> THEN "ended" ELSE "reading"]
  /\ UNCHANGED <<loadVars, response, pages, failed, answered, ctxDone>>

\* ListCommentPagesForExistingPosts over the in-memory repository: pages are read
\* one by one, each in a critical section of its own.
ReadNextPage(d) ==
  /\ dispatcher[d] = "reading"
  /\ Len(pages[d]) < Len(batch[d])
  /\ ToSet(batch[d]) \cap Refused = {}
  /\ ~ ctxDone
  /\ pages' = [pages EXCEPT ![d] = Append(@, batch[d][Len(@) + 1])]
  /\ UNCHANGED <<pending, scheduled, loadVars, response, dispatcher, batch, failed, answered, ctxDone>>

\* One bad request, or the end of the context, and there are no pages at all.
ReadingFails(d) ==
  /\ dispatcher[d] = "reading"
  /\ Len(pages[d]) < Len(batch[d])
  /\ ToSet(batch[d]) \cap Refused # {} \/ ctxDone
  /\ failed' = [failed EXCEPT ![d] = TRUE]
  /\ pages' = [pages EXCEPT ![d] = <<>>]
  /\ dispatcher' = [dispatcher EXCEPT ![d] = "answering"]
  /\ UNCHANGED <<pending, scheduled, loadVars, response, batch, answered, ctxDone>>

ReadingEnds(d) ==
  /\ dispatcher[d] = "reading"
  /\ Len(pages[d]) = Len(batch[d])
  /\ dispatcher' = [dispatcher EXCEPT ![d] = "answering"]
  /\ UNCHANGED <<pending, scheduled, loadVars, response, batch, pages, failed, answered, ctxDone>>

\* Seeded faults: every load is answered with the last page; the channel has no
\* buffer and the send no default.
AnswerNextWithLast(d) ==
  /\ dispatcher[d] = "answering" /\ answered[d] < Len(batch[d])
  /\ response' = [response EXCEPT ![batch[d][answered[d] + 1]] =
                    IF failed[d] THEN "error" ELSE Last(pages[d])]
  /\ answered' = [answered EXCEPT ![d] = @ + 1]
  /\ UNCHANGED <<pending, scheduled, loadVars, dispatcher, batch, pages, failed, ctxDone>>

AnswerNextWhoWaits(d) ==
  /\ dispatcher[d] = "answering" /\ answered[d] < Len(batch[d])
  /\ load[batch[d][answered[d] + 1]] = "waiting"
  /\ response' = [response EXCEPT ![batch[d][answered[d] + 1]] =
                    IF failed[d] THEN "error" ELSE pages[d][answered[d] + 1]]
  /\ answered' = [answered EXCEPT ![d] = @ + 1]
  /\ UNCHANGED <<pending, scheduled, loadVars, dispatcher, batch, pages, failed, ctxDone>>

\* One round of the loop over the batch; a full channel is left as it is.
AnswerNext(d) ==
  /\ dispatcher[d] = "answering" /\ answered[d] < Len(batch[d])
  /\ LET index == answered[d] + 1
         value == IF failed[d] THEN "error" ELSE pages[d][index]
     IN  /\ response' = [response EXCEPT ![batch[d][index]] = IF @ = "empty" THEN value ELSE @]
         /\ answered' = [answered EXCEPT ![d] = index]
  /\ UNCHANGED <<pending, scheduled, loadVars, dispatcher, batch, pages, failed, ctxDone>>

DispatchEnds(d) ==
  /\ dispatcher[d] = "answering" /\ answered[d] = Len(batch[d])
  /\ dispatcher' = [dispatcher EXCEPT ![d] = "ended"]
  /\ UNCHANGED <<pending, scheduled, loadVars, response, batch, pages, failed, answered, ctxDone>>

\* The client goes away, or the server gives up on the request.
EndContext ==
  /\ ~ ctxDone
  /\ ctxDone' = TRUE
  /\ UNCHANGED <<pending, scheduled, loadVars, response, dispatcherVars>>

DispatcherStep(d) ==
  \/ TakeBatch(d)
  \/ ReadNextPage(d)
  \/ ReadingFails(d)
  \/ ReadingEnds(d)
  \/ AnswerNext(d)
  \/ DispatchEnds(d)

Next ==
  \/ \E l \in Loads : \/ Load(l)
                      \/ LoadReceives(l)
                      \/ LoadGivesUp(l)
                      \/ DispatcherStep(l)
  \/ EndContext

Spec == Init /\ [][Next]_vars

(***************************************************************************)
(* Properties.                                                             *)
(***************************************************************************)

\* Where load l is on its way to an answer
PendingPlaces(l) == {i \in 1..Len(pending) : pending[i] = l}
BatchPlaces(l) ==
  UNION {{<<d, i>> : i \in {j \in answered[d] + 1 .. Len(batch[d]) : batch[d][j] = l}} :
           d \in {e \in Loads : dispatcher[e] \in {"reading", "answering"}}}
Arrived(l) == response[l] # "empty" \/ result[l] \in Answers

\* A load that was called is in exactly one place, once: pending, ahead of the
\* loop of one dispatcher, or answered.  None falls between two batches, none is
\* in two, and none is dropped because its caller has given up (the section of
\* dispatch, 112-116, against that of Load, 82-91).
NoLoadLostOrDoubled ==
  \A l \in Loads :
    Cardinality(PendingPlaces(l)) + Cardinality(BatchPlaces(l)) + (IF Arrived(l) THEN 1 ELSE 0)
      = (IF load[l] = "idle" THEN 0 ELSE 1)

\* The flag is set exactly while one dispatcher is about to take a batch, and
\* there is something for it to take: whoever is pending will be dispatched, and
\* the test for an empty batch (118) never succeeds.
SomebodyWillDispatch ==
  /\ scheduled = (pending # <<>>)
  /\ Cardinality({d \in Loads : dispatcher[d] = "delaying"}) = (IF scheduled THEN 1 ELSE 0)

\* A load that returns a page returns its own, however loads were batched.  It
\* returns the error of a batch only if the context has ended or the batch it
\* was in, and no other, holds a request that is refused.
AnsweredWithOwnPage ==
  \A l \in Loads :
    /\ result[l] \in Loads => result[l] = l
    /\ result[l] = "error" =>
         \/ ctxDone
         \/ \E d \in Loads : l \in ToSet(batch[d]) /\ ToSet(batch[d]) \cap Refused # {}

\* No dispatcher stays behind, also when the loads of its batch have all given up.
EveryDispatcherEnds == <>[](\A d \in Loads : dispatcher[d] \in {"none", "ended"})
==============================================================================
