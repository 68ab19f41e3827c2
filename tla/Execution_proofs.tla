--------------------------- MODULE Execution_proofs ---------------------------
(***************************************************************************)
(* Proofs about the loader of comment pages, for any number of loads, and  *)
(* about the execution of any operation over it: that every load is        *)
(* answered once, that a response has nulls where the schema and the       *)
(* errors put them and nowhere else, when pages are read, and that an      *)
(* operation never waits for itself.                                       *)
(***************************************************************************)
EXTENDS Execution, SequenceTheorems, FiniteSetTheorems, TLAPS

(***************************************************************************)
(* Type correctness of the loader.                                         *)
(***************************************************************************)

\* A dispatcher reads the pages of its batch in order, and answers with all of
\* them or with an error.
PagesInv ==
  \A d \in Loads :
    /\ Len(pages[d]) <= Len(batch[d])
    /\ \A i \in 1..Len(pages[d]) : pages[d][i] = batch[d][i]
    /\ dispatcher[d] = "answering" /\ ~ failed[d] => Len(pages[d]) = Len(batch[d])
    /\ dispatcher[d] \in {"none", "delaying"} => pages[d] = <<>>
    /\ load[d] = "idle" => dispatcher[d] = "none"

LEMMA LoaderInductive ==
  /\ Init => TypeOK /\ PagesInv
  /\ TypeOK /\ PagesInv /\ [Next]_vars => TypeOK' /\ PagesInv'
<1>1. ASSUME Init PROVE TypeOK /\ PagesInv
  <2>1. <<>> \in Seq(Loads) /\ Len(<<>>) = 0 /\ 0 \in Nat
    BY EmptySeq
  <2>2. TypeOK
    BY <1>1, <2>1 DEF Init, TypeOK
  <2>3. PagesInv
    BY <1>1, <2>1 DEF Init, PagesInv
  <2> QED BY <2>2, <2>3
<1>2. ASSUME TypeOK, PagesInv, [Next]_vars PROVE TypeOK' /\ PagesInv'
  <2> USE <1>2
  <2>1. ASSUME UNCHANGED <<batch, pages, failed>>,
               \A d \in Loads : /\ dispatcher'[d] \in {"none", "delaying"} =>
                                     dispatcher[d] \in {"none", "delaying"}
                                /\ load'[d] = "idle" =>
                                     load[d] = "idle" /\ dispatcher'[d] = dispatcher[d]
                                /\ dispatcher'[d] = "answering" =>
                                     \/ dispatcher[d] = "answering"
                                     \/ Len(pages[d]) = Len(batch[d])
        PROVE  PagesInv'
    BY <2>1 DEF PagesInv
  <2>2. ASSUME NEW l \in Loads, Load(l) PROVE TypeOK' /\ PagesInv'
    <3>1. TypeOK'
      BY <2>2, AppendProperties DEF TypeOK, Load
    <3> QED BY <2>1, <2>2, <3>1 DEF TypeOK, Load, PagesInv
  <2>3. ASSUME NEW l \in Loads, LoadReceives(l) \/ LoadGivesUp(l) PROVE TypeOK' /\ PagesInv'
    <3>1. TypeOK'
      BY <2>3 DEF TypeOK, LoadReceives, LoadGivesUp, Answers, dispatcherVars
    <3> QED BY <2>1, <2>3, <3>1 DEF LoadReceives, LoadGivesUp, TypeOK, dispatcherVars
  <2>4. ASSUME NEW d \in Loads, TakeBatch(d) PROVE TypeOK' /\ PagesInv'
    <3>1. TypeOK'
      BY <2>4, EmptySeq DEF TypeOK, TakeBatch, loadVars
    <3>2. /\ \A e \in Loads : e # d => batch'[e] = batch[e] /\ dispatcher'[e] = dispatcher[e]
          /\ dispatcher'[d] \in {"reading", "ended"} /\ batch'[d] \in Seq(Loads)
          /\ UNCHANGED <<pages, failed, load>> /\ pages[d] = <<>> /\ load[d] # "idle"
      BY <2>4 DEF TypeOK, TakeBatch, PagesInv, loadVars
    <3>3. Len(pages[d]) = 0 /\ Len(batch'[d]) \in Nat
      BY <3>2, EmptySeq
    <3> QED BY <3>1, <3>2, <3>3 DEF PagesInv
  <2>5. ASSUME NEW d \in Loads, ReadNextPage(d) PROVE TypeOK' /\ PagesInv'
    <3> DEFINE next == batch[d][Len(pages[d]) + 1]
    <3>1. /\ batch[d] \in Seq(Loads) /\ pages[d] \in Seq(Loads)
          /\ Len(pages[d]) < Len(batch[d])
      BY <2>5 DEF TypeOK, ReadNextPage
    <3>2. next \in Loads
      <4>1. Len(pages[d]) + 1 \in 1..Len(batch[d])
        BY <3>1
      <4> QED BY <3>1, <4>1
    <3>3. /\ Append(pages[d], next) \in Seq(Loads)
          /\ Len(Append(pages[d], next)) = Len(pages[d]) + 1
          /\ \A i \in 1..Len(pages[d]) : Append(pages[d], next)[i] = pages[d][i]
          /\ Append(pages[d], next)[Len(pages[d]) + 1] = next
      BY <3>1, <3>2, AppendProperties
    <3>4. /\ \A e \in Loads : pages'[e] = IF e = d THEN Append(pages[d], next) ELSE pages[e]
          /\ UNCHANGED <<batch, dispatcher, failed, load>> /\ dispatcher[d] = "reading"
      BY <2>5 DEF TypeOK, ReadNextPage, loadVars
    <3>5. TypeOK'
      BY <2>5, <3>3 DEF TypeOK, ReadNextPage, loadVars
    <3>6. \A i \in 1..Len(pages[d]) + 1 : Append(pages[d], next)[i] = batch[d][i]
      <4>1. \A i \in 1..Len(pages[d]) + 1 : i \in 1..Len(pages[d]) \/ i = Len(pages[d]) + 1
        BY <3>1
      <4> QED BY <3>3, <4>1 DEF PagesInv
    <3> DEFINE read == Append(pages[d], next)
    <3>8. /\ Len(read) <= Len(batch[d]) /\ \A i \in 1..Len(read) : read[i] = batch[d][i]
          /\ \A e \in Loads : pages'[e] = IF e = d THEN read ELSE pages[e]
      BY <3>1, <3>3, <3>4, <3>6
    <3> HIDE DEF next, read
    <3>7. PagesInv'
      BY <3>4, <3>8 DEF PagesInv
    <3> QED BY <3>5, <3>7
  <2>6. ASSUME NEW d \in Loads, ReadingFails(d) PROVE TypeOK' /\ PagesInv'
    <3>1. TypeOK'
      BY <2>6, EmptySeq DEF TypeOK, ReadingFails, loadVars
    <3>2. /\ \A e \in Loads : /\ pages'[e] = IF e = d THEN <<>> ELSE pages[e]
                              /\ dispatcher'[e] = IF e = d THEN "answering" ELSE dispatcher[e]
                              /\ failed'[e] = IF e = d THEN TRUE ELSE failed[e]
          /\ UNCHANGED <<batch, load>> /\ batch[d] \in Seq(Loads) /\ load[d] # "idle"
      BY <2>6 DEF TypeOK, ReadingFails, PagesInv, loadVars
    <3>3. Len(<<>>) = 0 /\ Len(batch[d]) \in Nat
      BY <3>2, EmptySeq
    <3>4. ASSUME NEW e \in Loads
          PROVE  /\ Len(pages'[e]) <= Len(batch'[e])
                 /\ \A i \in 1..Len(pages'[e]) : pages'[e][i] = batch'[e][i]
                 /\ dispatcher'[e] = "answering" /\ ~ failed'[e] => Len(pages'[e]) = Len(batch'[e])
                 /\ dispatcher'[e] \in {"none", "delaying"} => pages'[e] = <<>>
                 /\ load'[e] = "idle" => dispatcher'[e] = "none"
      <4>1. CASE e = d
        <5>1. /\ pages'[e] = <<>> /\ batch'[e] = batch[d] /\ failed'[e]
              /\ dispatcher'[e] = "answering" /\ load'[e] # "idle"
          BY <3>2, <4>1
        <5>2. Len(pages'[e]) = 0
          BY <3>3, <5>1
        <5>3. \A i \in 1..Len(pages'[e]) : FALSE
          BY <5>2
        <5> QED BY <3>3, <5>1, <5>2, <5>3
      <4>2. CASE e # d
        <5>1. /\ pages'[e] = pages[e] /\ batch'[e] = batch[e] /\ failed'[e] = failed[e]
              /\ dispatcher'[e] = dispatcher[e] /\ load'[e] = load[e]
          BY <3>2, <4>2
        <5> QED BY <5>1 DEF PagesInv
      <4> QED BY <4>1, <4>2
    <3> QED BY <3>1, <3>4 DEF PagesInv
  <2>7. ASSUME NEW d \in Loads, ReadingEnds(d) \/ DispatchEnds(d) PROVE TypeOK' /\ PagesInv'
    <3>1. /\ \/ dispatcher' = [dispatcher EXCEPT ![d] = "answering"] /\ dispatcher[d] = "reading"
             \/ dispatcher' = [dispatcher EXCEPT ![d] = "ended"] /\ dispatcher[d] = "answering"
          /\ dispatcher[d] = "reading" => Len(pages[d]) = Len(batch[d])
          /\ UNCHANGED <<pending, scheduled, load, result, response, batch, pages, failed,
                         answered, ctxDone>>
      BY <2>7 DEF ReadingEnds, DispatchEnds, loadVars
    <3>2. TypeOK'
      <4>1. dispatcher' \in [Loads -> {"none", "delaying", "reading", "answering", "ended"}]
        BY <3>1 DEF TypeOK
      <4> QED BY <3>1, <4>1 DEF TypeOK
    <3>3. /\ \A e \in Loads : e # d => dispatcher'[e] = dispatcher[e]
          /\ \/ dispatcher[d] = "reading" /\ dispatcher'[d] = "answering"
             \/ dispatcher'[d] = "ended"
          /\ load[d] # "idle"
      BY <3>1 DEF TypeOK, PagesInv
    <3> QED BY <2>1, <3>1, <3>2, <3>3
  <2>8. ASSUME NEW d \in Loads, AnswerNext(d) PROVE TypeOK' /\ PagesInv'
    <3> DEFINE index == answered[d] + 1
    <3>1. /\ index \in 1..Len(batch[d]) /\ batch[d] \in Seq(Loads)
          /\ ~ failed[d] => index \in 1..Len(pages[d]) /\ pages[d] \in Seq(Loads)
      BY <2>8 DEF TypeOK, AnswerNext, PagesInv
    <3>2. batch[d][index] \in Loads /\ (~ failed[d] => pages[d][index] \in Loads)
      BY <3>1
    <3>4. /\ response' \in [Loads -> {"empty"} \cup Answers]
          /\ answered' \in [Loads -> Nat]
      <4>1. (IF failed[d] THEN "error" ELSE pages[d][index]) \in Answers
        BY <3>2 DEF Answers
      <4>2. PICK v \in {"empty"} \cup Answers : response' = [response EXCEPT ![batch[d][index]] = v]
        BY <2>8, <3>2, <4>1 DEF AnswerNext, TypeOK
      <4>3. response \in [Loads -> {"empty"} \cup Answers] /\ answered \in [Loads -> Nat]
        BY DEF TypeOK
      <4>4. answered' = [answered EXCEPT ![d] = answered[d] + 1]
        BY <2>8 DEF AnswerNext
      <4>5. answered' \in [Loads -> Nat]
        BY <4>3, <4>4
      <4>6. response' \in [Loads -> {"empty"} \cup Answers]
        BY <4>2, <4>3
      <4> QED BY <4>5, <4>6
    <3>3. TypeOK'
      BY <2>8, <3>4 DEF TypeOK, AnswerNext, loadVars
    <3> QED BY <2>1, <2>8, <3>3 DEF AnswerNext, loadVars
  <2>9. ASSUME EndContext \/ UNCHANGED vars PROVE TypeOK' /\ PagesInv'
    <3>1. TypeOK'
      BY <2>9 DEF TypeOK, EndContext, vars, loadVars, dispatcherVars
    <3> QED BY <2>1, <2>9, <3>1 DEF EndContext, vars, loadVars, dispatcherVars
  <2> QED BY <2>2, <2>3, <2>4, <2>5, <2>6, <2>7, <2>8, <2>9 DEF Next, DispatcherStep
<1> QED BY <1>1, <1>2

(***************************************************************************)
(* Whose page it is.                                                       *)
(***************************************************************************)

\* The error of a batch has a reason, as AnsweredWithOwnPage states it.
Excused(l) ==
  \/ ctxDone
  \/ \E d \in Loads : l \in ToSet(batch[d]) /\ ToSet(batch[d]) \cap Refused # {}

AnswerInv ==
  /\ \A d \in Loads : /\ dispatcher[d] \in {"none", "delaying"} => batch[d] = <<>>
                      /\ failed[d] => ctxDone \/ ToSet(batch[d]) \cap Refused # {}
  /\ \A l \in Loads : /\ response[l] \in Loads => response[l] = l
                      /\ result[l] \in Loads => result[l] = l
                      /\ response[l] = "error" \/ result[l] = "error" => Excused(l)

LEMMA AnswerInductive ==
  /\ Init => AnswerInv
  /\ TypeOK /\ PagesInv /\ AnswerInv /\ [Next]_vars => AnswerInv'
<1> USE NoLoadIsAnOutcome
<1>1. Init => AnswerInv
  BY DEF Init, AnswerInv
<1>2. ASSUME TypeOK, PagesInv, AnswerInv, [Next]_vars PROVE AnswerInv'
  <2> USE <1>2
  <2>1. ASSUME UNCHANGED <<batch, failed>>, ctxDone => ctxDone',
               \A d \in Loads :
                 /\ dispatcher'[d] \in {"none", "delaying"} =>
                      dispatcher[d] \in {"none", "delaying"} \/ load[d] = "idle",
               \A l \in Loads : /\ response'[l] \in {response[l], "empty"}
                                /\ result'[l] \in {response[l], result[l], "cancelled"}
        PROVE  AnswerInv'
    <3>1. \A l \in Loads : Excused(l) => Excused(l)'
      BY <2>1 DEF Excused
    <3>2. \A l \in Loads : "empty" \notin Loads /\ "cancelled" \notin Loads
      OBVIOUS
    <3> QED BY <2>1, <3>1, <3>2 DEF AnswerInv, PagesInv
  <2>2. ASSUME NEW l \in Loads, Load(l) PROVE AnswerInv'
    BY <2>1, <2>2 DEF Load, TypeOK, PagesInv
  <2>3. ASSUME NEW l \in Loads, LoadReceives(l) \/ LoadGivesUp(l) PROVE AnswerInv'
    BY <2>1, <2>3 DEF LoadReceives, LoadGivesUp, TypeOK, dispatcherVars
  <2>4. ASSUME NEW d \in Loads, TakeBatch(d) PROVE AnswerInv'
    <3>1. /\ \A e \in Loads : e # d => batch'[e] = batch[e] /\ dispatcher'[e] = dispatcher[e]
          /\ dispatcher'[d] \in {"reading", "ended"} /\ batch[d] = <<>> /\ load[d] # "idle"
          /\ UNCHANGED <<load, response, result, failed, ctxDone>>
      BY <2>4 DEF TakeBatch, TypeOK, AnswerInv, PagesInv, loadVars
    <3>2. ToSet(batch[d]) = {}
      BY <3>1, EmptySeq DEF ToSet
    <3>3. \A l \in Loads : Excused(l) => Excused(l)'
      BY <3>1, <3>2 DEF Excused
    <3>4. failed[d] => ctxDone
      BY <3>2 DEF AnswerInv
    <3> QED BY <3>1, <3>3, <3>4 DEF AnswerInv
  <2>5. ASSUME NEW d \in Loads, ReadNextPage(d) \/ ReadingEnds(d) \/ DispatchEnds(d)
        PROVE  AnswerInv'
    BY <2>1, <2>5 DEF ReadNextPage, ReadingEnds, DispatchEnds, TypeOK, AnswerInv, loadVars
  <2>6. ASSUME NEW d \in Loads, ReadingFails(d) PROVE AnswerInv'
    <3>1. /\ \A e \in Loads : /\ dispatcher'[e] = IF e = d THEN "answering" ELSE dispatcher[e]
                              /\ failed'[e] = IF e = d THEN TRUE ELSE failed[e]
          /\ UNCHANGED <<load, response, result, batch, ctxDone>>
          /\ dispatcher[d] = "reading" /\ (ctxDone \/ ToSet(batch[d]) \cap Refused # {})
      BY <2>6 DEF ReadingFails, TypeOK, loadVars
    <3>2. \A l \in Loads : Excused(l) => Excused(l)'
      BY <3>1 DEF Excused
    <3> QED BY <3>1, <3>2 DEF AnswerInv
  <2>7. ASSUME NEW d \in Loads, AnswerNext(d) PROVE AnswerInv'
    <3> DEFINE index == answered[d] + 1
               l == batch[d][index]
    <3>1. /\ index \in 1..Len(batch[d]) /\ batch[d] \in Seq(Loads)
          /\ ~ failed[d] => index \in 1..Len(pages[d])
      BY <2>7 DEF TypeOK, AnswerNext, PagesInv
    <3>2. l \in Loads /\ l \in ToSet(batch[d]) /\ (~ failed[d] => pages[d][index] = l)
      BY <3>1 DEF ToSet, PagesInv
    <3>3. failed[d] => Excused(l)
      BY <3>2 DEF AnswerInv, Excused
    <3>4. \A k \in Loads : response'[k] = IF k = l /\ response[k] = "empty"
                                          THEN (IF failed[d] THEN "error" ELSE pages[d][index])
                                          ELSE response[k]
      BY <2>7, <3>2 DEF AnswerNext, TypeOK
    <3>5. UNCHANGED <<load, result, batch, failed, dispatcher, ctxDone>>
      BY <2>7 DEF AnswerNext, loadVars
    <3>6. \A k \in Loads : Excused(k) => Excused(k)'
      BY <3>5 DEF Excused
    <3> HIDE DEF l
    <3>7. \A k \in Loads : /\ response'[k] \in Loads => response'[k] = k
                           /\ response'[k] = "error" => Excused(k)
      BY <3>2, <3>3, <3>4 DEF AnswerInv
    <3> QED BY <3>5, <3>6, <3>7 DEF AnswerInv
  <2>8. ASSUME EndContext \/ UNCHANGED vars PROVE AnswerInv'
    BY <2>1, <2>8 DEF EndContext, vars, loadVars, dispatcherVars
  <2> QED BY <2>2, <2>3, <2>4, <2>5, <2>6, <2>7, <2>8 DEF Next, DispatcherStep
<1> QED BY <1>1, <1>2

LEMMA LoaderAlways == Spec => [](TypeOK /\ PagesInv /\ AnswerInv)
BY LoaderInductive, AnswerInductive, PTL DEF Spec

\* A load gets its own page, or an error of its own batch, or that of the context.
THEOREM AnswersAreOwn == Spec => []AnsweredWithOwnPage
<1>1. TypeOK /\ AnswerInv => AnsweredWithOwnPage
  BY DEF AnswerInv, AnsweredWithOwnPage, Excused
<1> QED BY <1>1, LoaderAlways, PTL

(***************************************************************************)
(* Who is pending will be dispatched.                                      *)
(***************************************************************************)

\* Exactly one dispatcher is about to take a batch while something is pending, and
\* none while nothing is.
SchedulingInv ==
  /\ scheduled <=> pending # <<>>
  /\ scheduled <=> \E d \in Loads : dispatcher[d] = "delaying"
  /\ \A d, e \in Loads : dispatcher[d] = "delaying" /\ dispatcher[e] = "delaying" => d = e

LEMMA SchedulingInductive ==
  /\ Init => SchedulingInv
  /\ TypeOK /\ PagesInv /\ SchedulingInv /\ [Next]_vars => SchedulingInv'
<1>1. Init => SchedulingInv
  BY DEF Init, SchedulingInv
<1>2. ASSUME TypeOK, PagesInv, SchedulingInv, [Next]_vars PROVE SchedulingInv'
  <2> USE <1>2
  <2>1. ASSUME UNCHANGED <<scheduled, pending>>,
               \A d \in Loads : dispatcher'[d] = "delaying" <=> dispatcher[d] = "delaying"
        PROVE  SchedulingInv'
    BY <2>1 DEF SchedulingInv
  <2>2. ASSUME NEW l \in Loads, Load(l) PROVE SchedulingInv'
    <3>1. pending' # <<>> /\ scheduled'
      <4>1. pending \in Seq(Loads)
        BY DEF TypeOK
      <4>2. Append(pending, l) # <<>>
        BY <4>1, AppendProperties
      <4>3. pending' = Append(pending, l) /\ scheduled' = TRUE
        BY <2>2 DEF Load
      <4> QED BY <4>2, <4>3
    <3>2. IF scheduled THEN dispatcher' = dispatcher
          ELSE \A d \in Loads : dispatcher'[d] = "delaying" <=> d = l
      BY <2>2 DEF Load, TypeOK, SchedulingInv
    <3> QED BY <2>2, <3>1, <3>2 DEF SchedulingInv
  <2>3. ASSUME NEW d \in Loads, TakeBatch(d) PROVE SchedulingInv'
    <3>1. \A e \in Loads : dispatcher'[e] # "delaying"
      BY <2>3 DEF TakeBatch, TypeOK, SchedulingInv
    <3> QED BY <2>3, <3>1 DEF TakeBatch, SchedulingInv
  <2>4. ASSUME NEW l \in Loads,
               \/ LoadReceives(l) \/ LoadGivesUp(l) \/ ReadNextPage(l) \/ AnswerNext(l)
               \/ EndContext \/ UNCHANGED vars
        PROVE  SchedulingInv'
    BY <2>1, <2>4 DEF LoadReceives, LoadGivesUp, ReadNextPage, AnswerNext, EndContext, vars,
       dispatcherVars
  <2>5. ASSUME NEW d \in Loads, ReadingFails(d) \/ ReadingEnds(d) \/ DispatchEnds(d)
        PROVE  SchedulingInv'
    BY <2>1, <2>5 DEF ReadingFails, ReadingEnds, DispatchEnds, TypeOK
  <2>6. EndContext \/ UNCHANGED vars => SchedulingInv'
    BY <2>1 DEF EndContext, vars, dispatcherVars
  <2> QED BY <2>2, <2>3, <2>4, <2>5, <2>6 DEF Next, DispatcherStep
<1> QED BY <1>1, <1>2

\* A load that waits in the queue has a dispatcher on its way, and one only: the flag
\* can neither be lost nor be left set with nobody behind it.
THEOREM NobodyWaitsForEver == Spec => []SomebodyWillDispatch
<1>1. ASSUME TypeOK, SchedulingInv PROVE SomebodyWillDispatch
  <2> DEFINE delaying == {d \in Loads : dispatcher[d] = "delaying"}
  <2>1. CASE ~ scheduled
    <3>1. delaying = {}
      BY <1>1, <2>1 DEF SchedulingInv
    <3>2. Cardinality(delaying) = 0
      BY <3>1, FS_EmptySet
    <3> QED BY <1>1, <2>1, <3>2 DEF SchedulingInv, SomebodyWillDispatch, TypeOK
  <2>2. CASE scheduled
    <3>1. PICK d \in Loads : delaying = {d}
      BY <1>1, <2>2 DEF SchedulingInv
    <3>2. Cardinality(delaying) = 1
      BY <3>1, FS_Singleton
    <3> QED BY <1>1, <2>2, <3>2 DEF SchedulingInv, SomebodyWillDispatch, TypeOK
  <2> QED BY <2>1, <2>2
<1> QED BY <1>1, LoaderInductive, SchedulingInductive, PTL DEF Spec

(***************************************************************************)
(* Where a load is on its way to an answer.                                *)
(***************************************************************************)

\* Load l waits at place i of the queue, or is the i-th of the batch of d, ahead of
\* the loop that answers it.
Queued(l, i) == i \in 1..Len(pending) /\ pending[i] = l
Batched(l, d, i) ==
  /\ dispatcher[d] \in {"reading", "answering"}
  /\ i \in answered[d] + 1 .. Len(batch[d]) /\ batch[d][i] = l

\* A load has at most one place, has none before it is called and none after it has
\* been answered, and does not lose it otherwise.
Placed(l) ==
  /\ \A i, j \in Nat : Queued(l, i) /\ Queued(l, j) => i = j
  /\ \A d, e \in Loads, i, j \in Nat : Batched(l, d, i) /\ Batched(l, e, j) => d = e /\ i = j
  /\ \A d \in Loads, i, j \in Nat : ~ (Queued(l, i) /\ Batched(l, d, j))
  /\ \A i \in Nat : Queued(l, i) => ~ Arrived(l) /\ load[l] # "idle"
  /\ \A d \in Loads, i \in Nat : Batched(l, d, i) => ~ Arrived(l) /\ load[l] # "idle"
  /\ load[l] = "idle" => ~ Arrived(l)
  /\ load[l] = "idle" \/ Arrived(l) \/ (\E i \in Nat : Queued(l, i))
       \/ (\E d \in Loads, i \in Nat : Batched(l, d, i))

PlaceInv ==
  /\ \A l \in Loads : Placed(l) /\ (load[l] # "returned" => result[l] = "none")
  /\ \A d \in Loads : dispatcher[d] \in {"none", "delaying", "reading"} => answered[d] = 0

\* A step that moves no load keeps every one in its place.
LEMMA Unmoved ==
  ASSUME NEW l \in Loads, Placed(l),
         \A i \in Nat : Queued(l, i)' <=> Queued(l, i),
         \A d \in Loads, i \in Nat : Batched(l, d, i)' <=> Batched(l, d, i),
         Arrived(l)' <=> Arrived(l),
         load'[l] = "idle" <=> load[l] = "idle"
  PROVE  Placed(l)'
BY DEF Placed

LEMMA PlaceInductive ==
  /\ Init => PlaceInv
  /\ TypeOK /\ PagesInv /\ PlaceInv /\ [Next]_vars => PlaceInv'
<1> USE NoLoadIsAnOutcome
<1>1. ASSUME Init PROVE PlaceInv
  <2>1. Len(pending) = 0
    BY <1>1, EmptySeq DEF Init
  <2>2. ASSUME NEW l \in Loads PROVE Placed(l)
    <3>1. \A i \in Nat : ~ Queued(l, i)
      BY <2>1 DEF Queued
    <3>2. \A d \in Loads, i \in Nat : ~ Batched(l, d, i)
      BY <1>1 DEF Init, Batched
    <3>3. ~ Arrived(l) /\ load[l] = "idle"
      BY <1>1 DEF Init, Arrived, Answers
    <3> QED BY <3>1, <3>2, <3>3 DEF Placed
  <2> QED BY <1>1, <2>2 DEF Init, PlaceInv
<1>2. ASSUME TypeOK, PagesInv, PlaceInv, [Next]_vars PROVE PlaceInv'
  <2> DEFINE Same(l) == /\ \A i \in Nat : Queued(l, i)' <=> Queued(l, i)
                        /\ \A d \in Loads, i \in Nat : Batched(l, d, i)' <=> Batched(l, d, i)
                        /\ Arrived(l)' <=> Arrived(l)
                        /\ load'[l] = "idle" <=> load[l] = "idle"
  <2>1. ASSUME \A l \in Loads : Same(l),
               \A l \in Loads : load'[l] # "returned" => result'[l] = "none",
               \A d \in Loads : dispatcher'[d] \in {"none", "delaying", "reading"} => answered'[d] = 0
        PROVE  PlaceInv'
    <3>1. ASSUME NEW l \in Loads PROVE Placed(l)'
      <4>1. Placed(l) /\ Same(l)
        BY <1>2, <2>1 DEF PlaceInv
      <4> QED BY <4>1, Unmoved
    <3> QED BY <2>1, <3>1 DEF PlaceInv
  <2>2. ASSUME NEW l \in Loads, Load(l) PROVE PlaceInv'
    <3> DEFINE end == Len(pending) + 1
    <3>1. /\ pending \in Seq(Loads) /\ Len(pending) \in Nat
          /\ Len(pending') = end /\ pending'[end] = l
          /\ \A i \in 1..Len(pending) : pending'[i] = pending[i]
      BY <1>2, <2>2, AppendProperties DEF Load, TypeOK
    <3>2. \A i \in Nat : i \in 1..Len(pending') <=> i \in 1..Len(pending) \/ i = end
      BY <3>1
    <3>3. \A k \in Loads, i \in Nat : Queued(k, i)' <=> Queued(k, i) \/ (k = l /\ i = end)
      BY <3>1, <3>2 DEF Queued
    <3>4. \A i \in Nat : \A k \in Loads : Queued(k, i) => i # end
      BY <3>1 DEF Queued
    <3>5. \A d \in Loads : \/ dispatcher'[d] = dispatcher[d]
                           \/ dispatcher[d] = "none" /\ dispatcher'[d] = "delaying"
      BY <1>2, <2>2 DEF Load, TypeOK, PagesInv
    <3>6. \A k, d \in Loads, i \in Nat : Batched(k, d, i)' <=> Batched(k, d, i)
      BY <2>2, <3>5 DEF Load, Batched
    <3>7. /\ \A k \in Loads : Arrived(k)' <=> Arrived(k)
          /\ \A k \in Loads : load'[k] = IF k = l THEN "waiting" ELSE load[k]
          /\ load[l] = "idle"
      BY <1>2, <2>2 DEF Load, Arrived, TypeOK
    <3>8. \A k \in Loads : Placed(k)
      BY <1>2 DEF PlaceInv
    <3> HIDE DEF end
    <3>9. ASSUME NEW k \in Loads, k # l PROVE Placed(k)'
      BY <3>3, <3>6, <3>7, <3>8, <3>9, Unmoved
    <3>10. Placed(l)'
      <4>1. /\ \A i \in Nat : ~ Queued(l, i)
            /\ \A d \in Loads, i \in Nat : ~ Batched(l, d, i)
            /\ ~ Arrived(l)
        BY <3>7, <3>8 DEF Placed
      <4>2. end \in Nat
        BY <3>1 DEF end
      <4> QED BY <3>3, <3>6, <3>7, <4>1, <4>2 DEF Placed
    <3> QED BY <1>2, <2>2, <3>5, <3>7, <3>9, <3>10 DEF PlaceInv, Load
  <2>3. ASSUME NEW d \in Loads, TakeBatch(d) PROVE PlaceInv'
    <3>1. pending \in Seq(Loads) /\ Len(pending) \in Nat /\ answered[d] = 0 /\ dispatcher[d] = "delaying"
      BY <1>2, <2>3 DEF TakeBatch, TypeOK, PlaceInv
    <3>2. /\ \A e \in Loads : e # d => batch'[e] = batch[e] /\ dispatcher'[e] = dispatcher[e]
          /\ batch'[d] = pending /\ pending' = <<>>
          /\ dispatcher'[d] = IF pending = <<>> THEN "ended" ELSE "reading"
          /\ UNCHANGED <<load, result, response, answered>>
      BY <1>2, <2>3 DEF TakeBatch, TypeOK, loadVars
    <3>3. \A k \in Loads, i \in Nat : ~ Queued(k, i)'
      BY <3>2, EmptySeq DEF Queued
    <3>4. \A k, e \in Loads, i \in Nat : e # d => (Batched(k, e, i)' <=> Batched(k, e, i))
      BY <3>2 DEF Batched
    <3>5. \A k \in Loads, i \in Nat : ~ Batched(k, d, i)
      BY <3>1 DEF Batched
    <3>6. \A k \in Loads, i \in Nat : Batched(k, d, i)' <=> Queued(k, i)
      <4>1. pending = <<>> => Len(pending) = 0
        BY EmptySeq
      <4> QED BY <3>1, <3>2, <4>1 DEF Batched, Queued
    <3>7. \A k \in Loads : Arrived(k)' <=> Arrived(k)
      BY <3>2 DEF Arrived
    <3>8. ASSUME NEW k \in Loads PROVE Placed(k)'
      <4>1. Placed(k)
        BY <1>2 DEF PlaceInv
      <4> QED BY <3>2, <3>3, <3>4, <3>5, <3>6, <3>7, <4>1 DEF Placed
    <3> QED BY <1>2, <3>1, <3>2, <3>8 DEF PlaceInv
  <2>4. ASSUME NEW d \in Loads, AnswerNext(d) PROVE PlaceInv'
    <3> DEFINE index == answered[d] + 1
    <3>1. /\ index \in 1..Len(batch[d]) /\ batch[d] \in Seq(Loads) /\ answered[d] \in Nat
          /\ ~ failed[d] => index \in 1..Len(pages[d]) /\ pages[d] \in Seq(Loads)
      BY <1>2, <2>4 DEF TypeOK, AnswerNext, PagesInv
    <3>2. batch[d][index] \in Loads /\ (~ failed[d] => pages[d][index] \in Loads)
      BY <3>1
    <3> PICK l \in Loads : l = batch[d][index]
      BY <3>2
    <3>3. Batched(l, d, index) /\ index \in Nat
      BY <2>4, <3>1 DEF Batched, AnswerNext
    <3>4. Placed(l)
      BY <1>2, <3>2 DEF PlaceInv
    <3>5. response[l] = "empty" /\ ~ Arrived(l)
      BY <3>3, <3>4 DEF Placed, Arrived
    <3>6. (IF failed[d] THEN "error" ELSE pages[d][index]) \in Answers /\ "empty" \notin Answers
      BY <3>2 DEF Answers
    <3>7. /\ \A k \in Loads : k # l => response'[k] = response[k]
          /\ response'[l] \in Answers
          /\ \A e \in Loads : answered'[e] = IF e = d THEN index ELSE answered[e]
          /\ UNCHANGED <<pending, load, result, dispatcher, batch>>
      BY <1>2, <2>4, <3>2, <3>5, <3>6 DEF AnswerNext, TypeOK, loadVars
    <3>8. \A k \in Loads, i \in Nat : Queued(k, i)' <=> Queued(k, i)
      BY <3>7 DEF Queued
    <3>9. \A k, e \in Loads, i \in Nat : e # d => (Batched(k, e, i)' <=> Batched(k, e, i))
      BY <3>7 DEF Batched
    <3>10. \A i \in Nat : i \in index + 1 .. Len(batch[d]) <=>
                            i \in answered[d] + 1 .. Len(batch[d]) /\ i # index
      BY <3>1
    <3>11. \A k \in Loads, i \in Nat : Batched(k, d, i)' <=> Batched(k, d, i) /\ i # index
      BY <3>7, <3>10 DEF Batched
    <3>12. \A k \in Loads : Arrived(k)' <=> Arrived(k) \/ k = l
      BY <3>6, <3>7 DEF Arrived
    <3>13. \A k \in Loads : Batched(k, d, index) => k = l
      BY DEF Batched
    <3> HIDE DEF index
    <3>14. ASSUME NEW k \in Loads, k # l PROVE Placed(k)'
      <4>1. Placed(k)
        BY <1>2 DEF PlaceInv
      <4>2. \A e \in Loads, i \in Nat : Batched(k, e, i)' <=> Batched(k, e, i)
        BY <3>9, <3>11, <3>13, <3>14
      <4> QED BY <3>7, <3>8, <3>12, <3>14, <4>1, <4>2, Unmoved
    <3>15. Placed(l)'
      <4>1. \A i \in Nat : ~ Queued(l, i)
        BY <3>3, <3>4 DEF Placed
      <4>2. \A e \in Loads, i \in Nat : Batched(l, e, i) => e = d /\ i = index
        BY <3>3, <3>4 DEF Placed
      <4>3. \A e \in Loads, i \in Nat : ~ Batched(l, e, i)'
        BY <3>2, <3>9, <3>11, <4>2
      <4>4. load[l] # "idle"
        BY <3>3, <3>4 DEF Placed
      <4> QED BY <3>2, <3>7, <3>8, <3>12, <4>1, <4>3, <4>4 DEF Placed
    <3>16. dispatcher[d] = "answering"
      BY <2>4 DEF AnswerNext
    <3> QED BY <1>2, <3>2, <3>7, <3>14, <3>15, <3>16 DEF PlaceInv
  <2>5. ASSUME NEW l \in Loads, LoadReceives(l) \/ LoadGivesUp(l) PROVE PlaceInv'
    <3>1. /\ \A k \in Loads : k # l => load'[k] = load[k] /\ result'[k] = result[k] /\ response'[k] = response[k]
          /\ load[l] = "waiting" /\ load'[l] = "returned"
          /\ UNCHANGED <<pending, dispatcher, batch, answered>>
      BY <1>2, <2>5 DEF LoadReceives, LoadGivesUp, TypeOK, dispatcherVars
    <3>2. result[l] = "none" /\ "none" \notin Answers /\ "cancelled" \notin Answers
      BY <1>2, <3>1 DEF PlaceInv, Answers
    <3>3. Arrived(l)' <=> Arrived(l)
      <4>1. CASE LoadReceives(l)
        BY <1>2, <3>2, <4>1 DEF LoadReceives, TypeOK, Arrived
      <4>2. CASE LoadGivesUp(l)
        BY <1>2, <3>2, <4>2 DEF LoadGivesUp, TypeOK, Arrived
      <4> QED BY <2>5, <4>1, <4>2
    <3>4. \A k \in Loads : Arrived(k)' <=> Arrived(k)
      BY <3>1, <3>3 DEF Arrived
    <3>5. /\ \A k \in Loads, i \in Nat : Queued(k, i)' <=> Queued(k, i)
          /\ \A k, d \in Loads, i \in Nat : Batched(k, d, i)' <=> Batched(k, d, i)
      BY <3>1 DEF Queued, Batched
    <3>6. \A k \in Loads : Same(k)
      BY <3>1, <3>4, <3>5
    <3> HIDE DEF Same
    <3> QED BY <1>2, <2>1, <3>1, <3>6 DEF PlaceInv
  <2>6. ASSUME UNCHANGED <<pending, load, result, response, batch, answered>>,
               \A d \in Loads : /\ dispatcher'[d] = "reading" => dispatcher[d] = "reading"
                                /\ dispatcher'[d] \in {"none", "delaying"} => dispatcher'[d] = dispatcher[d]
                                /\ \/ dispatcher'[d] = dispatcher[d]
                                   \/ dispatcher[d] = "reading" /\ dispatcher'[d] = "answering"
                                   \/ answered[d] = Len(batch[d])
        PROVE  PlaceInv'
    <3>1. /\ \A k \in Loads, i \in Nat : Queued(k, i)' <=> Queued(k, i)
          /\ \A k \in Loads : Arrived(k)' <=> Arrived(k)
      BY <2>6 DEF Queued, Arrived
    <3>2. ASSUME NEW k \in Loads, NEW d \in Loads, NEW i \in Nat
          PROVE  Batched(k, d, i)' <=> Batched(k, d, i)
      <4>1. answered[d] \in Nat /\ Len(batch[d]) \in Nat
        BY <1>2 DEF TypeOK
      <4> QED BY <2>6, <4>1 DEF Batched
    <3>3. \A k \in Loads : Same(k)
      BY <2>6, <3>1, <3>2
    <3> HIDE DEF Same
    <3> QED BY <1>2, <2>1, <2>6, <3>3 DEF PlaceInv
  <2>7. ASSUME NEW d \in Loads,
               ReadNextPage(d) \/ ReadingFails(d) \/ ReadingEnds(d) \/ DispatchEnds(d)
        PROVE  PlaceInv'
    BY <1>2, <2>6, <2>7 DEF ReadNextPage, ReadingFails, ReadingEnds, DispatchEnds, TypeOK, loadVars
  <2>8. EndContext \/ UNCHANGED vars => PlaceInv'
    BY <2>6 DEF EndContext, vars, loadVars, dispatcherVars
  <2> QED BY <1>2, <2>2, <2>3, <2>4, <2>5, <2>7, <2>8 DEF Next, DispatcherStep
<1> QED BY <1>1, <1>2

\* A load that was called is in exactly one place, once: none falls between two
\* batches, none is in two, and none is dropped because its caller has given up.
THEOREM EveryLoadHasItsPlace == Spec => []NoLoadLostOrDoubled
<1>1. ASSUME TypeOK, PlaceInv PROVE NoLoadLostOrDoubled
  <2> SUFFICES ASSUME NEW l \in Loads
               PROVE  Cardinality(PendingPlaces(l)) + Cardinality(BatchPlaces(l))
                        + (IF Arrived(l) THEN 1 ELSE 0) = (IF load[l] = "idle" THEN 0 ELSE 1)
    BY DEF NoLoadLostOrDoubled
  <2>1. Placed(l) /\ Len(pending) \in Nat
    BY <1>1 DEF PlaceInv, TypeOK
  <2>2. \A i : i \in PendingPlaces(l) <=> i \in Nat /\ Queued(l, i)
    BY <2>1 DEF PendingPlaces, Queued
  <2>3. \A d \in Loads : answered[d] \in Nat /\ Len(batch[d]) \in Nat
    BY <1>1 DEF TypeOK
  <2>4. \A p : p \in BatchPlaces(l) <=> \E d \in Loads, i \in Nat : p = <<d, i>> /\ Batched(l, d, i)
    BY <2>3 DEF BatchPlaces, Batched
  <2>5. CASE \E i \in Nat : Queued(l, i)
    <3>1. PICK i \in Nat : Queued(l, i)
      BY <2>5
    <3>2. PendingPlaces(l) = {i}
      BY <2>1, <2>2, <3>1 DEF Placed
    <3>3. BatchPlaces(l) = {}
      BY <2>1, <2>4, <3>1 DEF Placed
    <3>4. Cardinality(PendingPlaces(l)) = 1 /\ Cardinality(BatchPlaces(l)) = 0
      BY <3>2, <3>3, FS_Singleton, FS_EmptySet
    <3> QED BY <2>1, <3>1, <3>4 DEF Placed
  <2>6. CASE \E d \in Loads, i \in Nat : Batched(l, d, i)
    <3>1. PICK d \in Loads, i \in Nat : Batched(l, d, i)
      BY <2>6
    <3>2. PendingPlaces(l) = {}
      BY <2>1, <2>2, <3>1 DEF Placed
    <3>3. BatchPlaces(l) = {<<d, i>>}
      BY <2>1, <2>4, <3>1 DEF Placed
    <3>4. Cardinality(PendingPlaces(l)) = 0 /\ Cardinality(BatchPlaces(l)) = 1
      BY <3>2, <3>3, FS_Singleton, FS_EmptySet
    <3> QED BY <2>1, <3>1, <3>4 DEF Placed
  <2>7. CASE (\A i \in Nat : ~ Queued(l, i)) /\ (\A d \in Loads, i \in Nat : ~ Batched(l, d, i))
    <3>1. PendingPlaces(l) = {} /\ BatchPlaces(l) = {}
      BY <2>2, <2>4, <2>7
    <3>2. Cardinality(PendingPlaces(l)) = 0 /\ Cardinality(BatchPlaces(l)) = 0
      BY <3>1, FS_EmptySet
    <3> QED BY <2>1, <2>7, <3>2 DEF Placed
  <2> QED BY <2>5, <2>6, <2>7
<1> QED BY <1>1, LoaderInductive, PlaceInductive, PTL DEF Spec

(***************************************************************************)
(* Operations use the loader as it may be used.                            *)
(***************************************************************************)

\* Only fields that are loaded ever wait for the loader.
LoadingInv ==
  /\ op \in Operations
  /\ field \in [Nodes -> {"waiting", "running", "loading", "done", "absent"}]
  /\ \A n \in Nodes : field[n] = "loading" => n \in Loads

LEMMA ExecutionSteps ==
  /\ ExecutionInit => Init /\ LoadingInv
  /\ LoadingInv /\ [ExecutionNext]_allVars => [Next]_vars
<1>1. ExecutionInit => Init /\ LoadingInv
  BY DEF ExecutionInit, LoadingInv
<1>2. ASSUME LoadingInv, [ExecutionNext]_allVars PROVE [Next]_vars
  <2> USE <1>2
  <2>1. ASSUME NEW n \in Paths, CallLoad(n) PROVE Next
    <3>1. n \in Loads
      BY <2>1, LoadsAreLoadedFields DEF CallLoad, Info, LoadingInv, Paths
    <3> QED BY <2>1, <3>1 DEF CallLoad, Next
  <2>2. ASSUME NEW n \in Paths, LoadReturns(n) PROVE Next
    BY <2>2 DEF LoadReturns, LoadingInv, Nodes, Next
  <2>3. ASSUME NEW n \in Paths,
               TakeFromParent(n) \/ CallService(n) \/ CursorIsRefused(n) \/ ArgumentsAreRefused(n)
        PROVE  UNCHANGED vars
    BY <2>3 DEF TakeFromParent, CallService, CursorIsRefused, ArgumentsAreRefused
  <2>4. ASSUME NEW n \in Nodes, Finish(n) PROVE UNCHANGED vars
    BY <2>4 DEF Finish
  <2>5. ASSUME NEW d \in Loads, DispatcherStep(d) PROVE Next
    BY <2>5 DEF Next
  <2>6. UNCHANGED allVars => UNCHANGED vars
    BY DEF allVars
  <2>7. EndContext => Next
    BY DEF Next
  <2> QED BY <2>1, <2>2, <2>3, <2>4, <2>5, <2>6, <2>7 DEF ExecutionNext, Runs, FieldStep
<1> QED BY <1>1, <1>2

LEMMA LoadingInductive ==
  ASSUME LoadingInv, [ExecutionNext]_allVars
  PROVE  LoadingInv'
<1>1. ASSUME UNCHANGED <<op, field>> PROVE LoadingInv'
  BY <1>1 DEF LoadingInv, Nodes, Paths
<1>2. ASSUME UNCHANGED op, NEW n \in Nodes, NEW s \in {"running", "done"},
             field' = [field EXCEPT ![n] = s]
      PROVE  LoadingInv'
  <2>1. Nodes' = Nodes
    BY <1>2 DEF Nodes, Paths
  <2> QED BY <1>2, <2>1 DEF LoadingInv
<1>3. ASSUME UNCHANGED op, NEW n \in Paths, Begins(n) PROVE LoadingInv'
  <2>1. Nodes' = Nodes /\ n \in Nodes
    BY <1>3 DEF Nodes, Paths
  <2>2. CASE Info(n).of = "scalar"
    <3>1. field' = [field EXCEPT ![n] = "done"]
      BY <1>3, <2>2 DEF Begins, Marshalled
    <3> QED BY <1>2, <1>3, <2>1, <3>1
  <2>3. CASE Info(n).of # "scalar"
    <3>1. PICK beyond : field' = [m \in Nodes |-> IF m = n THEN "running"
                                               ELSE IF m \in beyond THEN "absent" ELSE field[m]]
      BY <1>3, <2>3 DEF Begins
    <3> QED BY <1>3, <2>1, <3>1 DEF LoadingInv
  <2> QED BY <2>2, <2>3
<1>4. ASSUME UNCHANGED op, NEW n \in Paths, Fails(n) PROVE LoadingInv'
  BY <1>2, <1>4 DEF Fails, Marshalled, Nodes
<1>5. ASSUME NEW n \in Paths, CallLoad(n) PROVE LoadingInv'
  <2>1. n \in Loads
    BY <1>5, LoadsAreLoadedFields DEF CallLoad, Info, LoadingInv, Paths
  <2>2. Nodes' = Nodes /\ op' = op /\ n \in Nodes /\ field' = [field EXCEPT ![n] = "loading"]
    BY <1>5 DEF CallLoad, Nodes, Paths
  <2> QED BY <2>1, <2>2 DEF LoadingInv
<1>6. ASSUME NEW n \in Paths, TakeFromParent(n) PROVE LoadingInv'
  BY <1>3, <1>6 DEF TakeFromParent
<1>7. ASSUME NEW n \in Paths, CallService(n) PROVE LoadingInv'
  BY <1>3, <1>4, <1>7 DEF CallService
<1>8. ASSUME NEW n \in Paths, CursorIsRefused(n) \/ ArgumentsAreRefused(n) PROVE LoadingInv'
  BY <1>4, <1>8 DEF CursorIsRefused, ArgumentsAreRefused
<1>9. ASSUME NEW n \in Paths, LoadReturns(n) PROVE LoadingInv'
  BY <1>3, <1>4, <1>9 DEF LoadReturns
<1>10. ASSUME NEW n \in Nodes, Finish(n) PROVE LoadingInv'
  BY <1>2, <1>10 DEF Finish, Marshalled
<1>11. UNCHANGED execVars => LoadingInv'
  BY <1>1 DEF execVars
<1>12. UNCHANGED allVars => UNCHANGED execVars
  BY DEF allVars
<1> QED BY <1>5, <1>6, <1>7, <1>8, <1>9, <1>10, <1>11, <1>12 DEF ExecutionNext, Runs, FieldStep

\* The fields of an operation call the loader as the loader's own specification
\* says it may be called, whatever is selected and however the fields interleave.
THEOREM ExecutionImplementsLoader == ExecutionSpec => Spec
BY ExecutionSteps, LoadingInductive, PTL DEF ExecutionSpec, Spec

\* So in every operation a field gets its own page, none waits without a dispatcher
\* on its way, and none is lost or dispatched twice.
THEOREM FieldsGetTheirPages ==
  ExecutionSpec => [](AnsweredWithOwnPage /\ SomebodyWillDispatch /\ NoLoadLostOrDoubled)
BY ExecutionImplementsLoader, AnswersAreOwn, NobodyWaitsForEver, EveryLoadHasItsPlace, PTL

(***************************************************************************)
(* The tables of the types.                                                *)
(***************************************************************************)

\* What the proofs below need to know of an entry: it is counted in Invalids unless
\* the schema lets the field be null, nothing leads back to the root, services are
\* called at the root only, a mutation runs its fields one after the other, and the
\* elements of a list run concurrently.
AsDeclared(type, name, entry) ==
  /\ entry.nonNull <=> <<type, name>> \notin NullableInSchema
  /\ name \in Pointers => <<type, name>> \in NullableInSchema
  /\ entry.of \notin {"Query", "Mutation"}
  /\ entry.from = "service" <=> type \in {"Query", "Mutation"}
  /\ type = "Mutation" => ~ entry.concurrent
  /\ type \in Lists => entry.concurrent

LEMMA TypeNames ==
  /\ DOMAIN Types = {"Query", "Mutation", "Post", "Comment", "PageInfo", "CommentConnection",
                     "CommentEdges", "CommentEdge", "PostPreviewConnection", "PostPreviewEdges",
                     "PostPreviewEdge", "PostPreview"}
  /\ Types["Query"] = QueryFields /\ Types["Mutation"] = MutationFields
  /\ Types["Post"] = PostFields /\ Types["Comment"] = CommentFields
  /\ Types["PageInfo"] = PageInfoFields
  /\ Types["CommentConnection"] = CommentConnectionFields
  /\ Types["CommentEdges"] = CommentEdges /\ Types["CommentEdge"] = CommentEdgeFields
  /\ Types["PostPreviewConnection"] = PostPreviewConnectionFields
  /\ Types["PostPreviewEdges"] = PostPreviewEdges
  /\ Types["PostPreviewEdge"] = PostPreviewEdgeFields
  /\ Types["PostPreview"] = PostPreviewFields
BY DEF Types

\* The generated code and the schema agree on every field.
LEMMA FieldsAreAsDeclared ==
  \A type \in DOMAIN Types : \A name \in DOMAIN Types[type] : AsDeclared(type, name, Types[type][name])
<1> USE DEF AsDeclared, Entry, NullableInSchema, Pointers, Lists
<1>1. \A name \in DOMAIN CommentFields : AsDeclared("Comment", name, CommentFields[name])
  <2> DEFINE scalars == {"id", "postID", "parentID", "authorID", "text", "createdAt", "isDeleted"}
  <2>1. /\ DOMAIN CommentFields = scalars \cup {"replies"}
        /\ \A name \in scalars : CommentFields[name] = Scalar(name # "parentID")
        /\ CommentFields["replies"] = Loaded
    BY DEF CommentFields, CommentScalars, Comment_replies, Adding
  <2>2. \A name \in scalars : AsDeclared("Comment", name, Scalar(name # "parentID"))
    BY DEF Scalar
  <2>3. AsDeclared("Comment", "replies", Loaded)
    BY DEF Loaded
  <2> QED BY <2>1, <2>2, <2>3
<1>2. \A name \in DOMAIN PostFields : AsDeclared("Post", name, PostFields[name])
  <2> DEFINE scalars == {"id", "authorID", "title", "body", "commentsEnabled", "createdAt", "updatedAt"}
  <2>1. /\ DOMAIN PostFields = scalars \cup {"comments"}
        /\ \A name \in scalars : PostFields[name] = Scalar(TRUE)
        /\ PostFields["comments"] = Loaded
    BY DEF PostFields, PostScalars, Post_comments, Adding
  <2>2. \A name \in scalars : AsDeclared("Post", name, Scalar(TRUE))
    BY DEF Scalar
  <2>3. AsDeclared("Post", "comments", Loaded)
    BY DEF Loaded
  <2> QED BY <2>1, <2>2, <2>3
<1>3. \A name \in DOMAIN PostPreviewFields : AsDeclared("PostPreview", name, PostPreviewFields[name])
  <2> DEFINE scalars == {"id", "authorID", "title", "excerpt", "commentsEnabled", "createdAt", "updatedAt"}
  <2>1. /\ DOMAIN PostPreviewFields = scalars
        /\ \A name \in scalars : PostPreviewFields[name] = Scalar(TRUE)
    BY DEF PostPreviewFields, PostPreviewScalars
  <2>2. \A name \in scalars : AsDeclared("PostPreview", name, Scalar(TRUE))
    BY DEF Scalar
  <2> QED BY <2>1, <2>2
<1>4. \A name \in DOMAIN QueryFields : AsDeclared("Query", name, QueryFields[name])
  <2>1. /\ DOMAIN QueryFields = {"posts", "post", "comment"}
        /\ QueryFields["posts"] = Query_posts /\ QueryFields["post"] = Query_post
        /\ QueryFields["comment"] = Query_comment
    BY DEF QueryFields
  <2>2. /\ AsDeclared("Query", "posts", Query_posts)
        /\ AsDeclared("Query", "post", Query_post)
        /\ AsDeclared("Query", "comment", Query_comment)
    BY DEF Query_posts, Query_post, Query_comment
  <2> QED BY <2>1, <2>2
<1>5. \A name \in DOMAIN MutationFields : AsDeclared("Mutation", name, MutationFields[name])
  <2>1. /\ DOMAIN MutationFields = {"createPost", "deletePost", "addComment", "deleteComment",
                                    "setPostCommentsEnabled"}
        /\ MutationFields["createPost"] = Mutation_createPost
        /\ MutationFields["deletePost"] = Mutation_deletePost
        /\ MutationFields["addComment"] = Mutation_addComment
        /\ MutationFields["deleteComment"] = Mutation_deleteComment
        /\ MutationFields["setPostCommentsEnabled"] = Mutation_setPostCommentsEnabled
    BY DEF MutationFields
  <2>2. /\ AsDeclared("Mutation", "createPost", Mutation_createPost)
        /\ AsDeclared("Mutation", "deletePost", Mutation_deletePost)
        /\ AsDeclared("Mutation", "addComment", Mutation_addComment)
        /\ AsDeclared("Mutation", "deleteComment", Mutation_deleteComment)
        /\ AsDeclared("Mutation", "setPostCommentsEnabled", Mutation_setPostCommentsEnabled)
    BY DEF Mutation_createPost, Mutation_deletePost, Mutation_addComment, Mutation_deleteComment,
           Mutation_setPostCommentsEnabled
  <2> QED BY <2>1, <2>2
<1>6. \A name \in DOMAIN PageInfoFields : AsDeclared("PageInfo", name, PageInfoFields[name])
  <2>1. /\ DOMAIN PageInfoFields = {"endCursor", "hasNextPage"}
        /\ PageInfoFields["endCursor"] = Scalar(FALSE) /\ PageInfoFields["hasNextPage"] = Scalar(TRUE)
    BY DEF PageInfoFields, PageInfo_endCursor, PageInfo_hasNextPage
  <2>2. AsDeclared("PageInfo", "endCursor", Scalar(FALSE)) /\ AsDeclared("PageInfo", "hasNextPage", Scalar(TRUE))
    BY DEF Scalar
  <2> QED BY <2>1, <2>2
<1>7. ASSUME NEW type \in {"CommentConnection", "PostPreviewConnection"}
      PROVE  \A name \in DOMAIN Types[type] : AsDeclared(type, name, Types[type][name])
  <2>1. PICK edges \in {"CommentEdges", "PostPreviewEdges"} : Types[type] = ConnectionParts(edges)
    BY TypeNames DEF CommentConnectionFields, PostPreviewConnectionFields
  <2>2. /\ DOMAIN ConnectionParts(edges) = {"edges", "pageInfo"}
        /\ ConnectionParts(edges)["edges"] = Part(edges)
        /\ ConnectionParts(edges)["pageInfo"] = Part("PageInfo")
    BY DEF ConnectionParts
  <2>3. AsDeclared(type, "edges", Part(edges)) /\ AsDeclared(type, "pageInfo", Part("PageInfo"))
    BY DEF Part
  <2> QED BY <2>1, <2>2, <2>3
<1>8. ASSUME NEW type \in {"CommentEdges", "PostPreviewEdges"}
      PROVE  \A name \in DOMAIN Types[type] : AsDeclared(type, name, Types[type][name])
  <2>1. PICK edge \in {"CommentEdge", "PostPreviewEdge"} : Types[type] = ListOf(edge)
    BY TypeNames DEF CommentEdges, PostPreviewEdges
  <2>2. DOMAIN ListOf(edge) = {"element"} /\ ListOf(edge)["element"] = Entry(edge, TRUE, TRUE, "parent")
    BY DEF ListOf
  <2>3. AsDeclared(type, "element", Entry(edge, TRUE, TRUE, "parent"))
    OBVIOUS
  <2> QED BY <2>1, <2>2, <2>3
<1>9. ASSUME NEW type \in {"CommentEdge", "PostPreviewEdge"}
      PROVE  \A name \in DOMAIN Types[type] : AsDeclared(type, name, Types[type][name])
  <2>1. PICK node \in {"Comment", "PostPreview"} : Types[type] = EdgeParts(node)
    BY TypeNames DEF CommentEdgeFields, PostPreviewEdgeFields
  <2>2. /\ DOMAIN EdgeParts(node) = {"cursor", "node"}
        /\ EdgeParts(node)["cursor"] = Scalar(TRUE) /\ EdgeParts(node)["node"] = Part(node)
    BY DEF EdgeParts
  <2>3. AsDeclared(type, "cursor", Scalar(TRUE)) /\ AsDeclared(type, "node", Part(node))
    BY DEF Scalar, Part
  <2> QED BY <2>1, <2>2, <2>3
<1> HIDE DEF AsDeclared
<1> QED BY <1>1, <1>2, <1>3, <1>4, <1>5, <1>6, <1>7, <1>8, <1>9, TypeNames

(***************************************************************************)
(* The tree of an operation.                                               *)
(***************************************************************************)

\* What holds of a field as soon as it holds of its parent, or the parent is the
\* root, holds of every field.
LEMMA TreeInduction ==
  ASSUME op \in Operations, NEW B,
         \A n \in Paths : Parent(n) = Root \/ Parent(n) \in B => n \in B
  PROVE  Paths \subseteq B
<1> DEFINE A == Paths \ B
<1>1. SUFFICES ASSUME A # {} PROVE FALSE
  OBVIOUS
<1>2. A \in SUBSET DOMAIN op.selection
  BY DEF Paths
<1>3. PICK n \in A : op.selection[n].parent \notin A
  BY <1>1, <1>2, SelectionsAreTrees
<1>4. n \in Paths /\ (Parent(n) \in Paths \/ Parent(n) = Root)
  BY <1>3, SelectionsAreTrees DEF Paths, Parent
<1> QED BY <1>3, <1>4 DEF Parent

LEMMA Typed ==
  ASSUME op \in Operations
  PROVE  /\ op.kind \in {"Query", "Mutation"}
         /\ Root \notin Paths
         /\ \A n \in Paths :
              /\ Parent(n) \in Paths \cup {Root}
              /\ n \in Nodes /\ Parent(n) \in Nodes
              /\ op.selection[n].type = IF Parent(n) = Root THEN op.kind ELSE Info(Parent(n)).of
              /\ op.selection[n].type \in DOMAIN Types
              /\ AsDeclared(op.selection[n].type, op.selection[n].field, Info(n))
              /\ op.selection[n].place \in Nat
         /\ \A m, n \in Paths :
              Parent(m) = Parent(n) /\ op.selection[m].place = op.selection[n].place => m = n
BY SelectionsAreTrees, SelectionsAreTyped, FieldsAreAsDeclared DEF Paths, Parent, Nodes, Info

\* The fields from the root down to n, as the smallest set that leads from n to
\* the root.
LeadsUp(A) == \A m \in A : Parent(m) = Root \/ Parent(m) \in A
Upwards(n) == {m \in Paths : \A A \in SUBSET Paths : n \in A /\ LeadsUp(A) => m \in A}

\* Such a set exists, so the recursive definition of Trail defines something.
LEMMA TrailEquation ==
  ASSUME op \in Operations
  PROVE  /\ Trail[Root] = {}
         /\ \A n \in Paths : Trail[n] = {n} \cup Trail[Parent(n)]
<1> DEFINE f == [n \in Nodes |-> IF n = Root THEN {} ELSE Upwards(n)]
           Solves(g) == g = [n \in Nodes |-> IF n = Root THEN {} ELSE {n} \cup g[Parent(n)]]
<1>1. \A n \in Paths : n # Root /\ Parent(n) \in Paths \cup {Root}
  BY Typed
<1>2. ASSUME NEW n \in Paths, Parent(n) = Root PROVE Upwards(n) = {n}
  BY <1>2 DEF Upwards, LeadsUp
<1>3. ASSUME NEW n \in Paths, Parent(n) \in Paths PROVE Upwards(n) = {n} \cup Upwards(Parent(n))
  <2>1. LeadsUp(Upwards(Parent(n)))
    BY <1>1 DEF LeadsUp, Upwards
  <2>2. LeadsUp({n} \cup Upwards(Parent(n))) /\ {n} \cup Upwards(Parent(n)) \in SUBSET Paths
    BY <1>3, <2>1 DEF LeadsUp, Upwards
  <2>3. Upwards(n) \subseteq {n} \cup Upwards(Parent(n))
    BY <2>2 DEF Upwards
  <2>4. ASSUME NEW A \in SUBSET Paths, n \in A, LeadsUp(A) PROVE Parent(n) \in A
    BY <1>1, <1>3, <2>4 DEF LeadsUp
  <2>5. {n} \cup Upwards(Parent(n)) \subseteq Upwards(n)
    BY <2>4 DEF Upwards
  <2> QED BY <2>3, <2>5
<1>4. Solves(f)
  <2>1. ASSUME NEW n \in Nodes
        PROVE  f[n] = IF n = Root THEN {} ELSE {n} \cup f[Parent(n)]
    <3>1. CASE n = Root
      BY <3>1
    <3>2. CASE n # Root
      <4>1. n \in Paths /\ f[n] = Upwards(n)
        BY <3>2 DEF Nodes
      <4>2. f[Parent(n)] = IF Parent(n) = Root THEN {} ELSE Upwards(Parent(n))
        BY <1>1, <4>1 DEF Nodes
      <4>3. Upwards(n) = {n} \cup f[Parent(n)]
        <5> HIDE DEF f
        <5>1. CASE Parent(n) = Root
          BY <1>2, <4>1, <4>2, <5>1
        <5>2. CASE Parent(n) \in Paths
          BY <1>1, <1>3, <4>1, <4>2, <5>2
        <5> QED BY <1>1, <4>1, <5>1, <5>2
      <4> HIDE DEF f
      <4> QED BY <3>2, <4>1, <4>3
    <3> QED BY <3>1, <3>2
  <2> DEFINE rhs == [n \in Nodes |-> IF n = Root THEN {} ELSE {n} \cup f[Parent(n)]]
  <2>2. f = rhs
    BY <2>1
  <2> QED BY <2>2
<1>5. Trail = CHOOSE g : Solves(g)
  BY DEF Trail
<1>6. Solves(Trail)
  <2> HIDE DEF f, Solves
  <2> QED BY <1>4, <1>5
<1>7. Root \in Nodes /\ \A n \in Paths : n \in Nodes
  BY DEF Nodes
<1> QED BY <1>1, <1>6, <1>7

LEMMA TrailsLeadUp ==
  ASSUME op \in Operations, NEW n \in Paths
  PROVE  /\ n \in Trail[n] /\ Trail[n] \subseteq Paths
         /\ \A m \in Trail[n] : Trail[m] \subseteq Trail[n] /\ Trail[Parent(m)] \subseteq Trail[n]
         /\ n \notin Trail[Parent(n)]
         /\ \A k \in Trail[n] \cup {Root} : k # n => \E m \in Trail[n] : Parent(m) = k
<1> DEFINE Up(m) == m \in Trail[m] /\ Trail[m] \subseteq Paths
           Inside(m) == \A k \in Trail[m] : Trail[k] \subseteq Trail[m] /\ Trail[Parent(k)] \subseteq Trail[m]
           Acyclic(m) == m \notin Trail[Parent(m)]
           Below(m) == \A k \in Trail[m] \cup {Root} : k # m => \E l \in Trail[m] : Parent(l) = k
<1>1. /\ Trail[Root] = {} /\ Root \notin Paths
      /\ \A m \in Paths : Trail[m] = {m} \cup Trail[Parent(m)] /\ Parent(m) \in Paths \cup {Root}
  BY TrailEquation, Typed
<1>2. \A m \in Paths : Up(m)
  <2> DEFINE B == {m \in Paths : Up(m)}
  <2>1. \A m \in Paths : Parent(m) = Root \/ Parent(m) \in B => m \in B
    BY <1>1
  <2> HIDE DEF B
  <2>2. Paths \subseteq B
    BY <2>1, TreeInduction
  <2> QED BY <2>2 DEF B
<1>3. \A m \in Paths : Inside(m)
  <2> DEFINE B == {m \in Paths : Inside(m)}
  <2>1. ASSUME NEW m \in Paths, Parent(m) = Root \/ Parent(m) \in B PROVE m \in B
    BY <1>1, <2>1
  <2> HIDE DEF B
  <2>2. Paths \subseteq B
    BY <2>1, TreeInduction
  <2> QED BY <2>2 DEF B
<1>4. \A m \in Paths : Acyclic(m)
  <2> DEFINE B == {m \in Paths : Acyclic(m)}
  <2>1. ASSUME NEW m \in Paths, Parent(m) = Root PROVE m \in B
    BY <1>1, <2>1
  <2>2. ASSUME NEW m \in Paths, Parent(m) \in B PROVE m \in B
    <3> DEFINE p == Parent(m)
    <3>1. p \in Paths /\ p \notin Trail[Parent(p)] /\ Trail[p] = {p} \cup Trail[Parent(p)]
      BY <1>1, <2>2
    <3>2. p \in Trail[m]
      BY <1>1, <1>2, <3>1
    <3>3. CASE m = p
      BY <1>1, <3>1, <3>2, <3>3
    <3>4. CASE m \in Trail[Parent(p)]
      <4>1. Parent(p) # Root
        BY <1>1, <3>4
      <4>2. Parent(p) \in Paths
        BY <1>1, <3>1, <4>1
      <4>3. Trail[m] \subseteq Trail[Parent(p)]
        BY <1>3, <3>4, <4>2
      <4> QED BY <3>1, <3>2, <4>3
    <3>5. m \notin Trail[p]
      BY <3>1, <3>3, <3>4
    <3> QED BY <3>5
  <2> HIDE DEF B
  <2>3. Paths \subseteq B
    BY <2>1, <2>2, TreeInduction
  <2> QED BY <2>3 DEF B
<1>5. \A m \in Paths : Below(m)
  <2> DEFINE B == {m \in Paths : Below(m)}
  <2>1. ASSUME NEW m \in Paths, Parent(m) = Root PROVE m \in B
    BY <1>1, <1>2, <2>1
  <2>2. ASSUME NEW m \in Paths, Parent(m) \in B PROVE m \in B
    <3>1. ASSUME NEW k \in Trail[m] \cup {Root}, k # m PROVE \E l \in Trail[m] : Parent(l) = k
      <4>1. CASE k = Parent(m)
        BY <1>2, <4>1
      <4>2. CASE k # Parent(m)
        <5>1. k \in Trail[Parent(m)] \cup {Root} /\ Trail[Parent(m)] \subseteq Trail[m]
          BY <1>1, <3>1
        <5> QED BY <2>2, <4>2, <5>1
      <4> QED BY <4>1, <4>2
    <3> QED BY <3>1
  <2> HIDE DEF B
  <2>3. Paths \subseteq B
    BY <2>1, <2>2, TreeInduction
  <2> QED BY <2>3 DEF B
<1> QED BY <1>2, <1>3, <1>4, <1>5

(***************************************************************************)
(* The shape of a response while it is made.                               *)
(***************************************************************************)

\* A field is entered while its parent runs, and the parent runs until everything
\* below it that has been entered is done; what failed stays done.
RunInv ==
  /\ op \in Operations
  /\ field \in [Nodes -> {"waiting", "running", "loading", "done", "absent"}]
  /\ value \in [Nodes -> {"none", "null", "value"}]
  /\ errors \subseteq Paths
  /\ field[Root] \in {"running", "done"}
  /\ \A n \in Paths : field[n] \in {"running", "loading"} => field[Parent(n)] = "running"
  /\ \A n \in Paths : field[n] # "waiting" => field[Parent(n)] \in {"running", "done"}
  /\ \A n \in Paths : field[Parent(n)] = "done" /\ Parent(n) \notin errors => field[n] \in {"done", "absent"}
  /\ \A n \in errors : field[n] = "done"
  /\ \A n \in Nodes : field[n] # "done" => value[n] = "none"

\* What a field has been marshalled to is what the schema says, as soon as it is.
Settled(n) ==
  \/ value[n] = IF NulledByError(n) THEN "null" ELSE "value"
  \/ n # Root /\ Info(n).of = "scalar" /\ Nullable(n)

ValueInv == \A n \in Nodes : field[n] = "done" => Settled(n)

\* The operation is the same from its first step to its last.
LEMMA SameOperation ==
  ASSUME op' = op
  PROVE  /\ Paths' = Paths /\ Nodes' = Nodes /\ Trail' = Trail
         /\ \A n : Parent(n)' = Parent(n) /\ Info(n)' = Info(n) /\ (Nullable(n)' <=> Nullable(n))
BY DEF Paths, Nodes, Trail, Parent, Info, Nullable

\* Above a field whose parent runs everything runs, and nothing above a field that
\* has been entered still waits.
LEMMA AboveAField ==
  ASSUME RunInv, NEW n \in Paths
  PROVE  /\ field[Parent(n)] = "running" =>
              field[Root] = "running" /\ \A k \in Trail[n] \ {n} : field[k] = "running"
         /\ field[n] # "waiting" => \A k \in Trail[n] \ {n} : field[k] \in {"running", "done"}
<1> DEFINE Run(m) == field[Parent(m)] = "running" =>
                       field[Root] = "running" /\ \A k \in Trail[m] \ {m} : field[k] = "running"
           Entered(m) == field[m] # "waiting" =>
                           \A k \in Trail[m] \ {m} : field[k] \in {"running", "done"}
           B == {m \in Paths : Run(m) /\ Entered(m)}
<1>1. /\ op \in Operations /\ Trail[Root] = {} /\ Root \notin Paths
      /\ \A m \in Paths : Trail[m] = {m} \cup Trail[Parent(m)] /\ Parent(m) \in Paths \cup {Root}
  BY TrailEquation, Typed DEF RunInv
<1>2. ASSUME NEW m \in Paths, Parent(m) = Root PROVE m \in B
  BY <1>1, <1>2
<1>3. ASSUME NEW m \in Paths, Parent(m) \in B PROVE m \in B
  <2>1. Trail[m] \ {m} \subseteq {Parent(m)} \cup (Trail[Parent(m)] \ {Parent(m)})
    BY <1>1
  <2>2. Run(m)
    BY <1>3, <2>1 DEF RunInv
  <2>3. Entered(m)
    <3>1. field[m] # "waiting" => field[Parent(m)] \in {"running", "done"}
      BY DEF RunInv
    <3> QED BY <1>3, <2>1, <3>1
  <2> QED BY <2>2, <2>3
<1> HIDE DEF B
<1>4. Paths \subseteq B
  BY <1>1, <1>2, <1>3, TreeInduction
<1> QED BY <1>4 DEF B

\* A field that is about to be entered, or that the loader comes back to
Awaits(n) == field[n] \in {"waiting", "loading"} /\ field[Parent(n)] = "running"

\* What a step can do to the fields and to the response.
FieldMoves ==
  \/ UNCHANGED <<field, value, errors>>
  \/ \E n \in Nodes : Finish(n)
  \/ \E n \in Paths : Awaits(n) /\ Fails(n)
  \/ \E n \in Paths : Awaits(n) /\ Begins(n) /\ UNCHANGED errors
  \/ \E n \in Paths : Awaits(n) /\ field' = [field EXCEPT ![n] = "loading"] /\ UNCHANGED <<value, errors>>

LEMMA FieldsMove ==
  ASSUME RunInv, [ExecutionNext]_allVars
  PROVE  op' = op /\ FieldMoves
<1>1. ASSUME NEW n \in Paths, TakeFromParent(n) PROVE op' = op /\ FieldMoves
  BY <1>1 DEF TakeFromParent, Ready, Awaits, FieldMoves
<1>2. ASSUME NEW n \in Paths, CallService(n) PROVE op' = op /\ FieldMoves
  BY <1>2 DEF CallService, Ready, Awaits, FieldMoves
<1>3. ASSUME NEW n \in Paths, CallLoad(n) PROVE op' = op /\ FieldMoves
  BY <1>3 DEF CallLoad, Ready, Awaits, FieldMoves
<1>4. ASSUME NEW n \in Paths, CursorIsRefused(n) \/ ArgumentsAreRefused(n) PROVE op' = op /\ FieldMoves
  BY <1>4 DEF CursorIsRefused, ArgumentsAreRefused, Ready, Awaits, FieldMoves
<1>5. ASSUME NEW n \in Paths, LoadReturns(n) PROVE op' = op /\ FieldMoves
  <2>1. Awaits(n)
    BY <1>5 DEF LoadReturns, Awaits, RunInv
  <2> QED BY <1>5, <2>1 DEF LoadReturns, FieldMoves
<1>6. ASSUME NEW n \in Nodes, Finish(n) PROVE op' = op /\ FieldMoves
  BY <1>6 DEF Finish, FieldMoves
<1>7. UNCHANGED execVars \/ UNCHANGED allVars => op' = op /\ FieldMoves
  BY DEF execVars, allVars, FieldMoves
<1> QED BY <1>1, <1>2, <1>3, <1>4, <1>5, <1>6, <1>7 DEF ExecutionNext, Runs, FieldStep

LEMMA RunInductive ==
  /\ ExecutionInit => RunInv
  /\ RunInv /\ [ExecutionNext]_allVars => RunInv'
<1>1. ASSUME ExecutionInit PROVE RunInv
  <2>1. op \in Operations /\ Root \notin Paths
    BY <1>1, Typed DEF ExecutionInit
  <2>2. /\ \A n \in Paths : field[n] = "waiting"
        /\ field[Root] = "running"
        /\ \A n \in Nodes : value[n] = "none"
        /\ \A n \in Paths : Parent(n) \in Nodes /\ n \in Nodes
        /\ Root \in Nodes
    BY <1>1, <2>1, Typed DEF ExecutionInit, Nodes
  <2>3. \A n \in Nodes : field[n] # "done"
    BY <2>2 DEF Nodes
  <2> QED BY <1>1, <2>1, <2>2, <2>3 DEF ExecutionInit, RunInv
<1>2. ASSUME RunInv, [ExecutionNext]_allVars PROVE RunInv'
  <2>1. op' = op /\ FieldMoves
    BY <1>2, FieldsMove
  <2>2. /\ op \in Operations /\ Root \notin Paths /\ Root \in Nodes
        /\ \A n \in Paths : Parent(n) \in Nodes /\ n \in Nodes
        /\ \A n \in Nodes : n \in Paths \/ n = Root
        /\ \A n \in Paths : Parent(n) # n
        /\ \A n \in Paths : Parent(n) = Root \/ Info(Parent(n)).of # "scalar"
    <3>1. op \in Operations /\ "scalar" \notin DOMAIN Types
      BY <1>2, TypeNames DEF RunInv
    <3>2. ASSUME NEW n \in Paths PROVE Parent(n) # n
      BY <3>1, TrailsLeadUp
    <3>3. /\ Root \notin Paths
          /\ \A n \in Paths : n \in Nodes /\ Parent(n) \in Nodes
          /\ \A n \in Paths : Parent(n) # Root => Info(Parent(n)).of \in DOMAIN Types
      BY <3>1, Typed
    <3>4. Root \in Nodes /\ \A n \in Nodes : n \in Paths \/ n = Root
      BY DEF Nodes
    <3>5. \A n \in Paths : Parent(n) = Root \/ Info(Parent(n)).of # "scalar"
      BY <3>1, <3>3
    <3> QED BY <3>1, <3>2, <3>3, <3>4, <3>5
  <2>3. /\ Paths' = Paths /\ Nodes' = Nodes
        /\ \A n : Parent(n)' = Parent(n)
    BY <2>1, SameOperation
  <2>4. ASSUME UNCHANGED <<field, value, errors>> PROVE RunInv'
    BY <1>2, <2>1, <2>3, <2>4 DEF RunInv
  <2>5. ASSUME NEW n \in Paths, Awaits(n), NEW s \in {"loading", "done"},
               NEW v \in {"none", "null", "value"}, s # "done" => v = "none",
               field' = [field EXCEPT ![n] = s], value' = [value EXCEPT ![n] = v],
               \/ errors' = errors \cup {n} /\ s = "done"
               \/ errors' = errors /\ (s = "done" => Info(n).of = "scalar")
        PROVE  RunInv'
    <3>1. \A m \in Paths : Parent(m) = n => field[m] = "waiting"
      BY <1>2, <2>2, <2>5 DEF RunInv, Awaits
    <3>2. /\ \A m \in Nodes : field'[m] = IF m = n THEN s ELSE field[m]
          /\ \A m \in Nodes : value'[m] = IF m = n THEN v ELSE value[m]
          /\ field' \in [Nodes -> {"waiting", "running", "loading", "done", "absent"}]
          /\ value' \in [Nodes -> {"none", "null", "value"}]
      BY <1>2, <2>2, <2>5 DEF RunInv
    <3>3. errors \subseteq Paths /\ n \notin errors /\ (\A m \in errors : field[m] = "done")
      BY <1>2, <2>5 DEF RunInv, Awaits
    <3>4. errors' \subseteq Paths /\ (\A m \in errors' : field'[m] = "done")
      <4>1. \A m \in errors : m \in Nodes /\ field'[m] = "done"
        BY <2>2, <3>2, <3>3
      <4>2. s = "done" => field'[n] = "done"
        BY <2>2, <3>2
      <4> QED BY <2>5, <3>3, <4>1, <4>2
    <3>5. ASSUME NEW m \in Paths, field'[m] \in {"running", "loading"} PROVE field'[Parent(m)] = "running"
      BY <1>2, <2>2, <2>5, <3>1, <3>2, <3>5 DEF RunInv, Awaits
    <3>6. ASSUME NEW m \in Paths, field'[m] # "waiting" PROVE field'[Parent(m)] \in {"running", "done"}
      BY <1>2, <2>2, <2>5, <3>1, <3>2, <3>6 DEF RunInv, Awaits
    <3>7. ASSUME NEW m \in Paths, field'[Parent(m)] = "done", Parent(m) \notin errors'
          PROVE  field'[m] \in {"done", "absent"}
      <4>1. Parent(m) # n
        BY <2>2, <2>5, <3>2, <3>7
      <4>2. field[m] \in {"done", "absent"}
        BY <1>2, <2>2, <2>5, <3>2, <3>7, <4>1 DEF RunInv
      <4> QED BY <2>2, <2>5, <3>2, <4>2 DEF Awaits
    <3>8. \A m \in Nodes : field'[m] # "done" => value'[m] = "none"
      BY <1>2, <2>5, <3>2 DEF RunInv
    <3>9. field'[Root] \in {"running", "done"}
      BY <1>2, <2>2, <3>2 DEF RunInv
    <3> QED BY <2>1, <2>2, <2>3, <3>2, <3>4, <3>5, <3>6, <3>7, <3>8, <3>9 DEF RunInv
  <2>6. ASSUME NEW n \in Paths, Awaits(n), NEW beyond \in SUBSET Children(n), UNCHANGED <<value, errors>>,
               field' = [m \in Nodes |-> IF m = n THEN "running"
                                        ELSE IF m \in beyond THEN "absent" ELSE field[m]]
        PROVE  RunInv'
    <3>1. \A m \in Paths : Parent(m) = n => field[m] = "waiting"
      BY <1>2, <2>2, <2>6 DEF RunInv, Awaits
    <3>2. \A m \in beyond : m \in Paths /\ Parent(m) = n /\ field[m] = "waiting"
      BY <3>1 DEF Children
    <3>3. \A m \in Paths : Parent(m) \in beyond => field[m] = "waiting"
      BY <1>2, <3>2 DEF RunInv
    <3>4. /\ \A m \in Nodes : field'[m] = IF m = n THEN "running"
                                         ELSE IF m \in beyond THEN "absent" ELSE field[m]
          /\ field' \in [Nodes -> {"waiting", "running", "loading", "done", "absent"}]
      BY <1>2, <2>2, <2>6 DEF RunInv
    <3>5. \A m \in errors : field'[m] = "done"
      BY <1>2, <2>2, <2>6, <3>2, <3>4 DEF RunInv, Awaits
    <3>6. ASSUME NEW m \in Paths, field'[m] \in {"running", "loading"} PROVE field'[Parent(m)] = "running"
      BY <1>2, <2>2, <2>6, <3>1, <3>2, <3>3, <3>4, <3>6 DEF RunInv, Awaits
    <3>7. ASSUME NEW m \in Paths, field'[m] # "waiting" PROVE field'[Parent(m)] \in {"running", "done"}
      BY <1>2, <2>2, <2>6, <3>1, <3>2, <3>3, <3>4, <3>7 DEF RunInv, Awaits
    <3>8. ASSUME NEW m \in Paths, field'[Parent(m)] = "done", Parent(m) \notin errors
          PROVE  field'[m] \in {"done", "absent"}
      <4>1. Parent(m) # n /\ Parent(m) \notin beyond /\ field[Parent(m)] = "done"
        BY <2>2, <3>4, <3>8
      <4>2. field[m] \in {"done", "absent"}
        BY <1>2, <3>8, <4>1 DEF RunInv
      <4> QED BY <2>2, <2>6, <3>4, <4>2 DEF Awaits
    <3>9. \A m \in Nodes : field'[m] # "done" => value'[m] = "none"
      BY <1>2, <2>6, <3>2, <3>4 DEF RunInv, Awaits
    <3>10. field'[Root] \in {"running", "done"}
      BY <1>2, <2>2, <3>2, <3>4 DEF RunInv
    <3> QED BY <1>2, <2>1, <2>2, <2>3, <2>6, <3>4, <3>5, <3>6, <3>7, <3>8, <3>9, <3>10 DEF RunInv
  <2>7. ASSUME NEW n \in Nodes, Finish(n) PROVE RunInv'
    <3>1. PICK v \in {"null", "value"} : Marshalled(n, v)
      BY <2>7 DEF Finish
    <3>2. /\ \A m \in Nodes : field'[m] = IF m = n THEN "done" ELSE field[m]
          /\ \A m \in Nodes : value'[m] = IF m = n THEN v ELSE value[m]
          /\ field' \in [Nodes -> {"waiting", "running", "loading", "done", "absent"}]
          /\ value' \in [Nodes -> {"none", "null", "value"}]
          /\ errors' = errors /\ field[n] = "running"
      BY <1>2, <2>7, <3>1 DEF RunInv, Marshalled, Finish
    <3>3. \A m \in Paths : Parent(m) = n => field[m] \in {"done", "absent"}
      BY <2>7 DEF Finish, Children
    <3>4. ASSUME NEW m \in Paths, field'[m] \in {"running", "loading"} PROVE field'[Parent(m)] = "running"
      BY <1>2, <2>2, <3>2, <3>3, <3>4 DEF RunInv
    <3>5. ASSUME NEW m \in Paths, field'[m] # "waiting" PROVE field'[Parent(m)] \in {"running", "done"}
      BY <1>2, <2>2, <3>2, <3>3, <3>5 DEF RunInv
    <3>6. ASSUME NEW m \in Paths, field'[Parent(m)] = "done", Parent(m) \notin errors
          PROVE  field'[m] \in {"done", "absent"}
      BY <1>2, <2>2, <3>2, <3>3, <3>6 DEF RunInv
    <3>7. /\ \A m \in Nodes : field'[m] # "done" => value'[m] = "none"
          /\ \A m \in errors : field'[m] = "done"
          /\ field'[Root] \in {"running", "done"}
      BY <1>2, <2>2, <3>2 DEF RunInv
    <3> QED BY <1>2, <2>1, <2>2, <2>3, <3>2, <3>4, <3>5, <3>6, <3>7 DEF RunInv
  <2>8. ASSUME NEW n \in Paths, Awaits(n), Fails(n) PROVE RunInv'
    BY <2>5, <2>8 DEF Fails, Marshalled
  <2>9. ASSUME NEW n \in Paths, Awaits(n), field' = [field EXCEPT ![n] = "loading"], UNCHANGED <<value, errors>>
        PROVE  RunInv'
    <3>1. value[n] = "none" /\ value' = [value EXCEPT ![n] = "none"]
      BY <1>2, <2>2, <2>9 DEF RunInv, Awaits
    <3> QED BY <2>5, <2>9, <3>1
  <2>10. ASSUME NEW n \in Paths, Awaits(n), Begins(n), UNCHANGED errors PROVE RunInv'
    <3>1. CASE Info(n).of = "scalar"
      <4>1. PICK v \in {"value", "null"} : Marshalled(n, v)
        BY <2>10, <3>1 DEF Begins
      <4> QED BY <2>5, <2>10, <3>1, <4>1 DEF Marshalled
    <3>2. CASE Info(n).of # "scalar"
      <4>1. PICK beyond \in IF Info(n).of \in Lists THEN Tails(n) ELSE {{}} :
              field' = [m \in Nodes |-> IF m = n THEN "running"
                                       ELSE IF m \in beyond THEN "absent" ELSE field[m]]
        BY <2>10, <3>2 DEF Begins
      <4>2. beyond \in SUBSET Children(n) /\ UNCHANGED value
        BY <2>10, <3>2, <4>1 DEF Begins, Tails
      <4> QED BY <2>6, <2>10, <4>1, <4>2
    <3> QED BY <3>1, <3>2
  <2> QED BY <2>1, <2>4, <2>7, <2>8, <2>9, <2>10 DEF FieldMoves
<1> QED BY <1>1, <1>2

\* Errors come only to where everything above still runs, so what is done keeps
\* what it was marshalled to; an object that finishes is null exactly when an error
\* below it cannot be contained before it.
LEMMA ValueInductive ==
  /\ ExecutionInit => ValueInv
  /\ RunInv /\ ValueInv /\ [ExecutionNext]_allVars => ValueInv'
<1>1. ExecutionInit => ValueInv
  BY DEF ExecutionInit, ValueInv
<1>2. ASSUME RunInv, ValueInv, [ExecutionNext]_allVars PROVE ValueInv'
  <2>1. op' = op /\ FieldMoves
    BY <1>2, FieldsMove
  <2>2. /\ op \in Operations /\ errors \subseteq Paths /\ Root \notin Paths /\ Root \in Nodes
        /\ Trail[Root] = {}
        /\ \A n \in Paths : n \in Nodes /\ Parent(n) \in Paths \cup {Root}
        /\ \A n \in Nodes : n \in Paths \/ n = Root
        /\ \A n \in Paths : AsDeclared(op.selection[n].type, op.selection[n].field, Info(n))
    BY <1>2, Typed, TrailEquation DEF RunInv, Nodes
  <2>3. /\ Paths' = Paths /\ Nodes' = Nodes /\ Trail' = Trail
        /\ \A n : Info(n)' = Info(n) /\ (Nullable(n)' <=> Nullable(n))
    BY <2>1, SameOperation
  <2>4. \A n \in Paths : /\ Nullable(n) <=> ~ Info(n).nonNull
                         /\ op.selection[n].field \in Pointers => Nullable(n)
    BY <2>2 DEF AsDeclared, Nullable
  <2>5. ASSUME NEW n \in Nodes, field[n] = "done", value'[n] = value[n],
               NulledByError(n)' <=> NulledByError(n)
        PROVE  Settled(n)'
    BY <1>2, <2>3, <2>5 DEF ValueInv, Settled
  <2>6. ASSUME UNCHANGED errors, NEW n \in Nodes PROVE NulledByError(n)' <=> NulledByError(n)
    BY <2>3, <2>6 DEF NulledByError
  \* No error lies at or below a field that is about to be entered.
  <2>7. ASSUME NEW n \in Paths, Awaits(n), NEW e \in errors PROVE n \notin Trail[e]
    <3>1. e \in Paths /\ field[e] = "done"
      BY <1>2, <2>2 DEF RunInv
    <3>2. \A k \in Trail[e] \ {e} : field[k] \in {"running", "done"}
      BY <1>2, <3>1, AboveAField
    <3> QED BY <2>7, <3>1, <3>2 DEF Awaits
  <2>8. ASSUME UNCHANGED <<field, value, errors>> PROVE ValueInv'
    <3>1. \A n \in Nodes : field[n] = "done" => Settled(n)'
      BY <2>5, <2>6, <2>8
    <3> QED BY <2>3, <2>8, <3>1 DEF ValueInv
  <2>9. ASSUME NEW n \in Paths, Awaits(n), Fails(n) PROVE ValueInv'
    <3>1. /\ \A m \in Nodes : field'[m] = IF m = n THEN "done" ELSE field[m]
          /\ \A m \in Nodes : value'[m] = IF m = n THEN "null" ELSE value[m]
          /\ errors' = errors \cup {n}
      BY <1>2, <2>2, <2>9 DEF RunInv, Fails, Marshalled
    <3>2. n \in Trail[n] /\ Trail[n] \subseteq Paths
      BY <2>2, TrailsLeadUp
    <3>3. NulledByError(n)'
      BY <2>3, <3>1, <3>2 DEF NulledByError
    <3>4. ASSUME NEW m \in Nodes, field[m] = "done" PROVE NulledByError(m)' <=> NulledByError(m)
      <4>1. field[Root] = "running" /\ \A k \in Trail[n] \ {n} : field[k] = "running"
        BY <1>2, <2>9, AboveAField DEF Awaits
      <4>2. m \notin Trail[n] \cup {Root}
        BY <2>9, <3>4, <4>1 DEF Awaits
      <4> QED BY <2>3, <3>1, <4>2 DEF NulledByError
    <3>5. ASSUME NEW m \in Nodes, field'[m] = "done" PROVE Settled(m)'
      <4>1. CASE m = n
        BY <2>2, <3>1, <3>3, <4>1 DEF Settled
      <4>2. CASE m # n
        BY <2>5, <3>1, <3>4, <3>5, <4>2
      <4> QED BY <4>1, <4>2
    <3> QED BY <2>3, <3>5 DEF ValueInv
  <2>10. ASSUME NEW n \in Paths, Awaits(n), Begins(n), UNCHANGED errors PROVE ValueInv'
    <3>1. CASE Info(n).of = "scalar"
      <4>1. PICK v \in {"value"} \cup (IF op.selection[n].field \in Pointers THEN {"null"} ELSE {}) :
              Marshalled(n, v)
        BY <2>10, <3>1 DEF Begins
      <4>2. /\ \A m \in Nodes : field'[m] = IF m = n THEN "done" ELSE field[m]
            /\ \A m \in Nodes : value'[m] = IF m = n THEN v ELSE value[m]
        BY <1>2, <2>2, <4>1 DEF RunInv, Marshalled
      <4>3. ~ NulledByError(n)
        BY <2>2, <2>7, <2>10 DEF NulledByError
      <4>4. v = "value" \/ Nullable(n)
        BY <2>4, <4>1
      <4>5. ~ NulledByError(n)'
        BY <2>2, <2>6, <2>10, <4>3
      <4>6. Settled(n)'
        BY <2>2, <2>3, <3>1, <4>2, <4>4, <4>5 DEF Settled
      <4>7. ASSUME NEW m \in Nodes, field'[m] = "done" PROVE Settled(m)'
        BY <2>5, <2>6, <2>10, <4>2, <4>6, <4>7
      <4> QED BY <2>3, <4>7 DEF ValueInv
    <3>2. CASE Info(n).of # "scalar"
      <4>1. PICK beyond : field' = [m \in Nodes |-> IF m = n THEN "running"
                                                 ELSE IF m \in beyond THEN "absent" ELSE field[m]]
        BY <2>10, <3>2 DEF Begins
      <4>2. value' = value
        BY <2>10, <3>2 DEF Begins
      <4>3. ASSUME NEW m \in Nodes, field'[m] = "done" PROVE Settled(m)'
        <5>1. field[m] = "done"
          BY <4>1, <4>3
        <5> QED BY <2>5, <2>6, <2>10, <4>2, <5>1
      <4> QED BY <2>3, <4>3 DEF ValueInv
    <3> QED BY <3>1, <3>2
  <2>11. ASSUME NEW n \in Paths, field' = [field EXCEPT ![n] = "loading"], UNCHANGED <<value, errors>>
         PROVE  ValueInv'
    <3>1. ASSUME NEW m \in Nodes, field'[m] = "done" PROVE Settled(m)'
      <4>1. field[m] = "done"
        BY <1>2, <2>2, <2>11, <3>1 DEF RunInv
      <4> QED BY <2>5, <2>6, <2>11, <4>1
    <3> QED BY <2>3, <3>1 DEF ValueInv
  <2>12. ASSUME NEW n \in Nodes, Finish(n) PROVE ValueInv'
    <3> DEFINE nulled == \E m \in Children(n) : Info(m).nonNull /\ value[m] = "null"
    <3>1. /\ \A m \in Nodes : field'[m] = IF m = n THEN "done" ELSE field[m]
          /\ \A m \in Nodes : value'[m] = IF m = n THEN (IF nulled THEN "null" ELSE "value") ELSE value[m]
          /\ errors' = errors /\ field[n] = "running"
      BY <1>2, <2>12 DEF RunInv, Marshalled, Finish
    <3>2. ASSUME NEW m \in Children(n)
          PROVE  /\ m \in Paths /\ Parent(m) = n /\ m \in Trail[m] /\ m \notin Trail[n]
                 /\ Trail[m] = {m} \cup Trail[n]
      BY <2>2, TrailsLeadUp, TrailEquation DEF Children
    <3>3. ASSUME NEW m \in Children(n), Info(m).nonNull, value[m] = "null" PROVE NulledByError(n)
      <4>1. m \in Paths /\ Parent(m) = n /\ ~ Nullable(m) /\ field[m] = "done"
        BY <1>2, <2>2, <2>4, <3>2, <3>3 DEF RunInv
      <4>2. NulledByError(m)
        BY <1>2, <2>2, <3>3, <4>1 DEF ValueInv, Settled
      <4>3. PICK e \in errors : m \in Trail[e] /\ \A k \in Trail[e] \ Trail[m] : ~ Nullable(k)
        BY <2>2, <4>1, <4>2 DEF NulledByError
      <4>4. Trail[m] \subseteq Trail[e]
        BY <2>2, <4>3, TrailsLeadUp
      <4>5. n \in Trail[n] \/ n = Root
        BY <2>2, TrailsLeadUp
      <4> QED BY <3>2, <4>1, <4>3, <4>4, <4>5 DEF NulledByError
    <3>4. ASSUME NulledByError(n) PROVE nulled
      <4>1. PICK e \in errors : n \in Trail[e] \cup {Root} /\ \A k \in Trail[e] \ Trail[n] : ~ Nullable(k)
        BY <3>4 DEF NulledByError
      <4>2. e \in Paths /\ field[e] = "done" /\ e # n
        BY <1>2, <2>2, <3>1 DEF RunInv
      <4>3. PICK m \in Trail[e] : Parent(m) = n
        BY <2>2, <4>1, <4>2, TrailsLeadUp
      <4>4. m \in Paths /\ m \in Children(n) /\ Trail[m] \subseteq Trail[e]
        BY <2>2, <4>2, <4>3, TrailsLeadUp DEF Children
      <4>5. ~ Nullable(m) /\ Info(m).nonNull
        BY <2>4, <3>2, <4>1, <4>3, <4>4
      <4>6. NulledByError(m)
        BY <3>2, <4>1, <4>3, <4>4 DEF NulledByError
      <4>7. field[m] = "done"
        <5>1. m = e \/ field[m] \in {"running", "done"}
          BY <1>2, <4>2, <4>3, AboveAField
        <5>2. field[m] \in {"done", "absent"}
          BY <2>12, <4>4 DEF Finish
        <5> QED BY <4>2, <5>1, <5>2
      <4>8. value[m] = "null"
        BY <1>2, <2>2, <4>4, <4>5, <4>6, <4>7 DEF ValueInv, Settled
      <4> QED BY <4>4, <4>5, <4>8
    <3>5. nulled <=> NulledByError(n)
      BY <3>3, <3>4
    <3>6. NulledByError(n)' <=> nulled
      BY <2>6, <3>1, <3>5
    <3> HIDE DEF nulled
    <3>7. Settled(n)'
      <4>1. value'[n] = IF NulledByError(n)' THEN "null" ELSE "value"
        BY <3>1, <3>6
      <4> QED BY <4>1 DEF Settled
    <3>8. ASSUME NEW m \in Nodes, field'[m] = "done" PROVE Settled(m)'
      <4>1. CASE m = n
        BY <3>7, <4>1
      <4>2. CASE m # n
        BY <2>5, <2>6, <3>1, <3>8, <4>2
      <4> QED BY <4>1, <4>2
    <3> QED BY <2>3, <3>8 DEF ValueInv
  <2> QED BY <2>1, <2>8, <2>9, <2>10, <2>11, <2>12 DEF FieldMoves
<1> QED BY <1>1, <1>2

\* The response of every operation, however its fields interleave and whatever
\* fails, is what the schema makes of the errors: nothing is still running once it
\* is given, what is missing lies under an error or beyond the end of a list, and
\* a place is null exactly when an error below it reaches it (_Query 4525-4633).
THEOREM ResponsesAreSound == ExecutionSpec => []ResponseIsSound
<1>1. ASSUME RunInv, ValueInv PROVE ResponseIsSound
  <2> SUFFICES ASSUME field[Root] = "done"
               PROVE  \A n \in Nodes :
                        /\ field[n] \notin {"running", "loading"}
                        /\ field[n] # "done" => \E m \in Trail[n] : m \in errors \/ field[m] = "absent"
                        /\ field[n] = "done" => Settled(n)
    BY DEF ResponseIsSound, Settled
  <2> DEFINE Missing(n) == field[n] # "done" => \E m \in Trail[n] : m \in errors \/ field[m] = "absent"
             B == {n \in Paths : field[n] \notin {"running", "loading"} /\ Missing(n)}
  <2>1. /\ op \in Operations /\ Root \notin Paths /\ Root \notin errors
        /\ \A n \in Nodes : n \in Paths \/ n = Root
        /\ \A n \in Paths : Trail[n] = {n} \cup Trail[Parent(n)] /\ Parent(n) \in Paths \cup {Root}
    BY <1>1, Typed, TrailEquation DEF RunInv, Nodes
  <2>2. ASSUME NEW n \in Paths, Parent(n) = Root PROVE n \in B
    <3>1. field[n] \in {"done", "absent"}
      BY <1>1, <2>1, <2>2 DEF RunInv
    <3> QED BY <2>1, <3>1
  <2>3. ASSUME NEW n \in Paths, Parent(n) \in B PROVE n \in B
    <3>1. field[n] \notin {"running", "loading"}
      BY <1>1, <2>3 DEF RunInv
    <3>2. CASE field[Parent(n)] = "done" /\ Parent(n) \notin errors
      <4>1. field[n] \in {"done", "absent"}
        BY <1>1, <3>2 DEF RunInv
      <4> QED BY <2>1, <4>1
    <3>3. CASE Parent(n) \in errors
      <4>1. Parent(n) \in Trail[Parent(n)]
        BY <2>1, <2>3
      <4> QED BY <2>1, <3>1, <3>3, <4>1
    <3>4. CASE field[Parent(n)] # "done"
      BY <2>1, <2>3, <3>1, <3>4
    <3> QED BY <3>2, <3>3, <3>4
  <2> HIDE DEF B
  <2>4. Paths \subseteq B
    BY <2>1, <2>2, <2>3, TreeInduction
  <2>5. ASSUME NEW n \in Paths PROVE field[n] \notin {"running", "loading"} /\ Missing(n)
    BY <2>4 DEF B
  <2> QED BY <1>1, <2>1, <2>5 DEF ValueInv
<1> QED BY <1>1, RunInductive, ValueInductive, PTL DEF ExecutionSpec

(***************************************************************************)
(* What a mutation shows of the comments.                                  *)
(***************************************************************************)

\* The root fields of a mutation run one after the other; the one that runs is the
\* last that changed the store.
EffectInv ==
  /\ effects \in Seq(Paths)
  /\ op.kind = "Mutation" =>
       /\ \A r \in Paths : Parent(r) = Root /\ field[r] = "running" => effects # <<>> /\ Last(effects) = r
       /\ \A m, r \in Paths :
            /\ Parent(m) = Root /\ Parent(r) = Root
            /\ op.selection[m].place < op.selection[r].place /\ field[r] # "waiting"
            => field[m] = "done"

\* Who waits for the loader is a field that waits for its page, and nobody returns
\* without an answer before the context ends.
WaitInv ==
  /\ \A l \in Loads : load[l] = "waiting" => l \in Paths /\ field[l] = "loading"
  /\ \A n \in Paths : field[n] = "loading" => Info(n).from = "loader"
  /\ \A l \in Loads : load[l] = "returned" => result[l] \in Answers \/ ctxDone

\* A step of a field touches that field and, if it is a list, the elements beyond
\* its end.
LEMMA OneFieldAtATime ==
  ASSUME RunInv, NEW n \in Paths, FieldStep(n)
  PROVE  /\ op' = op
         /\ Ready(n) \/ LoadReturns(n)
         /\ \A m \in Nodes : m # n /\ field'[m] # field[m] =>
              m \in Paths /\ Parent(m) = n /\ field[m] = "waiting" /\ field'[m] = "absent"
         /\ field'[n] = "loading" => CallLoad(n)
<1>1. op' = op /\ (Ready(n) \/ LoadReturns(n))
  BY DEF FieldStep, TakeFromParent, CallService, CallLoad, CursorIsRefused, ArgumentsAreRefused, LoadReturns
<1>2. op \in Operations /\ n \in Nodes /\ field \in [Nodes -> {"waiting", "running", "loading", "done", "absent"}]
  BY DEF RunInv, Nodes
<1> DEFINE Touched == \A m \in Nodes : m # n /\ field'[m] # field[m] =>
                        m \in Paths /\ Parent(m) = n /\ field[m] = "waiting" /\ field'[m] = "absent"
<1>3. ASSUME NEW s, field' = [field EXCEPT ![n] = s] PROVE Touched /\ field'[n] = s
  BY <1>2, <1>3
<1>4. Fails(n) => Touched /\ field'[n] = "done"
  BY <1>3 DEF Fails, Marshalled
<1>5. ASSUME Begins(n), field[n] \in {"waiting", "loading"} PROVE Touched /\ field'[n] # "loading"
  <2>1. CASE Info(n).of = "scalar"
    BY <1>3, <1>5, <2>1 DEF Begins, Marshalled
  <2>2. CASE Info(n).of # "scalar"
    <3>1. PICK beyond \in IF Info(n).of \in Lists THEN Tails(n) ELSE {{}} :
            field' = [m \in Nodes |-> IF m = n THEN "running"
                                     ELSE IF m \in beyond THEN "absent" ELSE field[m]]
      BY <1>5, <2>2 DEF Begins
    <3>2. \A m \in beyond : m \in Paths /\ Parent(m) = n
      BY <3>1 DEF Tails, Children
    <3>3. \A m \in beyond : field[m] = "waiting"
      BY <1>5, <3>2 DEF RunInv
    <3> QED BY <1>2, <3>1, <3>2, <3>3
  <2> QED BY <2>1, <2>2
<1> HIDE DEF Touched
<1>6. Ready(n) => field[n] \in {"waiting", "loading"}
  BY DEF Ready
<1>7. TakeFromParent(n) => Touched /\ field'[n] # "loading"
  BY <1>5, <1>6 DEF TakeFromParent
<1>8. CallService(n) => Touched /\ field'[n] # "loading"
  BY <1>4, <1>5, <1>6 DEF CallService
<1>9. CursorIsRefused(n) \/ ArgumentsAreRefused(n) => Touched /\ field'[n] # "loading"
  BY <1>4 DEF CursorIsRefused, ArgumentsAreRefused
<1>10. LoadReturns(n) => Touched /\ field'[n] # "loading"
  BY <1>4, <1>5 DEF LoadReturns
<1>11. CallLoad(n) => Touched
  BY <1>3 DEF CallLoad
<1>12. Touched /\ (field'[n] = "loading" => CallLoad(n))
  BY <1>7, <1>8, <1>9, <1>10, <1>11 DEF FieldStep
<1> QED BY <1>1, <1>12 DEF Touched

\* Only the root fields are resolved by services.
LEMMA ServicesAtTheRoot ==
  ASSUME op \in Operations, NEW n \in Paths
  PROVE  /\ Parent(n) = Root <=> Info(n).from = "service"
         /\ op.kind = "Mutation" /\ Parent(n) = Root => ~ Info(n).concurrent
<1>1. /\ op.kind \in {"Query", "Mutation"} /\ Parent(n) \in Paths \cup {Root}
      /\ op.selection[n].type = IF Parent(n) = Root THEN op.kind ELSE Info(Parent(n)).of
      /\ AsDeclared(op.selection[n].type, op.selection[n].field, Info(n))
  BY Typed
<1>2. Parent(n) # Root => Info(Parent(n)).of \notin {"Query", "Mutation"}
  BY <1>1, Typed DEF AsDeclared
<1> QED BY <1>1, <1>2 DEF AsDeclared

LEMMA WaitInductive ==
  /\ ExecutionInit => WaitInv
  /\ TypeOK /\ RunInv /\ WaitInv /\ [ExecutionNext]_allVars => WaitInv'
<1>1. ASSUME ExecutionInit PROVE WaitInv
  <2>1. (\A n \in Paths : field[n] = "waiting") /\ \A l \in Loads : load[l] = "idle"
    BY <1>1, SelectionsAreTrees DEF ExecutionInit, Init, Nodes, Paths
  <2> QED BY <2>1 DEF WaitInv
<1>2. ASSUME TypeOK, RunInv, WaitInv, [ExecutionNext]_allVars PROVE WaitInv'
  <2>1. op' = op /\ op \in Operations /\ Root \notin Paths
    BY <1>2, FieldsMove, Typed DEF RunInv
  <2>2. Paths' = Paths /\ (\A n \in Paths : n \in Nodes) /\ \A n : Info(n)' = Info(n)
    BY <2>1, SameOperation DEF Nodes
  <2>3. ASSUME UNCHANGED <<load, result>>, ctxDone => ctxDone',
               \A n \in Paths : field[n] = "loading" <=> field'[n] = "loading"
        PROVE  WaitInv'
    BY <1>2, <2>2, <2>3 DEF WaitInv
  <2>4. ASSUME NEW n \in Paths, CallLoad(n) PROVE WaitInv'
    <3>1. Info(n).from = "loader" /\ load[n] = "idle" /\ field[n] = "waiting"
      BY <2>4 DEF CallLoad, Load, Ready
    <3>2. /\ \A m \in Paths : field'[m] = IF m = n THEN "loading" ELSE field[m]
          /\ \A l \in Loads : load'[l] = IF l = n THEN "waiting" ELSE load[l]
          /\ UNCHANGED <<result, ctxDone>>
      BY <1>2, <2>2, <2>4 DEF CallLoad, Load, RunInv, TypeOK
    <3> QED BY <1>2, <2>2, <2>4, <3>1, <3>2 DEF WaitInv
  <2>5. ASSUME NEW n \in Paths, LoadReturns(n) PROVE WaitInv'
    <3>1. /\ \A m \in Paths : field[m] = "loading" /\ m # n => field'[m] = "loading"
          /\ \A m \in Paths : field'[m] = "loading" => field[m] = "loading"
      <4>1. \A m \in Paths : m # n /\ field'[m] # field[m] => field[m] = "waiting" /\ field'[m] = "absent"
        BY <1>2, <2>2, <2>5, OneFieldAtATime DEF FieldStep
      <4> QED BY <2>5, <4>1 DEF LoadReturns
    <3>2. ctxDone' = ctxDone /\ (load[n] = "waiting" => \A l \in Loads : l # n => load'[l] = load[l] /\ result'[l] = result[l])
      BY <1>2, <2>5 DEF LoadReturns, LoadReceives, LoadGivesUp, TypeOK
    <3>3. n \in Loads => load'[n] = "returned" /\ (result'[n] \in Answers \/ ctxDone)
      BY <1>2, <2>5 DEF LoadReturns, LoadReceives, LoadGivesUp, TypeOK
    <3>4. load[n] = "waiting"
      BY <2>5 DEF LoadReturns, LoadReceives, LoadGivesUp
    <3> QED BY <1>2, <2>2, <3>1, <3>2, <3>3, <3>4 DEF WaitInv
  <2>6. ASSUME NEW n \in Paths, FieldStep(n), ~ CallLoad(n), ~ LoadReturns(n) PROVE WaitInv'
    <3>1. UNCHANGED <<load, result, ctxDone>> /\ field[n] = "waiting"
      BY <2>6 DEF FieldStep, TakeFromParent, CallService, CursorIsRefused, ArgumentsAreRefused, Ready,
         vars, loadVars
    <3>2. /\ \A m \in Paths : m # n /\ field'[m] # field[m] => field[m] = "waiting" /\ field'[m] = "absent"
          /\ field'[n] # "loading"
      BY <1>2, <2>2, <2>6, OneFieldAtATime
    <3> QED BY <2>3, <3>1, <3>2
  <2>7. ASSUME NEW n \in Nodes, Finish(n) PROVE WaitInv'
    <3>1. \A m \in Paths : field[m] = "loading" <=> field'[m] = "loading"
      BY <1>2, <2>2, <2>7 DEF Finish, Marshalled, RunInv
    <3> QED BY <2>3, <2>7, <3>1 DEF Finish, vars, loadVars
  <2>8. ASSUME UNCHANGED execVars, UNCHANGED loadVars, ctxDone => ctxDone' PROVE WaitInv'
    BY <2>3, <2>8 DEF execVars, loadVars
  <2>9. (\E d \in Loads : DispatcherStep(d)) \/ EndContext => UNCHANGED loadVars /\ (ctxDone => ctxDone')
    BY DEF DispatcherStep, TakeBatch, ReadNextPage, ReadingFails, ReadingEnds, AnswerNext, DispatchEnds, EndContext
  <2>10. UNCHANGED allVars => WaitInv'
    BY <2>8 DEF allVars, vars
  <2> QED BY <1>2, <2>4, <2>5, <2>6, <2>7, <2>8, <2>9, <2>10 DEF ExecutionNext, Runs
<1> QED BY <1>1, <1>2

LEMMA EffectInductive ==
  /\ ExecutionInit => EffectInv
  /\ RunInv /\ WaitInv /\ EffectInv /\ [ExecutionNext]_allVars => EffectInv'
<1>1. ASSUME ExecutionInit PROVE EffectInv
  <2>1. (\A n \in Paths : field[n] = "waiting") /\ effects = <<>> /\ <<>> \in Seq(Paths)
    BY <1>1, SelectionsAreTrees, EmptySeq DEF ExecutionInit, Nodes, Paths
  <2> QED BY <2>1 DEF EffectInv
<1>2. ASSUME RunInv, WaitInv, EffectInv, [ExecutionNext]_allVars PROVE EffectInv'
  <2>1. op' = op /\ op \in Operations /\ Root \notin Paths
    BY <1>2, FieldsMove, Typed DEF RunInv
  <2>2. Paths' = Paths /\ (\A n \in Paths : n \in Nodes) /\ \A n : Parent(n)' = Parent(n)
    BY <2>1, SameOperation DEF Nodes
  <2>3. ASSUME UNCHANGED effects,
               \A r \in Paths : Parent(r) = Root /\ field'[r] # field[r] => field[r] = "running" /\ field'[r] = "done"
        PROVE  EffectInv'
    BY <1>2, <2>1, <2>2, <2>3 DEF EffectInv
  <2>4. ASSUME NEW n \in Paths, FieldStep(n), Parent(n) # Root PROVE EffectInv'
    <3>1. ~ CallService(n)
      BY <2>1, <2>4, ServicesAtTheRoot DEF CallService
    <3>2. UNCHANGED effects
      BY <2>4, <3>1 DEF FieldStep, TakeFromParent, CallLoad, CursorIsRefused, ArgumentsAreRefused, LoadReturns
    <3>3. \A r \in Paths : Parent(r) = Root => field'[r] = field[r]
      BY <1>2, <2>1, <2>2, <2>4, OneFieldAtATime
    <3> QED BY <2>3, <3>2, <3>3
  <2>5. ASSUME NEW n \in Paths, FieldStep(n), Parent(n) = Root PROVE EffectInv'
    <3>1. Info(n).from = "service"
      BY <2>1, <2>5, ServicesAtTheRoot
    <3>2. Ready(n) /\ (CallService(n) \/ (ArgumentsAreRefused(n) /\ UNCHANGED effects))
      BY <1>2, <2>5, <3>1 DEF FieldStep, TakeFromParent, CallService, CallLoad, CursorIsRefused,
         ArgumentsAreRefused, LoadReturns, WaitInv
    <3>3. effects' \in Seq(Paths)
      BY <1>2, <2>5, <3>2, AppendProperties DEF CallService, EffectInv
    <3>4. /\ field[n] = "waiting" /\ n \notin errors
          /\ \A r \in Paths : Parent(r) = Root /\ r # n => field'[r] = field[r]
      BY <1>2, <2>1, <2>2, <2>5, <3>2, OneFieldAtATime DEF Ready, RunInv
    <3>5. ASSUME op.kind = "Mutation"
          PROVE  /\ \A r \in Paths : Parent(r) = Root /\ field'[r] = "running" => effects' # <<>> /\ Last(effects') = r
                 /\ \A m, r \in Paths :
                      /\ Parent(m) = Root /\ Parent(r) = Root
                      /\ op.selection[m].place < op.selection[r].place /\ field'[r] # "waiting"
                      => field'[m] = "done"
      <4>1. /\ \A m \in Paths : op.selection[m].place \in Nat
            /\ \A m, r \in Paths : Parent(m) = Parent(r) /\ op.selection[m].place = op.selection[r].place => m = r
            /\ \A m \in Paths : Parent(m) = Root => ~ Info(m).concurrent
        BY <2>1, <3>5, Typed, ServicesAtTheRoot
      <4>2. ASSUME NEW m \in Paths, Parent(m) = Root, op.selection[m].place < op.selection[n].place
            PROVE  field[m] = "done"
        <5>1. m \in Before(n) /\ ~ Info(n).concurrent /\ ~ Info(m).concurrent
          BY <2>5, <4>1, <4>2 DEF Before, Children
        <5> QED BY <3>2, <5>1 DEF Ready
      <4>3. ASSUME NEW m \in Paths, Parent(m) = Root, op.selection[m].place > op.selection[n].place
            PROVE  field[m] = "waiting"
        BY <1>2, <2>5, <3>4, <3>5, <4>1, <4>3 DEF EffectInv
      <4>4. \A m \in Paths : Parent(m) = Root /\ m # n => field[m] \in {"waiting", "done"}
        <5>1. \A m \in Paths : Parent(m) = Root /\ m # n =>
                op.selection[m].place < op.selection[n].place \/ op.selection[m].place > op.selection[n].place
          BY <2>5, <4>1
        <5> QED BY <4>2, <4>3, <5>1
      <4>5. field'[n] = "running" => effects' = Append(effects, n)
        <5>1. Fails(n) => field'[n] = "done"
          BY <1>2, <2>2, <2>5 DEF Fails, Marshalled, RunInv
        <5> QED BY <3>2, <3>4, <3>5, <5>1 DEF CallService, ArgumentsAreRefused
      <4>6. effects \in Seq(Paths) /\ (effects' = Append(effects, n) => effects' # <<>> /\ Last(effects') = n)
        BY <1>2, <2>5, AppendProperties, EmptySeq DEF EffectInv, Last
      <4>7. ASSUME NEW r \in Paths, Parent(r) = Root, field'[r] = "running"
            PROVE  effects' # <<>> /\ Last(effects') = r
        BY <3>4, <4>4, <4>5, <4>6, <4>7
      <4>8. ASSUME NEW m \in Paths, NEW r \in Paths, Parent(m) = Root, Parent(r) = Root,
                   op.selection[m].place < op.selection[r].place, field'[r] # "waiting"
            PROVE  field'[m] = "done"
        <5>1. CASE r = n
          <6>1. m # n
            BY <4>1, <4>8, <5>1
          <6> QED BY <3>4, <4>2, <4>8, <5>1, <6>1
        <5>2. CASE r # n
          <6>1. field[m] = "done"
            BY <1>2, <3>4, <3>5, <4>8, <5>2 DEF EffectInv
          <6> QED BY <3>4, <4>8, <6>1
        <5> QED BY <5>1, <5>2
      <4> QED BY <4>7, <4>8
    <3> QED BY <2>1, <2>2, <3>3, <3>5 DEF EffectInv
  <2>6. ASSUME NEW n \in Nodes, Finish(n) PROVE EffectInv'
    <3>1. \A r \in Paths : field'[r] # field[r] => field[r] = "running" /\ field'[r] = "done"
      BY <1>2, <2>2, <2>6 DEF Finish, Marshalled, RunInv
    <3> QED BY <2>3, <2>6, <3>1 DEF Finish
  <2>7. UNCHANGED execVars \/ UNCHANGED allVars => EffectInv'
    BY <2>3 DEF execVars, allVars
  <2> QED BY <1>2, <2>4, <2>5, <2>6, <2>7 DEF ExecutionNext, Runs
<1> QED BY <1>1, <1>2

LEMMA ExecutionAlways ==
  ExecutionSpec => [](TypeOK /\ PagesInv /\ PlaceInv /\ RunInv /\ WaitInv /\ EffectInv)
<1>1. Spec => [](TypeOK /\ PagesInv /\ PlaceInv)
  BY LoaderInductive, PlaceInductive, PTL DEF Spec
<1>2. ExecutionInit => RunInv /\ WaitInv /\ EffectInv
  BY RunInductive, WaitInductive, EffectInductive
<1>3. TypeOK /\ RunInv /\ WaitInv /\ EffectInv /\ [ExecutionNext]_allVars => RunInv' /\ WaitInv' /\ EffectInv'
  BY RunInductive, WaitInductive, EffectInductive
<1> QED BY <1>1, <1>2, <1>3, ExecutionImplementsLoader, PTL DEF ExecutionSpec

\* Every variable of an operation keeps its type (executionContext of the generated
\* code, and the loader's fields).
THEOREM ExecutionIsTyped == ExecutionSpec => []ExecutionTypeOK
<1>1. TypeOK /\ RunInv /\ EffectInv => ExecutionTypeOK
  BY DEF RunInv, EffectInv, ExecutionTypeOK
<1> QED BY <1>1, ExecutionAlways, PTL

\* In a mutation whatever is read for a field is read after the field has changed
\* the store and before the next field does, for as many fields and loads as there
\* are: whoever reads for a load that is still awaited reads below the running root
\* field, and nobody reads for one that has been given up (_Mutation 4057-4132,
\* comment_loader.go:95-143).
THEOREM ReadsFollowEffects == ExecutionSpec => ReadsFollowTheirEffect
<1> DEFINE Follows ==
             op.kind = "Mutation" =>
               \A d \in Loads :
                 Len(pages'[d]) > Len(pages[d]) => Last(effects) \in Trail[Last(pages'[d])]
           Inv == TypeOK /\ PagesInv /\ PlaceInv /\ RunInv /\ WaitInv /\ EffectInv
<1>1. ASSUME Inv, NEW d \in Loads, ReadNextPage(d), op.kind = "Mutation"
      PROVE  Last(effects) \in Trail[Last(pages'[d])]
  <2> DEFINE next == Len(pages[d]) + 1
  <2>1. /\ pages[d] \in Seq(Loads) /\ batch[d] \in Seq(Loads) /\ next \in Nat
        /\ next \in 1..Len(batch[d]) /\ answered[d] = 0
    BY <1>1 DEF ReadNextPage, TypeOK, PlaceInv
  <2>2. PICK l \in Loads : l = batch[d][next]
    BY <2>1
  <2>3. Last(pages'[d]) = l
    <3>1. pages'[d] = Append(pages[d], l)
      BY <1>1, <2>2 DEF ReadNextPage, TypeOK
    <3> QED BY <2>1, <2>2, <3>1, AppendProperties DEF Last
  <2>4. Batched(l, d, next)
    BY <1>1, <2>1, <2>2 DEF Batched, ReadNextPage
  <2>5. ~ Arrived(l) /\ load[l] # "idle"
    BY <1>1, <2>1, <2>4 DEF PlaceInv, Placed
  <2>6. load[l] = "waiting"
    BY <1>1, <2>5 DEF TypeOK, WaitInv, Arrived, ReadNextPage
  <2>7. l \in Paths /\ field[l] = "loading" /\ Info(l).from = "loader" /\ op \in Operations
    BY <1>1, <2>6 DEF WaitInv, RunInv
  <2>8. Parent(l) # Root /\ Root \notin Paths
    BY <2>7, ServicesAtTheRoot, Typed
  <2>9. field[Parent(l)] = "running"
    BY <1>1, <2>7 DEF RunInv
  <2>10. PICK r \in Trail[l] : Parent(r) = Root
    BY <2>7, <2>8, TrailsLeadUp
  <2>11. r \in Paths /\ r # l /\ field[r] = "running"
    BY <1>1, <2>7, <2>8, <2>9, <2>10, AboveAField, TrailsLeadUp
  <2>12. Last(effects) = r
    BY <1>1, <2>10, <2>11 DEF EffectInv
  <2> QED BY <2>3, <2>10, <2>12
<1>2. ASSUME TypeOK, [Next]_vars, NEW d \in Loads, Len(pages'[d]) > Len(pages[d]) PROVE ReadNextPage(d)
  <2>1. Len(pages[d]) \in Nat /\ Len(<<>>) = 0
    BY <1>2, EmptySeq DEF TypeOK
  <2>2. pages'[d] # pages[d] /\ pages'[d] # <<>>
    BY <1>2, <2>1
  <2>3. UNCHANGED pages => FALSE
    BY <2>2
  <2>4. ASSUME NEW e \in Loads, DispatcherStep(e) PROVE ReadNextPage(d)
    <3>1. ReadNextPage(e) \/ ReadingFails(e)
      BY <2>3, <2>4 DEF DispatcherStep, TakeBatch, ReadingEnds, AnswerNext, DispatchEnds
    <3>2. e = d
      BY <1>2, <2>2, <3>1 DEF ReadNextPage, ReadingFails, TypeOK
    <3>3. ~ ReadingFails(d)
      BY <1>2, <2>2 DEF ReadingFails, TypeOK
    <3> QED BY <3>1, <3>2, <3>3
  <2>5. ASSUME NEW l \in Loads PROVE ~ Load(l) /\ ~ LoadReceives(l) /\ ~ LoadGivesUp(l)
    BY <2>3 DEF Load, LoadReceives, LoadGivesUp, dispatcherVars
  <2>6. ~ EndContext /\ ~ UNCHANGED vars
    BY <2>3 DEF EndContext, vars, dispatcherVars
  <2> QED BY <1>2, <2>4, <2>5, <2>6 DEF Next
<1>3. ASSUME Inv, [ExecutionNext]_allVars PROVE [Follows]_allVars
  <2>1. LoadingInv
    <3>1. ASSUME NEW n \in Nodes, field[n] = "loading" PROVE n \in Loads
      <4>1. n \in Paths /\ Info(n).from = "loader" /\ op \in Operations
        BY <1>3, <3>1 DEF Nodes, RunInv, WaitInv
      <4> QED BY <4>1, LoadsAreLoadedFields DEF Info, Paths
    <3> QED BY <1>3, <3>1 DEF LoadingInv, RunInv
  <2>2. [Next]_vars
    BY <1>3, <2>1, ExecutionSteps
  <2> QED BY <1>1, <1>2, <1>3, <2>2
<1> QED BY <1>3, ExecutionAlways, PTL DEF ExecutionSpec, ReadsFollowTheirEffect

(***************************************************************************)
(* Somebody can always go on.                                              *)
(*                                                                         *)
(* EveryOperationAnswers and EveryDispatcherEnds need fairness; what is    *)
(* proved is that nothing waits for ever for want of a step that can be    *)
(* taken, with the guards of the steps written out.                        *)
(***************************************************************************)

\* TakeFromParent, CallService, CallLoad; LoadReturns
FieldIsDue(n) ==
  \/ Ready(n) /\ (Info(n).from = "loader" => load[n] = "idle")
  \/ field[n] = "loading" /\ load[n] = "waiting" /\ (response[n] # "empty" \/ ctxDone)

\* Finish
ObjectIsDue(n) == field[n] = "running" /\ \A m \in Children(n) : field[m] \in {"done", "absent"}

\* TakeBatch; ReadNextPage, ReadingFails, ReadingEnds; AnswerNext, DispatchEnds
DispatcherIsDue(d) ==
  \/ dispatcher[d] = "delaying"
  \/ dispatcher[d] = "reading" /\ Len(pages[d]) <= Len(batch[d])
  \/ dispatcher[d] = "answering" /\ answered[d] <= Len(batch[d])

OperationCanGoOn ==
  \/ field[Root] = "done"
  \/ \E n \in Paths : FieldIsDue(n)
  \/ \E n \in Nodes : ObjectIsDue(n)
  \/ \E d \in Loads : DispatcherIsDue(d)

\* A field calls the loader once, and waits until its call returns; only elements of
\* lists are ever missing.
CallInv ==
  /\ \A n \in Paths : field[n] = "loading" => n \in Loads /\ load[n] = "waiting"
  /\ \A l \in Loads : load[l] # "idle" => l \in Paths /\ field[l] # "waiting"
  /\ \A n \in Paths : field[n] = "absent" => Info(n).concurrent

\* A step of a field enters it, and gives up nothing but elements of its list.
LEMMA FieldIsEntered ==
  ASSUME RunInv, NEW n \in Paths, FieldStep(n)
  PROVE  /\ field'[n] \in {"running", "loading", "done"}
         /\ \A m \in Paths : field'[m] = "absent" /\ field[m] # "absent" =>
              Parent(m) = n /\ Info(n).of \in Lists
<1>1. n \in Nodes /\ (\A m \in Paths : m \in Nodes)
      /\ field \in [Nodes -> {"waiting", "running", "loading", "done", "absent"}]
  BY DEF RunInv, Nodes
<1> DEFINE Entered == /\ field'[n] \in {"running", "loading", "done"}
                      /\ \A m \in Paths : field'[m] = "absent" /\ field[m] # "absent" =>
                           Parent(m) = n /\ Info(n).of \in Lists
<1>2. ASSUME NEW s \in {"loading", "done"}, field' = [field EXCEPT ![n] = s] PROVE Entered
  BY <1>1, <1>2
<1>3. Fails(n) => Entered
  BY <1>2 DEF Fails, Marshalled
<1>4. ASSUME Begins(n) PROVE Entered
  <2>1. CASE Info(n).of = "scalar"
    BY <1>2, <1>4, <2>1 DEF Begins, Marshalled
  <2>2. CASE Info(n).of # "scalar"
    <3>1. PICK beyond \in IF Info(n).of \in Lists THEN Tails(n) ELSE {{}} :
            field' = [m \in Nodes |-> IF m = n THEN "running"
                                     ELSE IF m \in beyond THEN "absent" ELSE field[m]]
      BY <1>4, <2>2 DEF Begins
    <3>2. \A m \in beyond : Parent(m) = n /\ Info(n).of \in Lists
      BY <3>1 DEF Tails, Children
    <3> QED BY <1>1, <3>1, <3>2
  <2> QED BY <2>1, <2>2
<1> HIDE DEF Entered
<1>5. CallLoad(n) => Entered
  BY <1>2 DEF CallLoad
<1>6. Entered
  BY <1>3, <1>4, <1>5 DEF FieldStep, TakeFromParent, CallService, CursorIsRefused,
                          ArgumentsAreRefused, LoadReturns
<1> QED BY <1>6 DEF Entered

LEMMA CallInductive ==
  /\ ExecutionInit => CallInv
  /\ TypeOK /\ RunInv /\ CallInv /\ [ExecutionNext]_allVars => CallInv'
<1>1. ASSUME ExecutionInit PROVE CallInv
  <2>1. (\A n \in Paths : field[n] = "waiting") /\ \A l \in Loads : load[l] = "idle"
    BY <1>1, SelectionsAreTrees DEF ExecutionInit, Init, Nodes, Paths
  <2> QED BY <2>1 DEF CallInv
<1>2. ASSUME TypeOK, RunInv, CallInv, [ExecutionNext]_allVars PROVE CallInv'
  <2>1. op' = op /\ op \in Operations /\ Root \notin Paths
    BY <1>2, FieldsMove, Typed DEF RunInv
  <2>2. Paths' = Paths /\ (\A n \in Paths : n \in Nodes) /\ \A n : Info(n)' = Info(n)
    BY <2>1, SameOperation DEF Nodes
  <2>3. ASSUME NEW n \in Paths, Info(Parent(n)).of \in Lists, Parent(n) \in Paths
        PROVE  Info(n).concurrent
    <3>1. op.selection[n].type \in Lists
      BY <2>1, <2>3, Typed
    <3> QED BY <2>1, <3>1, Typed DEF AsDeclared
  <2>4. ASSUME NEW n \in Paths, CallLoad(n) PROVE CallInv'
    <3>1. Info(n).from = "loader" /\ load[n] = "idle" /\ field[n] = "waiting" /\ n \in Loads
      BY <2>1, <2>4, LoadsAreLoadedFields DEF CallLoad, Load, Ready, Info, Paths
    <3>2. /\ \A m \in Paths : field'[m] = IF m = n THEN "loading" ELSE field[m]
          /\ \A l \in Loads : load'[l] = IF l = n THEN "waiting" ELSE load[l]
      BY <1>2, <2>2, <2>4 DEF CallLoad, Load, RunInv, TypeOK
    <3> QED BY <1>2, <2>2, <3>1, <3>2 DEF CallInv
  <2>5. ASSUME NEW n \in Paths, FieldStep(n), ~ CallLoad(n) PROVE CallInv'
    <3>1. field'[n] \in {"running", "done"}
      BY <1>2, <2>5, FieldIsEntered, OneFieldAtATime
    <3>2. \A m \in Paths : m # n =>
            \/ field'[m] = field[m]
            \/ field[m] = "waiting" /\ field'[m] = "absent"
      BY <1>2, <2>2, <2>5, OneFieldAtATime
    <3>3. \A m \in Paths : field'[m] = "absent" => Info(m).concurrent
      <4>1. ASSUME NEW m \in Paths, field'[m] = "absent", field[m] # "absent" PROVE Info(m).concurrent
        BY <1>2, <2>3, <2>5, <4>1, FieldIsEntered
      <4> QED BY <1>2, <4>1 DEF CallInv
    <3>4. /\ \A l \in Loads : l # n => load'[l] = load[l]
          /\ n \in Loads /\ load'[n] # "idle" => load[n] # "idle" \/ field'[n] # "waiting"
      <4>1. CASE LoadReturns(n)
        BY <1>2, <3>1, <4>1 DEF LoadReturns, LoadReceives, LoadGivesUp, TypeOK
      <4>2. CASE ~ LoadReturns(n)
        BY <2>5, <4>2 DEF FieldStep, TakeFromParent, CallService, CursorIsRefused,
                          ArgumentsAreRefused, vars, loadVars
      <4> QED BY <4>1, <4>2
    <3>5. ASSUME NEW m \in Paths, field'[m] = "loading" PROVE m \in Loads /\ load'[m] = "waiting"
      BY <1>2, <3>1, <3>2, <3>4, <3>5 DEF CallInv
    <3>6. ASSUME NEW l \in Loads, load'[l] # "idle" PROVE l \in Paths /\ field'[l] # "waiting"
      <4>1. CASE l = n
        BY <2>5, <3>1, <4>1
      <4>2. CASE l # n
        BY <1>2, <3>2, <3>4, <3>6, <4>2 DEF CallInv
      <4> QED BY <4>1, <4>2
    <3> QED BY <2>2, <3>3, <3>5, <3>6 DEF CallInv
  <2>6. ASSUME NEW n \in Nodes, Finish(n) PROVE CallInv'
    <3>1. \A m \in Paths : field'[m] = IF m = n THEN "done" ELSE field[m]
      BY <1>2, <2>2, <2>6 DEF Finish, Marshalled, RunInv
    <3>2. load' = load
      BY <2>6 DEF Finish, vars, loadVars
    <3> QED BY <1>2, <2>2, <3>1, <3>2 DEF CallInv
  <2>7. UNCHANGED execVars /\ UNCHANGED loadVars => CallInv'
    BY <1>2, <2>2 DEF execVars, loadVars, CallInv
  <2>8. (\E d \in Loads : DispatcherStep(d)) \/ EndContext => UNCHANGED loadVars
    BY DEF DispatcherStep, TakeBatch, ReadNextPage, ReadingFails, ReadingEnds, AnswerNext,
           DispatchEnds, EndContext
  <2>9. UNCHANGED allVars => CallInv'
    BY <2>7 DEF allVars, vars
  <2> QED BY <1>2, <2>4, <2>5, <2>6, <2>7, <2>8, <2>9 DEF ExecutionNext, Runs
<1> QED BY <1>1, <1>2
\* The loop that answers a batch stays within it.
AnsweredInv == \A d \in Loads : answered[d] <= Len(batch[d])

LEMMA AnsweredInductive ==
  /\ Init => AnsweredInv
  /\ TypeOK /\ PlaceInv /\ AnsweredInv /\ [Next]_vars => AnsweredInv'
<1>1. Init => AnsweredInv
  BY EmptySeq DEF Init, AnsweredInv
<1>2. ASSUME TypeOK, PlaceInv, AnsweredInv, [Next]_vars PROVE AnsweredInv'
  <2> USE <1>2
  <2>1. \A d \in Loads : Len(batch[d]) \in Nat /\ answered[d] \in Nat
    BY DEF TypeOK
  <2>2. UNCHANGED <<batch, answered>> => AnsweredInv'
    BY DEF AnsweredInv
  <2>3. ASSUME NEW d \in Loads, TakeBatch(d) PROVE AnsweredInv'
    <3>1. answered[d] = 0 /\ answered' = answered /\ Len(pending) \in Nat
      BY <2>3 DEF TakeBatch, PlaceInv, TypeOK
    <3>2. \A e \in Loads : batch'[e] = IF e = d THEN pending ELSE batch[e]
      BY <2>3 DEF TakeBatch, TypeOK
    <3> QED BY <3>1, <3>2 DEF AnsweredInv
  <2>4. ASSUME NEW d \in Loads, AnswerNext(d) PROVE AnsweredInv'
    <3>1. \A e \in Loads : answered'[e] = IF e = d THEN answered[d] + 1 ELSE answered[e]
      BY <2>4 DEF AnswerNext, TypeOK
    <3>2. batch' = batch /\ answered[d] < Len(batch[d])
      BY <2>4 DEF AnswerNext
    <3> QED BY <2>1, <3>1, <3>2 DEF AnsweredInv
  <2>5. ASSUME NEW l \in Loads,
               \/ Load(l) \/ LoadReceives(l) \/ LoadGivesUp(l) \/ ReadNextPage(l) \/ ReadingFails(l)
               \/ ReadingEnds(l) \/ DispatchEnds(l)
        PROVE  UNCHANGED <<batch, answered>>
    BY <2>5 DEF Load, LoadReceives, LoadGivesUp, ReadNextPage, ReadingFails, ReadingEnds,
                DispatchEnds, dispatcherVars
  <2>6. EndContext \/ UNCHANGED vars => UNCHANGED <<batch, answered>>
    BY DEF EndContext, vars, dispatcherVars
  <2> QED BY <2>2, <2>3, <2>4, <2>5, <2>6 DEF Next, DispatcherStep
<1> QED BY <1>1, <1>2

\* Of some fields, one has no smaller set than any other of them.
LEMMA SmallestSet ==
  ASSUME op \in Operations, NEW A, A # {}, NEW f \in [A -> SUBSET Paths]
  PROVE  \E n \in A : \A m \in A : f[m] \subseteq f[n] => f[m] = f[n]
<1> DEFINE R == StrictSubsetOrdering(Paths)
           Images == {f[n] : n \in A}
<1>1. IsWellFoundedOn(R, SUBSET Paths)
  BY OperationsAreFinite, FS_StrictSubsetOrderingWellFounded, FS_FiniteSubsetsOfFinite DEF Paths
<1>2. Images \subseteq SUBSET Paths /\ Images # {}
  OBVIOUS
<1>3. PICK B \in Images : \A C \in Images : <<C, B>> \notin R
  <2> HIDE DEF R, Images
  <2> QED BY <1>1, <1>2, WFMin
<1>4. PICK n \in A : f[n] = B
  BY <1>3
<1>5. ASSUME NEW m \in A, f[m] \subseteq f[n], f[m] # f[n] PROVE FALSE
  <2>1. f[m] \in Images /\ f[m] \in SUBSET Paths /\ B \in SUBSET Paths
    BY <1>3
  <2>2. <<f[m], B>> \notin R
    BY <1>3, <2>1
  <2> QED BY <1>4, <1>5, <2>1, <2>2 DEF StrictSubsetOrdering
<1> QED BY <1>5

\* Of those that run, one has nothing running below it.
LEMMA SomebodyRunsAlone ==
  ASSUME RunInv, field[Root] = "running"
  PROVE  \E n \in Nodes : field[n] = "running" /\ \A m \in Children(n) : field[m] # "running"
<1> DEFINE A == {n \in Nodes : field[n] = "running"}
           f == [n \in A |-> Paths \ Trail[n]]
<1>1. op \in Operations /\ Root \in Nodes /\ Trail[Root] = {} /\ \A n \in Paths : n \in Nodes
  BY TrailEquation DEF RunInv, Nodes
<1>2. A # {}
  BY <1>1
<1>3. f \in [A -> SUBSET Paths]
  OBVIOUS
<1>4. PICK n \in A : \A m \in A : f[m] \subseteq f[n] => f[m] = f[n]
  <2> HIDE DEF A, f
  <2> QED BY <1>1, <1>2, <1>3, SmallestSet
<1>5. ASSUME NEW m \in Children(n), field[m] = "running" PROVE FALSE
  <2>1. m \in Paths /\ Parent(m) = n /\ m \in A
    BY <1>1, <1>5 DEF Children
  <2>2. Trail[m] = {m} \cup Trail[n] /\ m \notin Trail[n]
    BY <1>1, <2>1, TrailEquation, TrailsLeadUp
  <2>3. f[m] = Paths \ Trail[m] /\ f[n] = Paths \ Trail[n]
    BY <2>1
  <2>4. f[m] \subseteq f[n] /\ f[m] # f[n]
    BY <2>1, <2>2, <2>3
  <2> QED BY <1>4, <2>1, <2>4
<1> QED BY <1>5

\* Whoever waits for the loader can return, or there is a dispatcher on its way to it.
LEMMA WaitersAreServed ==
  ASSUME TypeOK, SchedulingInv, PlaceInv, WaitInv, CallInv, NEW n \in Paths, field[n] = "loading"
  PROVE  FieldIsDue(n) \/ \E d \in Loads : dispatcher[d] \in {"delaying", "reading", "answering"}
<1> USE NoLoadIsAnOutcome
<1>1. n \in Loads /\ load[n] = "waiting"
  BY DEF CallInv
<1>2. Placed(n) /\ result[n] = "none"
  BY <1>1 DEF PlaceInv
<1>3. CASE Arrived(n)
  BY <1>1, <1>2, <1>3 DEF Arrived, Answers, FieldIsDue
<1>4. CASE \E i \in Nat : Queued(n, i)
  <2>1. pending # <<>>
    <3>1. Len(pending) # 0
      BY <1>4 DEF Queued, TypeOK
    <3> QED BY <3>1, EmptySeq
  <2> QED BY <2>1 DEF SchedulingInv
<1>5. CASE \E d \in Loads, i \in Nat : Batched(n, d, i)
  BY <1>5 DEF Batched
<1> QED BY <1>1, <1>2, <1>3, <1>4, <1>5 DEF Placed

\* Whoever dispatches can take its next step, whatever happens to the loads.
LEMMA DispatchersGoOn ==
  ASSUME TypeOK, PagesInv, AnsweredInv, NEW d \in Loads,
         dispatcher[d] \in {"delaying", "reading", "answering"}
  PROVE  DispatcherIsDue(d)
BY DEF PagesInv, AnsweredInv, DispatcherIsDue

\* Of the fields that an object has still to enter, one is ready.
LEMMA SomeFieldIsReady ==
  ASSUME RunInv, CallInv, NEW n \in Nodes, field[n] = "running",
         NEW w \in Children(n), field[w] = "waiting",
         \A m \in Children(n) : field[m] \notin {"running", "loading"}
  PROVE  \E m \in Children(n) : Ready(m)
<1> DEFINE A == {m \in Children(n) : field[m] = "waiting" /\ ~ Info(m).concurrent}
           f == [m \in A |-> Before(m)]
<1>1. /\ op \in Operations
      /\ \A m \in Children(n) : m \in Paths /\ Parent(m) = n /\ op.selection[m].place \in Nat
      /\ \A m \in Children(n) : Info(m).concurrent \/ field[m] \in {"waiting", "done"}
  <2>1. op \in Operations /\ \A m \in Children(n) : m \in Paths /\ Parent(m) = n
    BY DEF RunInv, Children
  <2>2. \A m \in Children(n) : field[m] \in {"waiting", "done", "absent"}
    BY <2>1 DEF RunInv, Nodes
  <2> QED BY <2>1, <2>2, Typed DEF CallInv
<1>2. CASE A = {}
  <2>1. \A m \in Children(n) : Info(m).concurrent \/ field[m] = "done"
    BY <1>1, <1>2
  <2>2. Info(w).concurrent /\ Children(Parent(w)) = Children(n)
    BY <1>1, <2>1
  <2> QED BY <1>1, <2>1, <2>2 DEF Ready
<1>3. CASE A # {}
  <2>1. f \in [A -> SUBSET Paths]
    BY DEF Before, Children
  <2>2. PICK m \in A : \A k \in A : f[k] \subseteq f[m] => f[k] = f[m]
    <3> HIDE DEF A, f
    <3> QED BY <1>1, <1>3, <2>1, SmallestSet
  <2>3. ASSUME NEW k \in Before(m), k \in A PROVE FALSE
    <3>1. /\ m \in Children(n) /\ k \in Children(n)
          /\ Before(m) = {l \in Children(n) : op.selection[l].place < op.selection[m].place}
          /\ Before(k) = {l \in Children(n) : op.selection[l].place < op.selection[k].place}
      BY <1>1, <2>3 DEF Before
    <3>2. op.selection[k].place < op.selection[m].place
      BY <2>3, <3>1
    <3>3. Before(k) \subseteq Before(m) /\ k \in Before(m) /\ k \notin Before(k)
      BY <1>1, <2>3, <3>1, <3>2
    <3>4. f[k] = Before(k) /\ f[m] = Before(m)
      BY <2>3
    <3> QED BY <2>2, <2>3, <3>3, <3>4
  <2>4. \A k \in Before(m) : Info(k).concurrent \/ field[k] = "done"
    <3>1. \A k \in Before(m) : k \in Children(n)
      BY <1>1 DEF Before
    <3> QED BY <1>1, <2>3, <3>1
  <2> QED BY <1>1, <2>4 DEF Ready
<1> QED BY <1>2, <1>3

\* Until the response is given some field can be entered or finished, or some load
\* can return, or a dispatcher is on its way; and no dispatcher is ever held up.  So
\* neither an order of the fields nor a batch can make an operation wait for itself,
\* for any operation and any number of loads (comment_loader.go:78-143 under the
\* generated code's goroutines).
THEOREM OperationsGoOn ==
  ExecutionSpec => [](/\ OperationCanGoOn
                      /\ \A d \in Loads : dispatcher[d] \in {"delaying", "reading", "answering"}
                                            => DispatcherIsDue(d))
<1> DEFINE LoaderInv == TypeOK /\ PagesInv /\ PlaceInv /\ SchedulingInv /\ AnsweredInv
           Inv == LoaderInv /\ RunInv /\ WaitInv /\ CallInv
<1>1. ASSUME Inv, NEW d \in Loads, dispatcher[d] \in {"delaying", "reading", "answering"}
      PROVE  DispatcherIsDue(d)
  BY <1>1, DispatchersGoOn
<1>2. ASSUME Inv PROVE OperationCanGoOn
  <2> USE <1>2
  <2>1. SUFFICES ASSUME field[Root] = "running" PROVE OperationCanGoOn
    BY DEF RunInv, OperationCanGoOn
  <2>2. PICK n \in Nodes : field[n] = "running" /\ \A m \in Children(n) : field[m] # "running"
    BY <2>1, SomebodyRunsAlone
  <2>3. op \in Operations /\ \A m \in Children(n) : m \in Paths /\ field[m] \in {"waiting", "loading", "done", "absent"}
    BY <2>2 DEF RunInv, Children, Nodes
  <2>4. ASSUME NEW m \in Children(n), field[m] = "loading" PROVE OperationCanGoOn
    <3>1. m \in Paths
      BY <2>3
    <3>2. FieldIsDue(m) \/ \E d \in Loads : dispatcher[d] \in {"delaying", "reading", "answering"}
      BY <2>4, <3>1, WaitersAreServed
    <3> QED BY <1>1, <3>1, <3>2 DEF OperationCanGoOn
  <2>5. ASSUME NEW m \in Children(n), field[m] = "waiting",
               \A k \in Children(n) : field[k] # "loading"
        PROVE  OperationCanGoOn
    <3>1. PICK k \in Children(n) : Ready(k)
      BY <2>2, <2>5, SomeFieldIsReady
    <3>2. k \in Paths /\ field[k] = "waiting"
      BY <2>3, <3>1 DEF Ready
    <3>3. Info(k).from = "loader" => load[k] = "idle"
      <4>1. Info(k).from = "loader" => k \in Loads
        BY <2>3, <3>2, LoadsAreLoadedFields DEF Info, Paths
      <4> QED BY <3>2, <4>1 DEF CallInv
    <3> QED BY <3>1, <3>2, <3>3 DEF FieldIsDue, OperationCanGoOn
  <2>6. ASSUME \A m \in Children(n) : field[m] \in {"done", "absent"} PROVE OperationCanGoOn
    BY <2>2, <2>6 DEF ObjectIsDue, OperationCanGoOn
  <2> QED BY <2>3, <2>4, <2>5, <2>6
<1>3. Spec => []LoaderInv
  BY LoaderInductive, PlaceInductive, SchedulingInductive, AnsweredInductive, PTL DEF Spec
<1>4. ExecutionInit => CallInv
  BY CallInductive
<1>5. TypeOK /\ RunInv /\ CallInv /\ [ExecutionNext]_allVars => CallInv'
  BY CallInductive
<1>6. ExecutionSpec => []Inv
  BY <1>3, <1>4, <1>5, ExecutionAlways, ExecutionImplementsLoader, PTL DEF ExecutionSpec
<1>7. Inv => /\ OperationCanGoOn
             /\ \A d \in Loads : dispatcher[d] \in {"delaying", "reading", "answering"} => DispatcherIsDue(d)
  BY <1>1, <1>2
<1> QED BY <1>6, <1>7, PTL
==============================================================================
