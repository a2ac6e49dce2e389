--------------------------- MODULE Operations_proofs ---------------------------
(***************************************************************************)
(* What the claims and counters kept in Redis promise, for any number of   *)
(* workers, deliveries and requests: a job's slot is run once, an event is *)
(* handled once, a code is compared with so many guesses, a login fails so *)
(* often.  The jobs and the webhook inbox are parts of Operations; the     *)
(* codes and logins are those of SignUp, whose passwords and referrals are *)
(* proved about here too.                                                  *)
(*                                                                         *)
(* A step of one part of Operations leaves the others' variables alone, so *)
(* each invariant is shown for its own part's steps and carried over the   *)
(* rest.  A step of SignUp leaves every request but one where it was, and  *)
(* most take that one "aside", to no place an invariant counts.            *)
(***************************************************************************)
EXTENDS Operations, SignUp, FiniteSetTheorems, TLAPS

-----------------------------------------------------------------------------
(* The scheduler. *)

\* The slot's key is what keeps a slot from being run twice: no job starts for
\* a slot whose key is not there yet, and the start sets it.
RunsAreClaimed ==
  /\ started \in [Slots -> Nat]
  /\ \A s \in Slots : started[s] <= 1 /\ (s \notin claimed => started[s] = 0)

LEMMA RunsInit == SchedulerInit => RunsAreClaimed
BY DEF SchedulerInit, RunsAreClaimed

LEMMA StartsStayCounts ==
  ASSUME NEW S, NEW n \in [S -> Nat], NEW s
  PROVE  /\ [n EXCEPT ![s] = @ + 1] \in [S -> Nat]
         /\ \A t \in S : [n EXCEPT ![s] = @ + 1][t] = IF t = s THEN n[t] + 1 ELSE n[t]
<1>1. \A t \in S : n[t] \in Nat
  OBVIOUS
<1>2. \A t \in S : [n EXCEPT ![s] = @ + 1][t] = IF t = s THEN n[t] + 1 ELSE n[t]
  OBVIOUS
<1>3. [n EXCEPT ![s] = @ + 1] = [t \in S |-> IF t = s THEN n[t] + 1 ELSE n[t]]
  OBVIOUS
<1>4. \A t \in S : (IF t = s THEN n[t] + 1 ELSE n[t]) \in Nat
  BY <1>1
<1> QED BY <1>2, <1>3, <1>4

LEMMA RunsStep == RunsAreClaimed /\ SchedulerNext => RunsAreClaimed'
<1> SUFFICES ASSUME RunsAreClaimed, SchedulerNext PROVE RunsAreClaimed'
  OBVIOUS
<1> USE DEF RunsAreClaimed
<1>1. ASSUME NEW c \in Calls, ClaimSlot(c) PROVE RunsAreClaimed'
  <2>1. CASE call[c].slot \in claimed
    BY <1>1, <2>1 DEF ClaimSlot
  <2>2. ASSUME NEW s, s = call[c].slot, s \notin claimed PROVE RunsAreClaimed'
    <3>1. claimed' = claimed \union {s} /\ started' = [started EXCEPT ![s] = @ + 1]
      BY <1>1, <2>2 DEF ClaimSlot
    <3>2. started' \in [Slots -> Nat]
      BY <3>1, StartsStayCounts
    <3>3. ASSUME NEW t \in Slots PROVE started'[t] = IF t = s THEN started[t] + 1 ELSE started[t]
      BY <3>1, StartsStayCounts
    <3> QED BY <2>2, <3>1, <3>2, <3>3
  <2> QED BY <2>1, <2>2
<1>2. ASSUME NEW c \in Calls,
             Tick(c) \/ LookForSlot(c) \/ TakeLock(c) \/ JobEnds(c) \/ ReleaseLock(c) \/ Killed(c)
      PROVE  RunsAreClaimed'
  BY <1>2 DEF Tick, LookForSlot, TakeLock, JobEnds, ReleaseLock, Killed
<1>3. CASE TimePasses \/ LockExpires
  BY <1>3 DEF TimePasses, LockExpires
<1> QED BY <1>1, <1>2, <1>3 DEF SchedulerNext, CallStep

-----------------------------------------------------------------------------
(* The webhook inbox. *)

\* A delivery that may still count as a success of the event, or free its key.
Past(d, e) == delivery[d] # NoDelivery /\ (DeliveryAt(d, "handle") \/ DeliveryAt(d, "unclaim")) /\ delivery[d].event = e
AllPast(e) == {d \in Deliveries : Past(d, e)}
Free(e) == IF key[e] = "none" THEN 1 ELSE 0

\* The successes there were, those there may be of the deliveries past their claim, and
\* the one a free key is good for: each but the first has had its lapse.
ClaimsCounted ==
  /\ InboxTypeOK
  /\ delivery = [d \in Deliveries |-> delivery[d]]
  /\ \A e \in Events : applied[e] + Cardinality(AllPast(e)) + Free(e) <= 1 + lapses[e]

LEMMA PastFinite ==
  ASSUME NEW e PROVE IsFiniteSet(AllPast(e)) /\ Cardinality(AllPast(e)) \in Nat
BY FS_Subset, FS_CardinalityType, InboxAssumptions DEF AllPast

LEMMA InboxStart == InboxInit => ClaimsCounted
<1> SUFFICES ASSUME InboxInit PROVE ClaimsCounted
  OBVIOUS
<1>1. InboxTypeOK /\ delivery = [d \in Deliveries |-> delivery[d]]
  BY InboxAssumptions DEF InboxInit, InboxTypeOK
<1>2. ASSUME NEW e \in Events PROVE AllPast(e) = {} /\ applied[e] = 0 /\ lapses[e] = 0 /\ Free(e) = 1
  BY DEF InboxInit, AllPast, Past, Free
<1> QED BY <1>1, <1>2, FS_EmptySet DEF ClaimsCounted

\* A step of one delivery changes the count by that delivery.
LEMMA PastOfOne ==
  ASSUME ClaimsCounted, NEW d \in Deliveries, \A f \in Deliveries \ {d} : delivery'[f] = delivery[f], NEW e
  PROVE  Cardinality(AllPast(e))' = Cardinality(AllPast(e)) + (IF Past(d, e)' THEN 1 ELSE 0) - (IF Past(d, e) THEN 1 ELSE 0)
<1>0. AllPast(e) \subseteq Deliveries /\ (d \in AllPast(e) <=> Past(d, e)) /\ IsFiniteSet(AllPast(e)) /\ Cardinality(AllPast(e)) \in Nat
  BY PastFinite DEF AllPast
<1>1. CASE Past(d, e)'
  <2>1. AllPast(e)' = AllPast(e) \union {d} BY <1>1 DEF AllPast, Past, DeliveryAt
  <2>2. Cardinality(AllPast(e) \union {d}) = IF d \in AllPast(e) THEN Cardinality(AllPast(e)) ELSE Cardinality(AllPast(e)) + 1
    BY <1>0, FS_AddElement
  <2> QED BY <1>0, <1>1, <2>1, <2>2
<1>2. CASE ~Past(d, e)'
  <2>1. AllPast(e)' = AllPast(e) \ {d} BY <1>2 DEF AllPast, Past, DeliveryAt
  <2>2. Cardinality(AllPast(e) \ {d}) = IF d \in AllPast(e) THEN Cardinality(AllPast(e)) - 1 ELSE Cardinality(AllPast(e))
    BY <1>0, FS_RemoveElement
  <2> QED BY <1>0, <1>2, <2>1, <2>2
<1> QED BY <1>1, <1>2

\* What a step has to show of each event, in numbers.
LEMMA CountsKept ==
  ASSUME ClaimsCounted, NEW d \in Deliveries, \A f \in Deliveries \ {d} : delivery'[f] = delivery[f], NEW e \in Events,
         applied'[e] \in Nat, lapses'[e] \in Nat,
         applied'[e] + (IF Past(d, e)' THEN 1 ELSE 0) + Free(e)' + lapses[e]
           <= applied[e] + (IF Past(d, e) THEN 1 ELSE 0) + Free(e) + lapses'[e]
  PROVE  applied'[e] + Cardinality(AllPast(e))' + Free(e)' <= 1 + lapses'[e]
<1> DEFINE p == Cardinality(AllPast(e))
           a == IF Past(d, e) THEN 1 ELSE 0
           b == IF Past(d, e)' THEN 1 ELSE 0
<1>1. p' = p + b - a BY PastOfOne
<1>2. p \in Nat /\ a \in 0..1 /\ b \in 0..1 BY PastFinite
<1>3. Free(e) \in 0..1 /\ Free(e)' \in 0..1 BY DEF Free
<1>4. applied[e] \in Nat /\ lapses[e] \in Nat /\ applied[e] + p + Free(e) <= 1 + lapses[e]
  BY InboxAssumptions DEF ClaimsCounted, InboxTypeOK
<1>5. applied'[e] + b + Free(e)' + lapses[e] <= applied[e] + a + Free(e) + lapses'[e]
  OBVIOUS
<1> HIDE DEF p, a, b
<1>6. applied'[e] + p' + Free(e)' <= 1 + lapses'[e]
  BY <1>1, <1>2, <1>3, <1>4, <1>5
<1> QED BY <1>6 DEF p

LEMMA InboxStep == ClaimsCounted /\ InboxNext => ClaimsCounted'
<1> SUFFICES ASSUME ClaimsCounted, InboxNext PROVE ClaimsCounted'
  OBVIOUS
<1> USE DEF Past, DeliveryAt, MoveDelivery, Close, NoDelivery, Free
<1>0. InboxTypeOK /\ delivery = [d \in Deliveries |-> delivery[d]] BY DEF ClaimsCounted
<1>T. /\ \A e \in Events : key[e] \in {"none", "running", "done"} /\ applied[e] \in Nat /\ lapses[e] \in 0..MaxLapses /\ lapses[e] \in Nat
  BY <1>0, InboxAssumptions DEF InboxTypeOK
<1>1. ASSUME NEW d \in Deliveries, NEW e \in Events, Deliver(d, e) PROVE ClaimsCounted'
  <2>1. InboxTypeOK' /\ (delivery = [f \in Deliveries |-> delivery[f]])'
    BY <1>0, <1>1 DEF Deliver, InboxTypeOK
  <2>2. \A f \in Deliveries \ {d} : delivery'[f] = delivery[f] BY <1>0, <1>1 DEF Deliver
  <2>3. ASSUME NEW g \in Events PROVE applied'[g] + Cardinality(AllPast(g))' + Free(g)' <= 1 + lapses'[g]
    <3>1. ~Past(d, g)' /\ ~Past(d, g) BY <1>0, <1>1 DEF Deliver
    <3> QED BY <1>T, <1>1, <2>2, <3>1, CountsKept DEF Deliver
  <2> QED BY <2>1, <2>3 DEF ClaimsCounted
<1>2. ASSUME NEW d \in Deliveries, ClaimEvent(d) PROVE ClaimsCounted'
  <2>0. delivery[d].pc = "claim" /\ delivery[d].event \in Events /\ delivery[d] # NoDelivery BY <1>0, <1>2 DEF ClaimEvent, InboxTypeOK
  <2>1. InboxTypeOK' /\ (delivery = [f \in Deliveries |-> delivery[f]])'
    BY <1>0, <1>2, <2>0 DEF ClaimEvent, InboxTypeOK
  <2>2. \A f \in Deliveries \ {d} : delivery'[f] = delivery[f] BY <1>0, <1>2 DEF ClaimEvent
  <2>3. ASSUME NEW g \in Events PROVE applied'[g] + Cardinality(AllPast(g))' + Free(g)' <= 1 + lapses'[g]
    <3>1. ~Past(d, g) BY <2>0
    <3>2. Past(d, g)' => g = delivery[d].event /\ key[g] = "none" /\ key'[g] = "running"
      BY <1>0, <1>2, <2>0 DEF ClaimEvent, InboxTypeOK
    <3>3. key'[g] = "none" => key[g] = "none" BY <1>0, <1>2, <2>0 DEF ClaimEvent, InboxTypeOK
    <3>4. applied' = applied /\ lapses' = lapses BY <1>2 DEF ClaimEvent
    <3>5. (IF Past(d, g)' THEN 1 ELSE 0) + Free(g)' <= Free(g) BY <3>2, <3>3
    <3>6. Free(g) \in 0..1 /\ Free(g)' \in 0..1 OBVIOUS
    <3>7. applied'[g] + (IF Past(d, g)' THEN 1 ELSE 0) + Free(g)' + lapses[g] <= applied[g] + (IF Past(d, g) THEN 1 ELSE 0) + Free(g) + lapses'[g]
      BY <1>T, <3>1, <3>4, <3>5, <3>6
    <3> QED BY <1>T, <2>2, <3>4, <3>7, CountsKept
  <2> QED BY <2>1, <2>3 DEF ClaimsCounted
<1>3. ASSUME NEW d \in Deliveries, HandleEvent(d) PROVE ClaimsCounted'
  <2>0. delivery[d].pc = "handle" /\ delivery[d].event \in Events /\ delivery[d] # NoDelivery BY <1>0, <1>3 DEF HandleEvent, InboxTypeOK
  <2>1. InboxTypeOK' /\ (delivery = [f \in Deliveries |-> delivery[f]])'
    <3>1. applied' \in [Events -> Nat]
      BY <1>0, <1>3, <2>0, StartsStayCounts DEF HandleEvent, InboxTypeOK
    <3> QED BY <1>0, <1>3, <2>0, <3>1 DEF HandleEvent, InboxTypeOK
  <2>2. \A f \in Deliveries \ {d} : delivery'[f] = delivery[f] BY <1>0, <1>3 DEF HandleEvent
  <2>4. delivery[d] \in [pc : {"claim", "handle", "mark", "unclaim"}, event : Events] BY <1>0, <2>0 DEF InboxTypeOK
  <2>3. ASSUME NEW g \in Events PROVE applied'[g] + Cardinality(AllPast(g))' + Free(g)' <= 1 + lapses'[g]
    <3>1. Past(d, g) <=> g = delivery[d].event BY <2>0
    <3>2. lapses' = lapses /\ key' = key BY <1>3 DEF HandleEvent
    <3>3. CASE applied' = applied
      <4>1. \E st \in {"mark", "unclaim"} : delivery' = [delivery EXCEPT ![d].pc = st] BY <1>3 DEF HandleEvent
      <4>2. delivery'[d].event = delivery[d].event BY <1>0, <2>4, <4>1
      <4>3. Past(d, g)' => g = delivery[d].event BY <4>2
      <4> QED BY <1>T, <2>2, <3>1, <3>2, <3>3, <4>3, CountsKept
    <3>4. CASE delivery' = [delivery EXCEPT ![d].pc = "mark"] /\ applied' = [applied EXCEPT ![delivery[d].event] = @ + 1]
      <4>1. delivery'[d].pc = "mark" BY <1>0, <2>4, <3>4
      <4>3. ~Past(d, g)' BY <4>1
      <4>2. applied'[g] = IF g = delivery[d].event THEN applied[g] + 1 ELSE applied[g]
        BY <1>0, <2>0, <3>4, StartsStayCounts DEF InboxTypeOK
      <4> QED BY <1>T, <2>2, <3>1, <3>2, <4>2, <4>3, CountsKept
    <3> QED BY <1>3, <3>3, <3>4 DEF HandleEvent
  <2> QED BY <2>1, <2>3 DEF ClaimsCounted
<1>4. ASSUME NEW d \in Deliveries, MarkDone(d) PROVE ClaimsCounted'
  <2>0. delivery[d].pc = "mark" /\ delivery[d].event \in Events /\ delivery[d] # NoDelivery BY <1>0, <1>4 DEF MarkDone, InboxTypeOK
  <2>1. InboxTypeOK' /\ (delivery = [f \in Deliveries |-> delivery[f]])'
    BY <1>0, <1>4, <2>0 DEF MarkDone, InboxTypeOK
  <2>2. \A f \in Deliveries \ {d} : delivery'[f] = delivery[f] BY <1>0, <1>4 DEF MarkDone
  <2>3. ASSUME NEW g \in Events PROVE applied'[g] + Cardinality(AllPast(g))' + Free(g)' <= 1 + lapses'[g]
    <3>1. ~Past(d, g) /\ ~Past(d, g)' BY <1>0, <1>4, <2>0 DEF MarkDone
    <3>2. key'[g] = "none" => key[g] = "none" BY <1>0, <1>4, <2>0 DEF MarkDone, InboxTypeOK
    <3>3. applied' = applied /\ lapses' = lapses BY <1>4 DEF MarkDone
    <3> QED BY <1>T, <2>2, <3>1, <3>2, <3>3, CountsKept
  <2> QED BY <2>1, <2>3 DEF ClaimsCounted
<1>5. ASSUME NEW d \in Deliveries, MarkFails(d) PROVE ClaimsCounted'
  <2>0. delivery[d].pc = "mark" /\ delivery[d].event \in Events /\ delivery[d] # NoDelivery BY <1>0, <1>5 DEF MarkFails, InboxTypeOK
  <2>1. InboxTypeOK' /\ (delivery = [f \in Deliveries |-> delivery[f]])'
    <3>1. lapses' \in [Events -> 0..MaxLapses]
      BY <1>0, <1>5, <2>0, InboxAssumptions DEF MarkFails, Lapse, InboxTypeOK
    <3> QED BY <1>0, <1>5, <2>0, <3>1 DEF MarkFails, InboxTypeOK
  <2>2. \A f \in Deliveries \ {d} : delivery'[f] = delivery[f] BY <1>0, <1>5 DEF MarkFails
  <2>4. delivery[d] \in [pc : {"claim", "handle", "mark", "unclaim"}, event : Events] BY <1>0, <2>0 DEF InboxTypeOK
  <2>3. ASSUME NEW g \in Events PROVE applied'[g] + Cardinality(AllPast(g))' + Free(g)' <= 1 + lapses'[g]
    <3>1. ~Past(d, g) BY <2>0
    <3>2. Past(d, g)' => g = delivery[d].event
      <4>1. delivery'[d].event = delivery[d].event BY <1>0, <1>5, <2>4 DEF MarkFails
      <4> QED BY <4>1
    <3>3. key'[g] = "none" => key[g] = "none" BY <1>0, <1>5, <2>0 DEF MarkFails, InboxTypeOK
    <3>4. applied' = applied /\ lapses'[g] = IF g = delivery[d].event THEN lapses[g] + 1 ELSE lapses[g]
      BY <1>0, <1>5, <2>0 DEF MarkFails, Lapse, InboxTypeOK
    <3> QED BY <1>T, <2>2, <3>1, <3>2, <3>3, <3>4, CountsKept
  <2> QED BY <2>1, <2>3 DEF ClaimsCounted
<1>6. ASSUME NEW d \in Deliveries, Unclaim(d) PROVE ClaimsCounted'
  <2>0. delivery[d].pc = "unclaim" /\ delivery[d].event \in Events /\ delivery[d] # NoDelivery BY <1>0, <1>6 DEF Unclaim, InboxTypeOK
  <2>1. InboxTypeOK' /\ (delivery = [f \in Deliveries |-> delivery[f]])'
    BY <1>0, <1>6, <2>0 DEF Unclaim, InboxTypeOK
  <2>2. \A f \in Deliveries \ {d} : delivery'[f] = delivery[f] BY <1>0, <1>6 DEF Unclaim
  <2>3. ASSUME NEW g \in Events PROVE applied'[g] + Cardinality(AllPast(g))' + Free(g)' <= 1 + lapses'[g]
    <3>1. (Past(d, g) <=> g = delivery[d].event) /\ ~Past(d, g)' BY <1>0, <1>6, <2>0 DEF Unclaim
    <3>2. key'[g] = "none" => key[g] = "none" \/ g = delivery[d].event BY <1>0, <1>6, <2>0 DEF Unclaim, InboxTypeOK
    <3>3. applied' = applied /\ lapses' = lapses BY <1>6 DEF Unclaim
    <3> QED BY <1>T, <2>2, <3>1, <3>2, <3>3, CountsKept
  <2> QED BY <2>1, <2>3 DEF ClaimsCounted
<1>7. ASSUME NEW e \in Events, ClaimExpires(e) PROVE ClaimsCounted'
  <2>1. InboxTypeOK' /\ (delivery = [f \in Deliveries |-> delivery[f]])'
    <3>1. lapses' \in [Events -> 0..MaxLapses]
      BY <1>0, <1>7, InboxAssumptions DEF ClaimExpires, Lapse, InboxTypeOK
    <3> QED BY <1>0, <1>7, <3>1 DEF ClaimExpires, InboxTypeOK
  <2>2. ASSUME NEW g \in Events PROVE applied'[g] + Cardinality(AllPast(g))' + Free(g)' <= 1 + lapses'[g]
    <3>1. AllPast(g)' = AllPast(g) /\ applied' = applied BY <1>7 DEF ClaimExpires, AllPast
    <3>2. g # e => key'[g] = key[g] BY <1>0, <1>7 DEF ClaimExpires, InboxTypeOK
    <3>3. lapses'[g] = IF g = e THEN lapses[g] + 1 ELSE lapses[g] BY <1>0, <1>7 DEF ClaimExpires, Lapse, InboxTypeOK
    <3>4. key[e] = "running" BY <1>7 DEF ClaimExpires
    <3>5. applied[g] + Cardinality(AllPast(g)) + Free(g) <= 1 + lapses[g] /\ Cardinality(AllPast(g)) \in Nat BY PastFinite DEF ClaimsCounted
    <3>6. Free(g)' + lapses[g] <= Free(g) + lapses'[g] BY <1>T, <3>2, <3>3, <3>4
    <3>7. Free(g) \in 0..1 /\ Free(g)' \in 0..1 OBVIOUS
    <3>8. lapses'[g] \in Nat BY <1>T, <3>3
    <3> HIDE DEF Free
    <3> QED BY <1>T, <3>1, <3>5, <3>6, <3>7, <3>8
  <2> QED BY <2>1, <2>2 DEF ClaimsCounted
<1>8. ASSUME NEW d \in Deliveries, DeliveryLost(d) PROVE ClaimsCounted'
  <2>1. InboxTypeOK' /\ (delivery = [f \in Deliveries |-> delivery[f]])'
    BY <1>0, <1>8 DEF DeliveryLost, InboxTypeOK
  <2>2. \A f \in Deliveries \ {d} : delivery'[f] = delivery[f] BY <1>0, <1>8 DEF DeliveryLost
  <2>3. ASSUME NEW g \in Events PROVE applied'[g] + Cardinality(AllPast(g))' + Free(g)' <= 1 + lapses'[g]
    <3>1. ~Past(d, g)' BY <1>0, <1>8 DEF DeliveryLost
    <3>2. applied' = applied /\ lapses' = lapses /\ key' = key BY <1>8 DEF DeliveryLost
    <3> QED BY <1>T, <2>2, <3>1, <3>2, CountsKept
  <2> QED BY <2>1, <2>3 DEF ClaimsCounted
<1> QED BY <1>1, <1>2, <1>3, <1>4, <1>5, <1>6, <1>7, <1>8 DEF InboxNext

-----------------------------------------------------------------------------
(* The parts together. *)

OperationsInv == RunsAreClaimed /\ ClaimsCounted

LEMMA OperationsStep == OperationsInv /\ [OperationsNext]_operationsVars => OperationsInv'
<1>1. ASSUME OperationsInv, JobStep PROVE OperationsInv'
  <2>1. RunsAreClaimed' BY <1>1, RunsStep DEF OperationsInv, JobStep
  <2>2. ClaimsCounted'
    BY <1>1 DEF OperationsInv, JobStep, inboxVars, ClaimsCounted, InboxTypeOK, AllPast, Past, Free, DeliveryAt
  <2> QED BY <2>1, <2>2 DEF OperationsInv
<1>2. ASSUME OperationsInv, EventStep PROVE OperationsInv'
  <2>1. RunsAreClaimed' BY <1>2 DEF OperationsInv, EventStep, schedulerVars, RunsAreClaimed
  <2>2. ClaimsCounted' BY <1>2, InboxStep DEF OperationsInv, EventStep
  <2> QED BY <2>1, <2>2 DEF OperationsInv
<1>3. ASSUME OperationsInv, UNCHANGED <<schedulerVars, inboxVars>> PROVE OperationsInv'
  BY <1>3 DEF OperationsInv, schedulerVars, inboxVars, RunsAreClaimed, ClaimsCounted, InboxTypeOK, AllPast, Past, Free, DeliveryAt
<1> QED BY <1>1, <1>2, <1>3 DEF OperationsNext, ConnectionsStep, ClusterStep, operationsVars

\* The jobs' promise: no slot of a job is run twice (scheduler.ts claims it with
\* SET NX before the job starts), whatever number of workers tick, overrun
\* their lock or are killed.
THEOREM SlotsRunOnce == OperationsSpec => []SlotOnce
<1>1. OperationsInit => OperationsInv
  BY RunsInit, InboxStart DEF OperationsInit, OperationsInv
<1>2. OperationsInv => SlotOnce
  BY DEF OperationsInv, RunsAreClaimed, SlotOnce
<1> QED BY <1>1, <1>2, OperationsStep, PTL DEF OperationsSpec

\* The inbox's promise: an event is handled once, and again only as often as its claim
\* expired or its mark failed (webhooksController.ts claims it before handling), however
\* often and however closely the provider delivers it, whichever deliveries fail or are
\* cut off.
THEOREM HandledAsOftenAsLapsed == OperationsSpec => []HandledOncePerLapse
<1>1. OperationsInit => OperationsInv
  BY RunsInit, InboxStart DEF OperationsInit, OperationsInv
<1>2. OperationsInv => HandledOncePerLapse
  <2> SUFFICES ASSUME OperationsInv, NEW e \in Events PROVE applied[e] <= 1 + lapses[e]
    BY DEF HandledOncePerLapse
  <2>1. applied[e] + Cardinality(AllPast(e)) + Free(e) <= 1 + lapses[e] /\ applied[e] \in Nat /\ lapses[e] \in Nat
    BY InboxAssumptions DEF OperationsInv, ClaimsCounted, InboxTypeOK
  <2>2. Cardinality(AllPast(e)) \in Nat /\ Free(e) \in 0..1 BY PastFinite DEF Free
  <2> QED BY <2>1, <2>2
<1> QED BY <1>1, <1>2, OperationsStep, PTL DEF OperationsSpec

-----------------------------------------------------------------------------
(* Signing up and in: what a request is, and what one step does to it. *)

\* A request that claims a referral has found one.
ClaimsAReferral ==
  \A h \in Handlers : job[h] \in ReferralJob /\ job[h].pc = "claim" => job[h].row \in Referrals

Requests == job \in [Handlers -> Job] /\ ClaimsAReferral

LEMMA RequestKind ==
  ASSUME NEW j \in Job, j # NoJob
  PROVE  /\ j.kind = "start" => j \in StartJob
         /\ j.kind = "verify" => j \in VerifyJob
         /\ j.kind = "finish" => j \in FinishJob
         /\ j.kind = "google" => j \in GoogleJob
         /\ j.kind = "referral" => j \in ReferralJob
         /\ j.kind = "login" => j \in LoginJob
BY DEF Job, Work, StartJob, VerifyJob, FinishJob, GoogleJob, ReferralJob, LoginJob

LEMMA RequestAt ==
  ASSUME Requests, NEW h \in Handlers, NEW step
  PROVE  /\ At(h, "start", step) => job[h] \in StartJob /\ job[h].pc = step
         /\ At(h, "verify", step) => job[h] \in VerifyJob /\ job[h].pc = step
         /\ At(h, "finish", step) => job[h] \in FinishJob /\ job[h].pc = step
         /\ At(h, "google", step) => job[h] \in GoogleJob /\ job[h].pc = step
         /\ At(h, "referral", step) => job[h] \in ReferralJob /\ job[h].pc = step
         /\ At(h, "login", step) => job[h] \in LoginJob /\ job[h].pc = step
BY RequestKind DEF Requests, At

\* Request h becomes j.
LEMMA Becoming ==
  ASSUME Requests, NEW h \in Handlers, NEW j \in Job, job' = [job EXCEPT ![h] = j],
         j \in ReferralJob /\ j.pc = "claim" => j.row \in Referrals
  PROVE  /\ Requests'
         /\ job'[h] = j
         /\ \A g \in Handlers : g # h => job'[g] = job[g]
<1>1. /\ job'[h] = j
      /\ \A g \in Handlers : g # h => job'[g] = job[g]
      /\ job' \in [Handlers -> Job]
  BY DEF Requests
<1>2. ClaimsAReferral'
  BY <1>1 DEF Requests, ClaimsAReferral
<1> QED BY <1>1, <1>2 DEF Requests

LEMMA Ends ==
  ASSUME Requests, NEW h \in Handlers, Done(h)
  PROVE  /\ Requests'
         /\ job'[h] = NoJob
         /\ \A g \in Handlers : g # h => job'[g] = job[g]
<1>1. /\ job'[h] = NoJob
      /\ \A g \in Handlers : g # h => job'[g] = job[g]
      /\ job' \in [Handlers -> Job]
  BY DEF Requests, Done, Job
<1>2. ClaimsAReferral'
  BY <1>1, NoJobIsNoWork DEF Requests, ClaimsAReferral, Work
<1> QED BY <1>1, <1>2 DEF Requests

LEMMA Moving ==
  ASSUME Requests, NEW h \in Handlers, NEW step, Goto(h, step),
         \/ job[h] \in StartJob /\ step \in {"record", "look", "wait", "store", "send"}
         \/ job[h] \in VerifyJob /\ step \in {"look", "ticket"}
         \/ job[h] \in FinishJob /\ step \in {"write", "discard", "unlock"}
         \/ job[h] \in GoogleJob /\ step \in {"create", "update"}
         \/ job[h] \in ReferralJob /\ step \in {"record", "find"}
         \/ job[h] \in LoginJob /\ step \in {"compare", "wrong", "clear"}
  PROVE  /\ Requests'
         /\ job'[h].kind = job[h].kind /\ job'[h].pc = step
         /\ job[h] \in StartJob => job'[h].for = job[h].for
         /\ \A g \in Handlers : g # h => job'[g] = job[g]
<1> DEFINE j == [job[h] EXCEPT !.pc = step]
<1>1. /\ j \in Job /\ j.kind = job[h].kind /\ j.pc = step
      /\ job[h] \in StartJob => j.for = job[h].for
      /\ j \in ReferralJob => j.pc # "claim"
  <2>1. CASE job[h] \in StartJob /\ step \in {"record", "look", "wait", "store", "send"}
    BY <2>1 DEF StartJob, ReferralJob, Job, Work
  <2>2. CASE job[h] \in VerifyJob /\ step \in {"look", "ticket"}
    BY <2>2 DEF StartJob, VerifyJob, ReferralJob, Job, Work
  <2>3. CASE job[h] \in FinishJob /\ step \in {"write", "discard", "unlock"}
    BY <2>3 DEF StartJob, FinishJob, ReferralJob, Job, Work
  <2>4. CASE job[h] \in GoogleJob /\ step \in {"create", "update"}
    BY <2>4 DEF StartJob, GoogleJob, ReferralJob, Job, Work
  <2>5. CASE job[h] \in ReferralJob /\ step \in {"record", "find"}
    BY <2>5 DEF StartJob, ReferralJob, Job, Work
  <2>6. CASE job[h] \in LoginJob /\ step \in {"compare", "wrong", "clear"}
    BY <2>6 DEF StartJob, LoginJob, ReferralJob, Job, Work
  <2> QED BY <2>1, <2>2, <2>3, <2>4, <2>5, <2>6
<1>2. job' = [job EXCEPT ![h] = j]
  BY DEF Requests, Goto
<1> HIDE DEF j
<1> QED BY <1>1, <1>2, Becoming

-----------------------------------------------------------------------------
(* The steps, by what they have to do with codes, waits and guesses. *)

\* Request h is judging a guess, sending a code, comparing a password.
Judges(h) == At(h, "verify", "judge")
Sends(h) == At(h, "start", "store") \/ At(h, "start", "send")
Guesses(h) == At(h, "login", "compare") \/ At(h, "login", "wrong")

\* The other requests stay where they are.
Others(h) == \A g \in Handlers : g # h => job'[g] = job[g]

\* A step of request h that takes it to none of those places.
Aside(h) == Requests' /\ Others(h) /\ ~Judges(h)' /\ ~Sends(h)' /\ ~Guesses(h)'

LEMMA AsideEnds ==
  ASSUME Requests, NEW h \in Handlers, Done(h)
  PROVE  Aside(h)
BY Ends DEF Aside, Others, Judges, Sends, Guesses, At

LEMMA AsideMoves ==
  ASSUME Requests, NEW h \in Handlers, NEW step, Goto(h, step),
         \/ job[h] \in StartJob /\ step \in {"record", "look", "wait"}
         \/ job[h] \in VerifyJob /\ step \in {"look", "ticket"}
         \/ job[h] \in FinishJob /\ step \in {"write", "discard", "unlock"}
         \/ job[h] \in GoogleJob /\ step \in {"create", "update"}
         \/ job[h] \in ReferralJob /\ step \in {"record", "find"}
         \/ job[h] \in LoginJob /\ step = "clear"
  PROVE  Aside(h)
<1>1. /\ Requests' /\ Others(h)
      /\ job'[h].kind = job[h].kind /\ job'[h].pc = step
  BY Moving DEF Others
<1>2. \/ job[h].kind = "start" /\ step \in {"record", "look", "wait"}
      \/ job[h].kind = "verify" /\ step \in {"look", "ticket"}
      \/ job[h].kind \in {"finish", "google", "referral"}
      \/ job[h].kind = "login" /\ step = "clear"
  BY DEF StartJob, VerifyJob, FinishJob, GoogleJob, ReferralJob, LoginJob
<1> QED BY <1>1, <1>2 DEF Aside, Judges, Sends, Guesses, At

LEMMA AsideBecomes ==
  ASSUME Requests, NEW h \in Handlers, NEW j \in Job, job' = [job EXCEPT ![h] = j],
         j.kind \notin {"start", "verify", "login"},
         j.kind = "referral" /\ j.pc = "claim" => j.row \in Referrals
  PROVE  Aside(h)
BY Becoming DEF Aside, Others, Judges, Sends, Guesses, At, ReferralJob

LEMMA CompletingAside ==
  ASSUME Requests, NEW h \in Handlers, CompleteReferral(h)
  PROVE  Aside(h)
<1>1. PICK step \in {"intent", "find"} : Become(h, [kind |-> "referral", pc |-> step, row |-> NoJob])
  BY DEF CompleteReferral
<1> DEFINE j == [kind |-> "referral", pc |-> step, row |-> NoJob]
<1>2. j \in Job /\ j.kind = "referral" /\ j.pc # "claim"
  BY DEF Job, Work, ReferralJob
<1>3. job' = [job EXCEPT ![h] = j]
  BY <1>1 DEF Become
<1> HIDE DEF j
<1> QED BY <1>2, <1>3, AsideBecomes

\* The steps of a sign-up and of a referral.
LEMMA AsideSteps ==
  ASSUME Requests, account \in Account, NEW h \in Handlers,
         \/ LookForReferral(h) \/ RecordReferral(h) \/ LookForPassword(h)
         \/ LookForAccount(h) \/ IssueTicket(h) \/ ReadTicket(h) \/ SetPassword(h) \/ DiscardTicket(h) \/ Unlock(h)
         \/ LookForGoogleAccount(h) \/ CreateGoogleAccount(h) \/ ClaimReferral(h)
         \/ CountFailure(h) \/ ClearFailures(h)
  PROVE  Aside(h)
<1> USE RequestAt
<1>1. CASE LookForReferral(h) \/ RecordReferral(h)
  <2>1. \E step \in {"look", "find", "record"} :
          /\ Goto(h, step)
          /\ \/ job[h] \in StartJob /\ step \in {"record", "look"}
             \/ job[h] \in ReferralJob /\ step \in {"record", "find"}
    BY <1>1 DEF LookForReferral, RecordReferral, StartJob, ReferralJob
  <2> QED BY <2>1, AsideMoves
<1>2. CASE LookForPassword(h)
  <2>1. job[h] \in StartJob /\ (Goto(h, "wait") \/ Done(h))
    BY <1>2 DEF LookForPassword
  <2> QED BY <2>1, AsideMoves, AsideEnds
<1>3. CASE LookForAccount(h) \/ IssueTicket(h)
  <2>1. job[h] \in VerifyJob /\ (Goto(h, "ticket") \/ Done(h))
    BY <1>3 DEF LookForAccount, IssueTicket
  <2> QED BY <2>1, AsideMoves, AsideEnds
<1>4. CASE ReadTicket(h) \/ SetPassword(h) \/ DiscardTicket(h) \/ Unlock(h)
  <2>1. job[h] \in FinishJob
    BY <1>4 DEF ReadTicket, SetPassword, DiscardTicket, Unlock
  <2>2. Done(h) \/ CompleteReferral(h) \/ (\E step \in {"write", "discard", "unlock"} : Goto(h, step))
    <3>1. CASE DiscardTicket(h)
      <4>1. job[h].for \in {"customer", "merchant", "reset"}
        BY <2>1, SignUpAssumptions DEF FinishJob
      <4> QED BY <3>1, <4>1 DEF DiscardTicket
    <3>2. CASE ReadTicket(h) \/ SetPassword(h) \/ Unlock(h)
      BY <3>2 DEF ReadTicket, SetPassword, Unlock
    <3> QED BY <1>4, <3>1, <3>2
  <2> QED BY <2>1, <2>2, AsideMoves, AsideEnds, CompletingAside
<1>5. CASE LookForGoogleAccount(h) \/ CreateGoogleAccount(h)
  <2>1. job[h] \in GoogleJob
    BY <1>5 DEF LookForGoogleAccount, CreateGoogleAccount
  <2>2. Done(h) \/ CompleteReferral(h) \/ (\E step \in {"create", "update"} : Goto(h, step))
    BY <1>5 DEF LookForGoogleAccount, CreateGoogleAccount, Account
  <2> QED BY <2>1, <2>2, AsideMoves, AsideEnds, CompletingAside
<1>6. CASE ClaimReferral(h) \/ CountFailure(h) \/ ClearFailures(h)
  BY <1>6, AsideEnds DEF ClaimReferral, CountFailure, ClearFailures
<1> QED BY <1>1, <1>2, <1>3, <1>4, <1>5, <1>6

\* What the other steps make of their request.
LEMMA ClaimWaitJob ==
  ASSUME Requests, NEW h \in Handlers, ClaimWait(h)
  PROVE  /\ job[h] \in StartJob /\ job[h].for \in Purposes /\ ~Judges(h) /\ ~Guesses(h)
         /\ Requests' /\ Others(h) /\ ~Judges(h)' /\ ~Guesses(h)'
         /\ job[h].for \in wait => ~Sends(h)'
         /\ Sends(h)' => job'[h].for = job[h].for
<1>1. job[h] \in StartJob /\ job[h].for \in Purposes /\ ~Judges(h) /\ ~Guesses(h)
  BY RequestAt DEF ClaimWait, StartJob, Judges, Guesses, At
<1>2. CASE job[h].for \in wait
  BY <1>1, <1>2, AsideEnds DEF ClaimWait, Aside
<1>3. CASE job[h].for \notin wait
  <2>1. Goto(h, "store")
    BY <1>3 DEF ClaimWait
  <2>2. Requests' /\ Others(h) /\ job'[h].kind = "start" /\ job'[h].for = job[h].for
    BY <1>1, <2>1, Moving DEF Others, StartJob
  <2> QED BY <1>1, <1>3, <2>2 DEF Judges, Guesses, At
<1> QED BY <1>2, <1>3

LEMMA StoreCodeJob ==
  ASSUME Requests, NEW h \in Handlers, StoreCode(h)
  PROVE  /\ Sends(h) /\ job[h].for \in Purposes
         /\ Requests' /\ Others(h) /\ ~Judges(h)' /\ ~Guesses(h)'
         /\ Sends(h)' => job'[h].for = job[h].for
<1>1. job[h] \in StartJob /\ job[h].for \in Purposes /\ Sends(h)
  BY RequestAt DEF StoreCode, StartJob, Sends
<1>2. Requests' /\ Others(h) /\ job'[h].kind = "start" /\ job'[h].for = job[h].for
  BY <1>1, Moving DEF StoreCode, Others, StartJob
<1> QED BY <1>1, <1>2 DEF Judges, Guesses, At

LEMMA SendCodeJob ==
  ASSUME Requests, NEW h \in Handlers, SendCode(h)
  PROVE  Sends(h) /\ job[h].for \in Purposes /\ Aside(h)
BY RequestAt, AsideEnds DEF SendCode, Sends, StartJob

LEMMA CountAttemptJob ==
  ASSUME Requests, code \in [Purposes -> [no : 0..MaxCodes, tries : Nat]], NEW h \in Handlers, CountAttempt(h)
  PROVE  /\ job[h].for \in Purposes /\ ~Judges(h)
         /\ Requests' /\ Others(h) /\ ~Sends(h)' /\ ~Guesses(h)'
         /\ job'[h].for = job[h].for /\ job'[h].saw = code[job[h].for].no /\ job'[h].tries = code[job[h].for].tries + 1
<1>1. job[h] \in VerifyJob /\ job[h].for \in Purposes /\ ~Judges(h)
  BY RequestAt DEF CountAttempt, VerifyJob, Judges, At
<1>2. code[job[h].for].no \in 0..MaxCodes /\ code[job[h].for].tries \in Nat /\ code[job[h].for].tries + 1 \in Nat
  BY <1>1
<1> DEFINE j == [job[h] EXCEPT !.pc = "judge", !.saw = code[job[h].for].no, !.tries = code[job[h].for].tries + 1]
<1>3. job' = [job EXCEPT ![h] = j]
  BY DEF CountAttempt, Requests
<1>4. /\ j \in VerifyJob /\ j.kind = "verify"
      /\ j.for = job[h].for /\ j.saw = code[job[h].for].no /\ j.tries = code[job[h].for].tries + 1
  BY <1>1, <1>2 DEF VerifyJob
<1> HIDE DEF j
<1>5. j \in Job /\ j \notin ReferralJob
  BY <1>4 DEF Job, Work, ReferralJob
<1>6. Requests' /\ job'[h] = j /\ Others(h)
  BY <1>3, <1>5, Becoming DEF Others
<1> QED BY <1>1, <1>4, <1>6 DEF Sends, Guesses, At

LEMMA JudgeGuessJob ==
  ASSUME Requests, NEW h \in Handlers, JudgeGuess(h)
  PROVE  /\ Judges(h) /\ job[h] \in VerifyJob /\ job[h].for \in Purposes /\ job[h].saw \in 0..MaxCodes /\ job[h].tries \in Nat
         /\ Aside(h)
<1>1. Judges(h) /\ job[h] \in VerifyJob /\ job[h].for \in Purposes /\ job[h].saw \in 0..MaxCodes /\ job[h].tries \in Nat
  BY RequestAt DEF JudgeGuess, Judges, VerifyJob
<1>2. Done(h) \/ Goto(h, "look")
  BY DEF JudgeGuess
<1> QED BY <1>1, <1>2, AsideEnds, AsideMoves

LEMMA FindReferralAside ==
  ASSUME Requests, NEW h \in Handlers, FindReferral(h)
  PROVE  Aside(h)
<1>1. job[h] \in ReferralJob
  BY RequestAt DEF FindReferral
<1>2. CASE Done(h)
  BY <1>2, AsideEnds
<1>3. ASSUME NEW r \in Referrals, job' = [job EXCEPT ![h].pc = "claim", ![h].row = r]
      PROVE  Aside(h)
  <2> DEFINE j == [job[h] EXCEPT !.pc = "claim", !.row = r]
  <2>1. job' = [job EXCEPT ![h] = j]
    BY <1>3 DEF Requests
  <2>2. j \in ReferralJob /\ j.kind = "referral" /\ j.row = r
    BY <1>1 DEF ReferralJob
  <2> HIDE DEF j
  <2>3. j \in Job
    BY <2>2 DEF Job, Work
  <2> QED BY <2>1, <2>2, <2>3, AsideBecomes
<1> QED BY <1>2, <1>3 DEF FindReferral

LEMMA LoginJobs ==
  ASSUME Requests, NEW h \in Handlers, CheckLockout(h) \/ ComparePassword(h)
  PROVE  /\ Requests' /\ Others(h) /\ ~Judges(h)' /\ ~Sends(h)'
         /\ ComparePassword(h) => Guesses(h)
<1>1. job[h] \in LoginJob /\ (ComparePassword(h) => Guesses(h))
  BY RequestAt DEF CheckLockout, ComparePassword, Guesses
<1>2. CASE Done(h)
  BY <1>1, <1>2, AsideEnds DEF Aside
<1>3. ASSUME NEW step \in {"compare", "wrong", "clear"}, Goto(h, step)
      PROVE  Requests' /\ Others(h) /\ ~Judges(h)' /\ ~Sends(h)'
  <2>1. Requests' /\ Others(h) /\ job'[h].kind = "login"
    BY <1>1, <1>3, Moving DEF Others, LoginJob
  <2> QED BY <2>1 DEF Judges, Sends, At
<1> QED BY <1>1, <1>2, <1>3 DEF CheckLockout, ComparePassword

LEMMA RequestJobs ==
  ASSUME Requests, NEW h \in Handlers, Request(h),
         ticket \in [Tickets -> Purposes \union {"unused", "gone"}]
  PROVE  Requests' /\ Others(h) /\ ~Judges(h)' /\ ~Sends(h)' /\ ~Guesses(h)'
<1> SUFFICES Aside(h)
  BY DEF Aside
<1>1. ASSUME NEW j \in Work, Begin(h, j), j.pc \notin {"store", "send", "judge", "compare", "wrong", "claim"}
      PROVE  Aside(h)
  <2>1. job' = [job EXCEPT ![h] = j] /\ j \in Job
    BY <1>1 DEF Begin, Job
  <2>2. Requests' /\ Others(h) /\ job'[h] = j
    BY <1>1, <2>1, Becoming DEF Others
  <2> QED BY <1>1, <2>2 DEF Aside, Judges, Sends, Guesses, At
<1>2. ASSUME NEW p \in Purposes, BeginStart(h, p) PROVE Aside(h)
  <2>1. p \in {"customer", "merchant", "reset"}
    BY SignUpAssumptions
  <2>2. PICK step \in {"intent", "look", "wait"} : Begin(h, [kind |-> "start", for |-> p, pc |-> step])
    BY <1>2, <2>1 DEF BeginStart
  <2> DEFINE j == [kind |-> "start", for |-> p, pc |-> step]
  <2>3. j \in Work /\ j.pc = step
    BY DEF Work, StartJob
  <2> HIDE DEF j
  <2> QED BY <1>1, <2>2, <2>3 DEF j
<1>3. ASSUME NEW p \in Purposes, NEW guess \in 0..MaxCodes, BeginVerify(h, p, guess) PROVE Aside(h)
  <2> DEFINE j == [kind |-> "verify", for |-> p, pc |-> "count", guess |-> guess, saw |-> 0, tries |-> 0]
  <2>1. j \in Work /\ j.pc = "count"
    BY SignUpAssumptions DEF Work, VerifyJob
  <2>2. Begin(h, j)
    BY <1>3 DEF BeginVerify
  <2> HIDE DEF j
  <2> QED BY <1>1, <2>1, <2>2
<1>4. ASSUME NEW t \in Tickets, BeginFinish(h, t) PROVE Aside(h)
  <2> DEFINE j == [kind |-> "finish", for |-> ticket[t], pc |-> "read", with |-> t]
  <2>1. j \in Work /\ j.pc = "read"
    BY <1>4 DEF BeginFinish, Work, FinishJob
  <2>2. Begin(h, j)
    BY <1>4 DEF BeginFinish
  <2> HIDE DEF j
  <2> QED BY <1>1, <2>1, <2>2
<1>5. ASSUME NEW role \in Roles, BeginGoogle(h, role) PROVE Aside(h)
  <2> DEFINE j == [kind |-> "google", for |-> role, pc |-> "look"]
  <2>1. j \in Work /\ j.pc = "look"
    BY DEF Work, GoogleJob
  <2>2. Begin(h, j)
    BY <1>5 DEF BeginGoogle
  <2> HIDE DEF j
  <2> QED BY <1>1, <2>1, <2>2
<1>6. ASSUME NEW right \in {"right", "wrong"}, BeginLogin(h, right) PROVE Aside(h)
  <2> DEFINE j == [kind |-> "login", pc |-> "check", right |-> right]
  <2>1. j \in Work /\ j.pc = "check"
    BY DEF Work, LoginJob
  <2>2. Begin(h, j)
    BY <1>6 DEF BeginLogin
  <2> HIDE DEF j
  <2> QED BY <1>1, <2>1, <2>2
<1> QED BY <1>2, <1>3, <1>4, <1>5, <1>6 DEF Request

-----------------------------------------------------------------------------
(* What is kept is well formed. *)

Typed == TypeOK /\ Requests

\* Every step leaves requests that are well formed.
LEMMA RequestsStep ==
  ASSUME Typed, [Next]_vars
  PROVE  Requests'
<1> USE DEF Typed
<1>1. CASE UNCHANGED vars
  BY <1>1 DEF vars, Requests, ClaimsAReferral
<1>2. ASSUME NEW h \in Handlers, HandlerStep(h) PROVE Requests'
  <2>1. CASE ClaimWait(h) \/ StoreCode(h) \/ SendCode(h) \/ CountAttempt(h) \/ JudgeGuess(h)
    BY <2>1, ClaimWaitJob, StoreCodeJob, SendCodeJob, CountAttemptJob, JudgeGuessJob DEF TypeOK, Aside
  <2>2. CASE FindReferral(h) \/ CheckLockout(h) \/ ComparePassword(h)
    BY <2>2, FindReferralAside, LoginJobs DEF Aside
  <2> QED BY <1>2, <2>1, <2>2, AsideSteps DEF HandlerStep, TypeOK, Aside
<1>3. ASSUME NEW h \in Handlers, Request(h) PROVE Requests'
  BY <1>3, RequestJobs DEF TypeOK
<1>4. ASSUME LockoutEnds \/ (\E p \in Purposes : WaitEnds(p) \/ CodeExpires(p)) PROVE Requests'
  BY <1>4 DEF LockoutEnds, WaitEnds, CodeExpires, Requests, ClaimsAReferral
<1> QED BY <1>1, <1>2, <1>3, <1>4 DEF Next

\* The steps of the requests that leave the rows of this kind alone.
LEMMA CodesTyped ==
  ASSUME Typed, NEW h \in Handlers,
         ClaimWait(h) \/ StoreCode(h) \/ SendCode(h) \/ CountAttempt(h) \/ JudgeGuess(h)
  PROVE  TypeOK'
<1> USE DEF Typed
<1>0. Requests' /\ (\A g \in Handlers : job'[g] \in Job)
  BY ClaimWaitJob, StoreCodeJob, SendCodeJob, CountAttemptJob, JudgeGuessJob DEF TypeOK, Aside, Requests
<1>1. CASE ClaimWait(h)
  <2>1. job[h].for \in Purposes
    BY <1>1, ClaimWaitJob
  <2>2. window \in [Purposes -> Nat] /\ wait \subseteq Purposes
    BY DEF TypeOK
  <2>3. window' \in [Purposes -> Nat] /\ wait' \subseteq Purposes
    BY <1>1, <2>1, <2>2 DEF ClaimWait
  <2> QED BY <1>0, <1>1, <2>3 DEF TypeOK, ClaimWait
<1>2. CASE StoreCode(h)
  <2>0. job[h].for \in Purposes
    BY <1>2, StoreCodeJob
  <2>1. sent[job[h].for] \in 0..MaxCodes /\ sent[job[h].for] < MaxCodes
    BY <1>2, <2>0 DEF TypeOK, StoreCode
  <2>2. sent[job[h].for] + 1 \in 0..MaxCodes
    BY <2>1, SignUpAssumptions
  <2>3. /\ sent' \in [Purposes -> 0..MaxCodes]
        /\ code' \in [Purposes -> [no : 0..MaxCodes, tries : Nat]]
    BY <1>2, <2>0, <2>2 DEF TypeOK, StoreCode
  <2> QED BY <1>0, <1>2, <2>3 DEF TypeOK, StoreCode
<1>3. CASE SendCode(h)
  <2>1. job[h].for \in Purposes
    BY <1>3, SendCodeJob
  <2>2. window \in [Purposes -> Nat] /\ wait \subseteq Purposes
    BY DEF TypeOK
  <2>3. window' \in [Purposes -> Nat] /\ wait' \subseteq Purposes
    BY <1>3, <2>1, <2>2 DEF SendCode
  <2> QED BY <1>0, <1>3, <2>3 DEF TypeOK, SendCode
<1>4. CASE CountAttempt(h)
  <2>1. job[h].for \in Purposes
    BY <1>4, CountAttemptJob DEF TypeOK
  <2>2. code \in [Purposes -> [no : 0..MaxCodes, tries : Nat]]
    BY DEF TypeOK
  <2>3. [code[job[h].for] EXCEPT !.tries = @ + 1] \in [no : 0..MaxCodes, tries : Nat]
    BY <2>1, <2>2
  <2>4. code' = [code EXCEPT ![job[h].for] = [code[job[h].for] EXCEPT !.tries = @ + 1]]
    BY <1>4 DEF CountAttempt
  <2>5. code' \in [Purposes -> [no : 0..MaxCodes, tries : Nat]]
    BY <2>1, <2>2, <2>3, <2>4
  <2> QED BY <1>0, <1>4, <2>5 DEF TypeOK, CountAttempt
<1>5. CASE JudgeGuess(h)
  <2>1. job[h].for \in Purposes /\ job[h].saw \in 0..MaxCodes
    BY <1>5, JudgeGuessJob
  <2>2. NoCode \in [no : 0..MaxCodes, tries : Nat]
    BY SignUpAssumptions DEF NoCode
  <2>3. /\ code' \in [Purposes -> [no : 0..MaxCodes, tries : Nat]]
        /\ lost' \subseteq Purposes
    <3>1. code \in [Purposes -> [no : 0..MaxCodes, tries : Nat]] /\ lost \subseteq Purposes
      BY DEF TypeOK
    <3>2. /\ UNCHANGED code \/ code' = [code EXCEPT ![job[h].for] = NoCode]
          /\ UNCHANGED lost \/ lost' = lost \union {job[h].for}
      BY <1>5 DEF JudgeGuess, DeleteCode
    <3>3. code' \in [Purposes -> [no : 0..MaxCodes, tries : Nat]]
      BY <2>1, <2>2, <3>1, <3>2
    <3> QED BY <2>1, <3>1, <3>2, <3>3
  <2>4. compared' \in [Purposes -> [1..MaxCodes -> Nat]]
    <3>1. CASE UNCHANGED compared
      BY <3>1 DEF TypeOK
    <3>2. CASE job[h].saw # 0 /\ compared' = [compared EXCEPT ![job[h].for][job[h].saw] = @ + 1]
      <4>1. compared[job[h].for] \in [1..MaxCodes -> Nat]
        BY <2>1 DEF TypeOK
      <4>2. [compared[job[h].for] EXCEPT ![job[h].saw] = @ + 1] \in [1..MaxCodes -> Nat]
        <5>1. [compared[job[h].for] EXCEPT ![job[h].saw] = @ + 1] = [n \in 1..MaxCodes |-> IF n = job[h].saw THEN compared[job[h].for][n] + 1 ELSE compared[job[h].for][n]]
          BY <4>1
        <5>2. \A n \in 1..MaxCodes : compared[job[h].for][n] \in Nat
          BY <4>1
        <5>3. \A n \in 1..MaxCodes : compared[job[h].for][n] + 1 \in Nat
          BY ONLY <5>2
        <5> QED BY <5>1, <5>2, <5>3
      <4>3. compared' = [compared EXCEPT ![job[h].for] = [compared[job[h].for] EXCEPT ![job[h].saw] = @ + 1]]
        BY <3>2
      <4> QED BY <2>1, <4>2, <4>3 DEF TypeOK
    <3> QED BY <1>5, <3>1, <3>2 DEF JudgeGuess
  <2> QED BY <1>0, <1>5, <2>3, <2>4 DEF TypeOK, JudgeGuess
<1> QED BY <1>1, <1>2, <1>3, <1>4, <1>5

LEMMA TypedStep ==
  ASSUME Typed, [Next]_vars
  PROVE  Typed'
<1> USE DEF Typed
<1>0. Requests' /\ (\A g \in Handlers : job'[g] \in Job)
  BY RequestsStep DEF Requests
<1>1. CASE UNCHANGED vars
  BY <1>0, <1>1 DEF vars, TypeOK
<1>2. ASSUME NEW h \in Handlers, HandlerStep(h) PROVE TypeOK'
  <2>1. CASE LookForReferral(h) \/ LookForPassword(h) \/ LookForAccount(h) \/ ReadTicket(h) \/ FindReferral(h) \/ CheckLockout(h) \/ ComparePassword(h)
    BY <1>0, <2>1 DEF TypeOK, codes, LookForReferral, LookForPassword, LookForAccount, ReadTicket, FindReferral, CheckLockout, ComparePassword
  <2>2. CASE CountFailure(h) \/ ClearFailures(h)
    <3>1. failures' \in Nat
      BY <2>2 DEF TypeOK, CountFailure, ClearFailures
    <3> QED BY <1>0, <2>2, <3>1 DEF TypeOK, codes, CountFailure, ClearFailures
  <2>3. CASE RecordReferral(h)
    BY <1>0, <2>3 DEF TypeOK, codes, RecordReferral
  <2>4. CASE ClaimReferral(h)
    <3>1. referral' \in [Referrals -> {"none", "pending", "completed"}] /\ earned' \in Nat
      <4>1. referral \in [Referrals -> {"none", "pending", "completed"}] /\ earned \in Nat
        BY DEF TypeOK
      <4>2. \/ UNCHANGED <<referral, earned>>
            \/ referral' = [referral EXCEPT ![job[h].row] = "completed"] /\ earned' = earned + 1
        BY <2>4 DEF ClaimReferral
      <4> QED BY <4>1, <4>2
    <3> QED BY <1>0, <2>4, <3>1 DEF TypeOK, codes, ClaimReferral
  <2>5. CASE IssueTicket(h)
    <3>1. job[h] \in VerifyJob /\ job[h].for \in Purposes
      BY <2>5, RequestAt DEF IssueTicket, VerifyJob
    <3>2. ticket' \in [Tickets -> Purposes \union {"unused", "gone"}]
      BY <2>5, <3>1 DEF IssueTicket, TypeOK
    <3>3. account' \in Account /\ (account'.row # "finished" => account'.password = "none")
      BY <2>5 DEF IssueTicket, TypeOK, Account
    <3> QED BY <1>0, <2>5, <3>2, <3>3 DEF TypeOK, codes, IssueTicket
  <2>6. CASE SetPassword(h)
    <3>1. job[h] \in FinishJob /\ job[h].for \in {"customer", "merchant", "reset"}
      BY <2>6, RequestAt, SignUpAssumptions DEF SetPassword, FinishJob
    <3>2. account' \in Account /\ (account'.row # "finished" => account'.password = "none")
      BY <2>6, <3>1 DEF SetPassword, WithPassword, TypeOK, Account
    <3> QED BY <1>0, <2>6, <3>2 DEF TypeOK, codes, SetPassword
  <2>7. CASE DiscardTicket(h) \/ Unlock(h)
    <3>1. job[h] \in FinishJob /\ job[h].for \in {"customer", "merchant", "reset"} /\ job[h].with \in Tickets
      BY <2>7, RequestAt, SignUpAssumptions DEF DiscardTicket, Unlock, FinishJob
    <3>2. ticket' \in [Tickets -> Purposes \union {"unused", "gone"}]
      BY <2>7, <3>1 DEF DiscardTicket, Unlock, TypeOK
    <3>3. useless' \subseteq {"customer", "merchant"} /\ failures' \in Nat
      <4>1. useless \subseteq {"customer", "merchant"} /\ failures \in Nat
        BY DEF TypeOK
      <4>2. failures' \in Nat
        <5>1. failures' \in {0, failures}
          BY <2>7 DEF DiscardTicket, Unlock
        <5> QED BY <4>1, <5>1
      <4>3. \A role \in {"customer", "merchant"} : OpenSession(role) => useless' \subseteq {"customer", "merchant"}
        BY <4>1 DEF OpenSession
      <4>4. UNCHANGED useless \/ OpenSession("merchant") \/ OpenSession("customer")
        BY <2>7, <3>1 DEF DiscardTicket, Unlock
      <4> QED BY <4>1, <4>2, <4>3, <4>4
    <3> QED BY <1>0, <2>7, <3>2, <3>3 DEF TypeOK, codes, DiscardTicket, Unlock
  <2>8. CASE LookForGoogleAccount(h) \/ CreateGoogleAccount(h)
    <3>1. job[h] \in GoogleJob /\ job[h].for \in {"customer", "merchant"}
      BY <2>8, RequestAt, SignUpAssumptions DEF LookForGoogleAccount, CreateGoogleAccount, GoogleJob
    <3>2. account' \in Account /\ (account'.row # "finished" => account'.password = "none")
      <4>1. account \in Account /\ (account.row # "finished" => account.password = "none")
        BY DEF TypeOK
      <4>2. CASE UNCHANGED account
        BY <4>1, <4>2
      <4>3. ASSUME NEW sites \in SUBSET {"customer", "merchant"}, account' = [account EXCEPT !.row = "finished", !.sites = sites]
            PROVE  account' \in Account /\ account'.row = "finished"
        BY <4>1, <4>3 DEF Account
      <4>4. CASE CreateGoogleAccount(h) /\ ~UNCHANGED account
        <5>1. account.sites \subseteq {"customer", "merchant"}
          BY <4>1 DEF Account
        <5>2. \E sites \in SUBSET {"customer", "merchant"} : account' = [account EXCEPT !.row = "finished", !.sites = sites]
          BY <4>4, <5>1 DEF CreateGoogleAccount
        <5> QED BY <4>3, <5>2
      <4> QED BY <2>8, <4>2, <4>4 DEF LookForGoogleAccount
    <3>3. useless' \subseteq {"customer", "merchant"}
      BY <2>8, <3>1 DEF LookForGoogleAccount, CreateGoogleAccount, OpenSession, TypeOK, Account
    <3> QED BY <1>0, <2>8, <3>2, <3>3 DEF TypeOK, codes, LookForGoogleAccount, CreateGoogleAccount
  <2> QED BY <1>2, <2>1, <2>2, <2>3, <2>4, <2>5, <2>6, <2>7, <2>8, CodesTyped DEF HandlerStep
<1>3. ASSUME NEW h \in Handlers, Request(h) PROVE TypeOK'
  BY <1>0, <1>3 DEF TypeOK, codes, Request, BeginStart, BeginVerify, BeginFinish, BeginGoogle, BeginLogin
<1>4. CASE LockoutEnds
  BY <1>0, <1>4 DEF TypeOK, codes, LockoutEnds
<1>5. ASSUME NEW p \in Purposes, WaitEnds(p) PROVE TypeOK'
  BY <1>0, <1>5 DEF TypeOK, WaitEnds
<1>6. ASSUME NEW p \in Purposes, CodeExpires(p) PROVE TypeOK'
  <2>1. code' \in [Purposes -> [no : 0..MaxCodes, tries : Nat]]
    BY <1>6, SignUpAssumptions DEF TypeOK, CodeExpires, NoCode
  <2> QED BY <1>0, <1>6, <2>1 DEF TypeOK, CodeExpires
<1> QED BY <1>0, <1>1, <1>2, <1>3, <1>4, <1>5, <1>6 DEF Next

LEMMA TypedInit ==
  ASSUME Init
  PROVE  Typed
<1>1. Requests
  BY NoJobIsNoWork DEF Init, Requests, ClaimsAReferral, Job, Work
<1>2. TypeOK
  BY <1>1, SignUpAssumptions DEF Init, TypeOK, NoCode, Account, Requests
<1> QED BY <1>1, <1>2 DEF Typed

-----------------------------------------------------------------------------
(* Codes: the attempts counted bound the guesses compared. *)

\* The guesses at code n that have been counted, may be compared, and have not
\* been yet.
Judging(p, n) == {h \in Handlers : Judges(h) /\ job[h].for = p /\ job[h].saw = n /\ job[h].tries <= MaxAttempts}

\* The attempts counted against code n; all there are, once it is gone.
Allowed(p, n) == IF code[p].no = n /\ code[p].tries < MaxAttempts THEN code[p].tries ELSE MaxAttempts

CodeCounts(p, n) ==
  /\ compared[p][n] + Cardinality(Judging(p, n)) <= Allowed(p, n)
  /\ n > sent[p] => compared[p][n] = 0 /\ Judging(p, n) = {}

CodesInv == \A p \in Purposes : code[p].no <= sent[p] /\ \A n \in 1..MaxCodes : CodeCounts(p, n)

\* Sets of requests can be counted.
LEMMA SomeRequests ==
  ASSUME NEW S \in SUBSET Handlers
  PROVE  /\ IsFiniteSet(S) /\ Cardinality(S) \in Nat
         /\ \A T \in SUBSET S : Cardinality(T) \in Nat /\ Cardinality(T) <= Cardinality(S)
         /\ \A h \in S : Cardinality(S \ {h}) = Cardinality(S) - 1
         /\ \A h \in Handlers \ S : Cardinality(S \union {h}) = Cardinality(S) + 1
BY SignUpAssumptions, FS_Subset, FS_CardinalityType, FS_RemoveElement, FS_AddElement

\* What a state counts for one code.
LEMMA CodeTyped ==
  ASSUME Typed, NEW p \in Purposes, NEW n \in 1..MaxCodes
  PROVE  /\ compared[p][n] \in Nat /\ code[p].no \in 0..MaxCodes /\ code[p].tries \in Nat /\ sent[p] \in 0..MaxCodes
         /\ n \in Nat /\ n # 0
         /\ Judging(p, n) \in SUBSET Handlers
         /\ Allowed(p, n) \in Nat /\ Allowed(p, n) <= MaxAttempts
BY SignUpAssumptions DEF Typed, TypeOK, Judging, Allowed

\* Request h leaves the guesses being judged, or was not among them.
LEMMA LeavesJudging ==
  ASSUME NEW h \in Handlers, Others(h), ~Judges(h)', NEW p \in Purposes, NEW n \in 1..MaxCodes
  PROVE  Judging(p, n)' = Judging(p, n) \ {h}
BY DEF Others, Judging, Judges, At

\* Less is counted as being judged, and no less allowed.
LEMMA FewerJudged ==
  ASSUME Typed, CodesInv, NEW p \in Purposes, NEW n \in 1..MaxCodes,
         Judging(p, n)' \in SUBSET Judging(p, n), compared'[p][n] = compared[p][n],
         sent'[p] \in Nat, sent[p] <= sent'[p], Allowed(p, n)' \in Nat, Allowed(p, n) <= Allowed(p, n)'
  PROVE  CodeCounts(p, n)'
<1>1. /\ compared[p][n] + Cardinality(Judging(p, n)) <= Allowed(p, n)
      /\ n > sent[p] => compared[p][n] = 0 /\ Judging(p, n) = {}
  BY DEF CodesInv, CodeCounts
<1>2. Cardinality(Judging(p, n)') \in Nat /\ Cardinality(Judging(p, n)') <= Cardinality(Judging(p, n)) /\ Cardinality(Judging(p, n)) \in Nat
  BY CodeTyped, SomeRequests
<1>3. compared[p][n] + Cardinality(Judging(p, n)') <= Allowed(p, n)'
  BY <1>1, <1>2, CodeTyped
<1>4. n > sent'[p] => compared[p][n] = 0 /\ Judging(p, n)' = {}
  BY <1>1, CodeTyped
<1> QED BY <1>3, <1>4 DEF CodeCounts

LEMMA CodesAside ==
  ASSUME Typed, CodesInv, UNCHANGED <<code, sent, compared>>,
         NEW h \in Handlers, Others(h), ~Judges(h)'
  PROVE  CodesInv'
<1>1. ASSUME NEW p \in Purposes, NEW n \in 1..MaxCodes PROVE CodeCounts(p, n)'
  <2>1. Judging(p, n)' \in SUBSET Judging(p, n)
    BY LeavesJudging
  <2>2. Allowed(p, n)' = Allowed(p, n)
    BY DEF Allowed
  <2> QED BY <2>1, <2>2, CodeTyped, FewerJudged
<1> QED BY <1>1 DEF CodesInv

LEMMA StoreCodeCounts ==
  ASSUME Typed, Typed', CodesInv, NEW h \in Handlers, StoreCode(h)
  PROVE  CodesInv'
<1>1. job[h].for \in Purposes /\ Others(h) /\ ~Judges(h)'
  BY StoreCodeJob DEF Typed
<1> DEFINE q == job[h].for
<1>2. /\ \A p \in Purposes : p # q => code'[p] = code[p] /\ sent'[p] = sent[p]
      /\ code'[q] = [no |-> sent[q] + 1, tries |-> 0] /\ sent'[q] = sent[q] + 1
      /\ UNCHANGED compared
  BY <1>1 DEF StoreCode, Typed, TypeOK
<1> HIDE DEF q
<1>3. q \in Purposes
  BY <1>1 DEF q
<1>4. ASSUME NEW p \in Purposes, NEW n \in 1..MaxCodes PROVE CodeCounts(p, n)'
  <2>1. Judging(p, n)' \in SUBSET Judging(p, n)
    BY <1>1, LeavesJudging
  <2>2. CASE p # q
    <3>1. Allowed(p, n)' = Allowed(p, n)
      BY <1>2, <2>2 DEF Allowed
    <3> QED BY <1>2, <2>1, <2>2, <3>1, CodeTyped, FewerJudged
  <2>3. CASE p = q /\ n # sent[q] + 1
    <3>1. Allowed(p, n)' = MaxAttempts
      BY <1>2, <2>3 DEF Allowed
    <3>2. Allowed(p, n) <= Allowed(p, n)' /\ Allowed(p, n)' \in Nat
      BY <3>1, CodeTyped, SignUpAssumptions
    <3>3. sent'[p] \in Nat /\ sent[p] <= sent'[p]
      BY <1>2, <2>3, CodeTyped
    <3> QED BY <1>2, <2>1, <3>2, <3>3, FewerJudged
  <2>4. CASE p = q /\ n = sent[q] + 1
    <3>1. compared[p][n] = 0 /\ Judging(p, n) = {}
      BY <2>4, CodeTyped DEF CodesInv, CodeCounts
    <3>2. compared'[p][n] = 0 /\ Judging(p, n)' = {}
      BY <1>2, <2>1, <3>1
    <3>3. Allowed(p, n)' \in Nat
      BY CodeTyped, SignUpAssumptions, <1>2, <2>4 DEF Allowed
    <3> QED BY <3>2, <3>3, FS_EmptySet DEF CodeCounts
  <2> QED BY <2>2, <2>3, <2>4
<1>5. \A p \in Purposes : code'[p].no <= sent'[p]
  <2> TAKE p \in Purposes
  <2>1. sent[q] + 1 \in Nat
    BY <1>3 DEF Typed, TypeOK
  <2> QED BY <1>2, <2>1 DEF CodesInv
<1> QED BY <1>4, <1>5 DEF CodesInv

\* The code of q is deleted, and no more guesses at it are judged.
LEMMA DeletedCounts ==
  ASSUME Typed, CodesInv, NEW q \in Purposes, code' = [code EXCEPT ![q] = NoCode], UNCHANGED <<sent, compared>>,
         \A p \in Purposes : \A n \in 1..MaxCodes : Judging(p, n)' \in SUBSET Judging(p, n)
  PROVE  CodesInv'
<1>1. /\ \A p \in Purposes : p # q => code'[p] = code[p]
      /\ code'[q].no = 0
  BY DEF Typed, TypeOK, NoCode
<1>2. ASSUME NEW p \in Purposes, NEW n \in 1..MaxCodes PROVE CodeCounts(p, n)'
  <2>1. Allowed(p, n)' \in {Allowed(p, n), MaxAttempts}
    BY <1>1, CodeTyped DEF Allowed
  <2>2. Allowed(p, n)' \in Nat /\ Allowed(p, n) <= Allowed(p, n)'
    BY <2>1, CodeTyped, SignUpAssumptions
  <2> QED BY <2>2, CodeTyped, FewerJudged
<1>3. \A p \in Purposes : code'[p].no <= sent'[p]
  BY <1>1 DEF CodesInv, Typed, TypeOK
<1> QED BY <1>2, <1>3 DEF CodesInv

LEMMA CountAttemptCounts ==
  ASSUME Typed, Typed', CodesInv, NEW h \in Handlers, CountAttempt(h)
  PROVE  CodesInv'
<1> DEFINE q == job[h].for
           c == code[job[h].for].no
           k == code[job[h].for].tries
<1>1. /\ q \in Purposes /\ ~Judges(h) /\ Others(h)
      /\ job'[h].for = q /\ job'[h].saw = c /\ job'[h].tries = k + 1
  BY CountAttemptJob DEF Typed, TypeOK
<1>2. c \in 0..MaxCodes /\ k \in Nat
  BY <1>1 DEF Typed, TypeOK
<1>3. /\ \A p \in Purposes : p # q => code'[p] = code[p]
      /\ code'[q].no = c /\ code'[q].tries = k + 1
      /\ UNCHANGED <<sent, compared>>
  BY <1>1 DEF CountAttempt, Typed, TypeOK
<1>4. c = code[q].no /\ k = code[q].tries
  OBVIOUS
<1> HIDE DEF q, c, k
<1>5. ASSUME NEW p \in Purposes, NEW n \in 1..MaxCodes PROVE CodeCounts(p, n)'
  <2>1. CASE p # q \/ n # c
    <3>1. Judging(p, n)' \in SUBSET Judging(p, n)
      BY <1>1, <2>1 DEF Judging, Judges, At, Others
    <3>2. Allowed(p, n)' = Allowed(p, n)
      BY <1>3, <1>4, <2>1 DEF Allowed
    <3> QED BY <1>3, <3>1, <3>2, CodeTyped, FewerJudged
  <2>2. CASE p = q /\ n = c /\ ~(k + 1 <= MaxAttempts)
    <3>1. Judging(p, n)' \in SUBSET Judging(p, n)
      BY <1>1, <2>2 DEF Judging, Judges, At, Others
    <3>2. Allowed(p, n)' = Allowed(p, n)
      BY <1>2, <1>3, <1>4, <2>2, SignUpAssumptions DEF Allowed
    <3> QED BY <1>3, <3>1, <3>2, CodeTyped, FewerJudged
  <2>3. CASE p = q /\ n = c /\ k + 1 <= MaxAttempts
    <3>1. h \notin Judging(p, n) /\ Judging(p, n)' \in SUBSET (Judging(p, n) \union {h})
      BY <1>1 DEF Judging, Judges, At, Others
    <3>2. /\ Cardinality(Judging(p, n)) \in Nat /\ Cardinality(Judging(p, n)') \in Nat
          /\ Cardinality(Judging(p, n)') <= Cardinality(Judging(p, n)) + 1
      <4>1. Judging(p, n) \union {h} \in SUBSET Handlers /\ h \in Handlers \ Judging(p, n) /\ Judging(p, n) \in SUBSET Handlers
        BY <3>1, CodeTyped
      <4>2. Cardinality(Judging(p, n) \union {h}) = Cardinality(Judging(p, n)) + 1
        BY <4>1, SomeRequests
      <4>3. Cardinality(Judging(p, n)') \in Nat /\ Cardinality(Judging(p, n)') <= Cardinality(Judging(p, n) \union {h})
        BY <3>1, <4>1, SomeRequests
      <4>4. Cardinality(Judging(p, n)) \in Nat
        BY <4>1, SomeRequests
      <4> QED BY <4>2, <4>3, <4>4
    <3>3. Allowed(p, n) = k /\ Allowed(p, n)' = k + 1
      BY <1>2, <1>3, <1>4, <2>3, SignUpAssumptions DEF Allowed
    <3>4. compared[p][n] + Cardinality(Judging(p, n)) <= k /\ compared[p][n] \in Nat
      BY <3>3, CodeTyped DEF CodesInv, CodeCounts
    <3>5. compared'[p][n] + Cardinality(Judging(p, n)') <= Allowed(p, n)'
      BY <1>2, <1>3, <3>2, <3>3, <3>4
    <3>6. ~(n > sent'[p])
      BY <1>3, <1>4, <2>3, CodeTyped DEF CodesInv
    <3> QED BY <3>5, <3>6 DEF CodeCounts
  <2> QED BY <2>1, <2>2, <2>3
<1>6. \A p \in Purposes : code'[p].no <= sent'[p]
  BY <1>3, <1>4 DEF CodesInv
<1> QED BY <1>5, <1>6 DEF CodesInv

LEMMA JudgeGuessCounts ==
  ASSUME Typed, Typed', CodesInv, NEW h \in Handlers, JudgeGuess(h)
  PROVE  CodesInv'
<1>1. /\ Judges(h) /\ job[h].for \in Purposes /\ job[h].saw \in 0..MaxCodes /\ job[h].tries \in Nat
      /\ Others(h) /\ ~Judges(h)'
  BY JudgeGuessJob DEF Aside, Typed
<1>2. \A p \in Purposes : \A n \in 1..MaxCodes : Judging(p, n)' = Judging(p, n) \ {h}
  BY <1>1, LeavesJudging
<1>3. CASE job[h].saw = 0 \/ job[h].tries > MaxAttempts
  <2>1. code' = [code EXCEPT ![job[h].for] = NoCode] /\ UNCHANGED <<sent, compared>>
    BY <1>3 DEF JudgeGuess, DeleteCode
  <2> QED BY <1>1, <1>2, <2>1, DeletedCounts
<1>4. CASE ~(job[h].saw = 0 \/ job[h].tries > MaxAttempts)
  <2> DEFINE q == job[h].for
             m == job[h].saw
  <2>1. q \in Purposes /\ m \in 1..MaxCodes /\ h \in Judging(q, m)
    BY <1>1, <1>4, SignUpAssumptions DEF Judging
  <2>2. compared' = [compared EXCEPT ![q] = [compared[q] EXCEPT ![m] = compared[q][m] + 1]] /\ UNCHANGED sent
    BY <1>4 DEF JudgeGuess
  <2>3. code' = [code EXCEPT ![q] = NoCode] \/ UNCHANGED code
    BY <1>4 DEF JudgeGuess, DeleteCode
  <2> HIDE DEF q, m
  <2>4. /\ compared'[q][m] = compared[q][m] + 1
        /\ \A p \in Purposes : \A n \in 1..MaxCodes : p # q \/ n # m => compared'[p][n] = compared[p][n]
    BY <2>1, <2>2 DEF Typed, TypeOK
  <2>5. \A p \in Purposes : code'[p] = code[p] \/ code'[p].no = 0
    BY <2>1, <2>3 DEF Typed, TypeOK, NoCode
  <2>6. ASSUME NEW p \in Purposes, NEW n \in 1..MaxCodes PROVE CodeCounts(p, n)'
    <3>1. Allowed(p, n)' \in {Allowed(p, n), MaxAttempts}
      BY <2>5, CodeTyped DEF Allowed
    <3>2. Allowed(p, n)' \in Nat /\ Allowed(p, n) <= Allowed(p, n)'
      BY <3>1, CodeTyped, SignUpAssumptions
    <3>3. CASE p # q \/ n # m
      BY <1>2, <2>2, <2>4, <3>2, <3>3, CodeTyped, FewerJudged
    <3>4. CASE p = q /\ n = m
      <4>1. Cardinality(Judging(p, n)') = Cardinality(Judging(p, n)) - 1 /\ Cardinality(Judging(p, n)) \in Nat
        BY <1>2, <2>1, <3>4, CodeTyped, SomeRequests
      <4>2. compared[p][n] + Cardinality(Judging(p, n)) <= Allowed(p, n) /\ ~(n > sent[p])
        BY <2>1, <3>4 DEF CodesInv, CodeCounts
      <4>3. compared'[p][n] + Cardinality(Judging(p, n)') <= Allowed(p, n)'
        BY <2>4, <3>2, <3>4, <4>1, <4>2, CodeTyped
      <4> QED BY <2>2, <4>2, <4>3 DEF CodeCounts
    <3> QED BY <3>3, <3>4
  <2>7. ASSUME NEW p \in Purposes PROVE code'[p].no <= sent'[p]
    <3>1. sent[p] \in Nat /\ sent'[p] = sent[p] /\ code[p].no <= sent[p]
      BY <2>2 DEF CodesInv, Typed, TypeOK
    <3> QED BY <2>5, <3>1
  <2> QED BY <2>6, <2>7 DEF CodesInv
<1> QED BY <1>3, <1>4

LEMMA CodesStep ==
  ASSUME Typed, Typed', CodesInv, [Next]_vars
  PROVE  CodesInv'
<1> USE DEF Typed
<1>1. CASE UNCHANGED vars
  BY <1>1 DEF vars, CodesInv, CodeCounts, Allowed, Judging, Judges, At
<1>2. ASSUME NEW h \in Handlers, HandlerStep(h) PROVE CodesInv'
  <2>1. CASE StoreCode(h) \/ CountAttempt(h) \/ JudgeGuess(h)
    BY <2>1, StoreCodeCounts, CountAttemptCounts, JudgeGuessCounts
  <2>2. CASE ClaimWait(h) \/ SendCode(h)
    <3>1. UNCHANGED <<code, sent, compared>>
      BY <2>2 DEF ClaimWait, SendCode
    <3> QED BY <2>2, <3>1, ClaimWaitJob, SendCodeJob, CodesAside DEF Aside
  <2>3. CASE FindReferral(h) \/ CheckLockout(h) \/ ComparePassword(h)
    <3>1. UNCHANGED <<code, sent, compared>>
      BY <2>3 DEF FindReferral, CheckLockout, ComparePassword, codes
    <3> QED BY <2>3, <3>1, FindReferralAside, LoginJobs, CodesAside DEF Aside
  <2>4. CASE \/ LookForReferral(h) \/ RecordReferral(h) \/ LookForPassword(h)
             \/ LookForAccount(h) \/ IssueTicket(h) \/ ReadTicket(h) \/ SetPassword(h) \/ DiscardTicket(h) \/ Unlock(h)
             \/ LookForGoogleAccount(h) \/ CreateGoogleAccount(h) \/ ClaimReferral(h)
             \/ CountFailure(h) \/ ClearFailures(h)
    <3>1. UNCHANGED <<code, sent, compared>>
      BY <2>4 DEF codes, LookForReferral, RecordReferral, LookForPassword, LookForAccount, IssueTicket, ReadTicket, SetPassword,
         DiscardTicket, Unlock, LookForGoogleAccount, CreateGoogleAccount, ClaimReferral, CountFailure, ClearFailures
    <3>2. Aside(h)
      BY <2>4, AsideSteps DEF TypeOK
    <3> QED BY <3>1, <3>2, CodesAside DEF Aside
  <2> QED BY <1>2, <2>1, <2>2, <2>3, <2>4 DEF HandlerStep
<1>3. ASSUME NEW h \in Handlers, Request(h) PROVE CodesInv'
  <2>1. UNCHANGED <<code, sent, compared>>
    BY <1>3 DEF Request, BeginStart, BeginVerify, BeginFinish, BeginGoogle, BeginLogin, codes
  <2> QED BY <1>3, <2>1, RequestJobs, CodesAside DEF TypeOK
<1>4. CASE LockoutEnds \/ \E p \in Purposes : WaitEnds(p)
  <2>1. UNCHANGED <<code, sent, compared, job>>
    BY <1>4 DEF LockoutEnds, WaitEnds, codes
  <2> QED BY <2>1 DEF CodesInv, CodeCounts, Allowed, Judging, Judges, At
<1>5. ASSUME NEW q \in Purposes, CodeExpires(q) PROVE CodesInv'
  <2>1. code' = [code EXCEPT ![q] = NoCode] /\ UNCHANGED <<sent, compared, job>>
    BY <1>5 DEF CodeExpires
  <2>2. \A p \in Purposes : \A n \in 1..MaxCodes : Judging(p, n)' \in SUBSET Judging(p, n)
    BY <2>1 DEF Judging, Judges, At
  <2> QED BY <2>1, <2>2, DeletedCounts
<1> QED BY <1>1, <1>2, <1>3, <1>4, <1>5 DEF Next

\* codeStore.ts:75: whatever requests run at once, and whatever becomes of the
\* key meanwhile, no code is compared with more than MAX_ATTEMPTS guesses.
THEOREM GuessesAtACodeBounded == Spec => []AttemptsBounded
<1>1. Init => Typed /\ CodesInv
  <2> SUFFICES ASSUME Init PROVE Typed /\ CodesInv
    OBVIOUS
  <2>1. Typed
    BY TypedInit
  <2>2. \A p \in Purposes : \A n \in 1..MaxCodes : compared[p][n] = 0 /\ Judging(p, n) = {} /\ Allowed(p, n) \in Nat
    BY <2>1, CodeTyped DEF Init, Judging, Judges, At
  <2>3. \A p \in Purposes : code[p].no <= sent[p]
    BY DEF Init, NoCode
  <2> QED BY <2>1, <2>2, <2>3, FS_EmptySet DEF CodesInv, CodeCounts
<1>2. Typed /\ CodesInv /\ [Next]_vars => Typed' /\ CodesInv'
  BY TypedStep, CodesStep
<1>3. Typed /\ CodesInv => AttemptsBounded
  <2> SUFFICES ASSUME Typed, CodesInv, NEW p \in Purposes, NEW n \in 1..MaxCodes PROVE compared[p][n] <= MaxAttempts
    BY DEF AttemptsBounded
  <2>1. Cardinality(Judging(p, n)) \in Nat
    BY CodeTyped, SomeRequests
  <2> QED BY <2>1, CodeTyped, SignUpAssumptions DEF CodesInv, CodeCounts
<1> QED BY <1>1, <1>2, <1>3, PTL DEF Spec

-----------------------------------------------------------------------------
(* Passwords, referrals, waits and failed logins. *)

\* signupService.ts:81: of racing sign-ups one sets the password, and a stale
\* request never replaces it; only a reset does.
THEOREM PasswordsNotOverwritten == Spec => SignUpNeverOverwrites
<1>1. Init => Typed
  BY TypedInit
<1>2. Typed /\ [Next]_vars => Typed'
  BY TypedStep
<1>3. Typed /\ [Next]_vars => [account.password # "none" => account'.password \in {account.password, "reset"}]_account
  <2> SUFFICES ASSUME Typed, [Next]_vars, account' # account PROVE account.password # "none" => account'.password \in {account.password, "reset"}
    OBVIOUS
  <2>1. PICK h \in Handlers : IssueTicket(h) \/ SetPassword(h) \/ CreateGoogleAccount(h)
    BY DEF Next, vars, codes, HandlerStep, Request, BeginStart, BeginVerify, BeginFinish, BeginGoogle, BeginLogin,
       WaitEnds, CodeExpires, LockoutEnds, LookForReferral, RecordReferral, LookForPassword, ClaimWait, StoreCode, SendCode,
       CountAttempt, JudgeGuess, LookForAccount, ReadTicket, DiscardTicket, Unlock, LookForGoogleAccount,
       FindReferral, ClaimReferral, CheckLockout, ComparePassword, CountFailure, ClearFailures
  <2>2. account \in [row : {"absent", "unfinished", "finished"}, password : {"none", "customer", "merchant", "reset"}, sites : SUBSET {"customer", "merchant"}]
    BY DEF Typed, TypeOK, Account
  <2>3. CASE IssueTicket(h) \/ CreateGoogleAccount(h)
    BY <2>2, <2>3 DEF IssueTicket, CreateGoogleAccount
  <2>4. CASE SetPassword(h)
    BY <2>2, <2>4 DEF SetPassword, WithPassword
  <2> QED BY <2>1, <2>3, <2>4
<1> QED BY <1>1, <1>2, <1>3, PTL DEF Spec, SignUpNeverOverwrites

Completed == {r \in Referrals : referral[r] = "completed"}

\* referralService.ts:71: every referral that is completed is paid, and once.
THEOREM ReferralsPaidOnce == Spec => []EarningsFollowReferrals
<1>1. Init => Typed /\ EarningsFollowReferrals
  <2> SUFFICES ASSUME Init PROVE EarningsFollowReferrals
    BY TypedInit
  <2>1. Completed = {}
    BY DEF Init, Completed
  <2> QED BY <2>1, FS_EmptySet DEF Init, EarningsFollowReferrals, Completed
<1>2. Typed /\ EarningsFollowReferrals /\ [Next]_vars => Typed' /\ EarningsFollowReferrals'
  <2> SUFFICES ASSUME Typed, EarningsFollowReferrals, [Next]_vars PROVE EarningsFollowReferrals'
    BY TypedStep
  <2>0. referral \in [Referrals -> {"none", "pending", "completed"}] /\ earned \in Nat /\ Requests
    BY DEF Typed, TypeOK
  <2>1. CASE UNCHANGED <<referral, earned>>
    BY <2>1 DEF EarningsFollowReferrals
  <2>2. ASSUME NEW h \in Handlers, RecordReferral(h) PROVE EarningsFollowReferrals'
    <3>1. Completed' = Completed /\ UNCHANGED earned
      BY <2>0, <2>2 DEF RecordReferral, Completed
    <3> QED BY <3>1 DEF EarningsFollowReferrals, Completed
  <2>3. ASSUME NEW h \in Handlers, ClaimReferral(h), referral[job[h].row] = "pending" PROVE EarningsFollowReferrals'
    <3>1. job[h].row \in Referrals
      BY <2>0, <2>3, RequestAt DEF ClaimReferral, Requests, ClaimsAReferral
    <3>2. /\ referral' = [referral EXCEPT ![job[h].row] = "completed"] /\ earned' = earned + 1
          /\ job[h].row \notin Completed
      BY <2>3 DEF ClaimReferral, Completed
    <3>3. Completed' = Completed \union {job[h].row}
      BY <2>0, <3>1, <3>2 DEF Completed
    <3>4. IsFiniteSet(Completed)
      BY SignUpAssumptions, FS_Subset DEF Completed
    <3>5. Cardinality(Completed') = Cardinality(Completed) + 1
      BY <3>2, <3>3, <3>4, FS_AddElement
    <3> QED BY <3>2, <3>5 DEF EarningsFollowReferrals, Completed
  <2>4. \/ UNCHANGED <<referral, earned>>
        \/ \E h \in Handlers : RecordReferral(h)
        \/ \E h \in Handlers : ClaimReferral(h) /\ referral[job[h].row] = "pending"
    BY DEF Next, vars, codes, HandlerStep, Request, BeginStart, BeginVerify, BeginFinish, BeginGoogle, BeginLogin,
       WaitEnds, CodeExpires, LockoutEnds, LookForReferral, LookForPassword, ClaimWait, StoreCode, SendCode,
       CountAttempt, JudgeGuess, LookForAccount, IssueTicket, ReadTicket, SetPassword, DiscardTicket, Unlock,
       LookForGoogleAccount, CreateGoogleAccount, FindReferral, ClaimReferral, CheckLockout, ComparePassword,
       CountFailure, ClearFailures
  <2> QED BY <2>1, <2>2, <2>3, <2>4
<1> QED BY <1>1, <1>2, PTL DEF Spec

\* A code for p is on its way: the wait runs, and it is its only one.
SendsFor(h, p) == Sends(h) /\ job[h].for = p

WaitOf(p) ==
  /\ window[p] <= 1
  /\ \A h \in Handlers : SendsFor(h, p) => p \in wait /\ window[p] = 0 /\ \A g \in Handlers : SendsFor(g, p) => g = h

WaitInv == \A p \in Purposes : WaitOf(p)

LEMMA WaitAside ==
  ASSUME WaitInv, UNCHANGED <<wait, window>>, NEW h \in Handlers, Others(h), ~Sends(h)'
  PROVE  WaitInv'
<1>1. \A g \in Handlers : \A p : SendsFor(g, p)' => SendsFor(g, p)
  BY DEF Others, SendsFor, Sends, At
<1> QED BY <1>1 DEF WaitInv, WaitOf

LEMMA WaitStep ==
  ASSUME Typed, WaitInv, [Next]_vars
  PROVE  WaitInv'
<1> USE DEF Typed
<1>0. window \in [Purposes -> Nat]
  BY DEF TypeOK
<1>1. CASE UNCHANGED vars
  BY <1>1 DEF vars, codes, WaitInv, WaitOf, SendsFor, Sends, At
<1>2. ASSUME NEW h \in Handlers, HandlerStep(h) PROVE WaitInv'
  <2>1. CASE ClaimWait(h)
    <3>1. /\ job[h].for \in Purposes /\ Others(h)
          /\ job[h].for \in wait => ~Sends(h)'
          /\ Sends(h)' => job'[h].for = job[h].for
      BY <2>1, ClaimWaitJob
    <3>2. CASE job[h].for \in wait
      BY <2>1, <3>1, <3>2, WaitAside DEF ClaimWait
    <3>3. CASE job[h].for \notin wait
      <4>1. wait' = wait \union {job[h].for} /\ window' = [window EXCEPT ![job[h].for] = 0]
        BY <2>1, <3>3 DEF ClaimWait
      <4>2. \A g \in Handlers : ~SendsFor(g, job[h].for)
        BY <3>1, <3>3 DEF WaitInv, WaitOf
      <4>3. \A g \in Handlers : \A p \in Purposes : SendsFor(g, p)' => SendsFor(g, p) \/ (g = h /\ p = job[h].for)
        BY <3>1 DEF Others, SendsFor, Sends, At
      <4> QED BY <1>0, <3>1, <4>1, <4>2, <4>3 DEF WaitInv, WaitOf
    <3> QED BY <3>2, <3>3
  <2>2. CASE StoreCode(h)
    <3>1. Others(h) /\ UNCHANGED <<wait, window>> /\ \A p : SendsFor(h, p)' => SendsFor(h, p)
      BY <2>2, StoreCodeJob DEF StoreCode, SendsFor
    <3>2. \A g \in Handlers : \A p : SendsFor(g, p)' => SendsFor(g, p)
      BY <3>1 DEF Others, SendsFor, Sends, At
    <3> QED BY <3>1, <3>2 DEF WaitInv, WaitOf
  <2>3. CASE SendCode(h)
    <3>1. job[h].for \in Purposes /\ SendsFor(h, job[h].for) /\ Others(h) /\ ~Sends(h)'
      BY <2>3, SendCodeJob DEF Aside, SendsFor
    <3>2. \/ window' = [window EXCEPT ![job[h].for] = window[job[h].for] + 1] /\ UNCHANGED wait
          \/ wait' = wait \ {job[h].for} /\ UNCHANGED window
      BY <2>3 DEF SendCode
    <3>3. window[job[h].for] = 0 /\ \A g \in Handlers : SendsFor(g, job[h].for) => g = h
      BY <3>1 DEF WaitInv, WaitOf
    <3>4. \A g \in Handlers : \A p : SendsFor(g, p)' => SendsFor(g, p) /\ g # h
      BY <3>1 DEF Others, SendsFor, Sends, At
    <3> QED BY <1>0, <3>1, <3>2, <3>3, <3>4 DEF WaitInv, WaitOf
  <2>4. CASE CountAttempt(h) \/ JudgeGuess(h)
    BY <2>4, CountAttemptJob, JudgeGuessJob, WaitAside DEF Aside, TypeOK, CountAttempt, JudgeGuess
  <2>5. CASE FindReferral(h) \/ CheckLockout(h) \/ ComparePassword(h)
    <3>1. UNCHANGED <<wait, window>>
      BY <2>5 DEF FindReferral, CheckLockout, ComparePassword, codes
    <3> QED BY <2>5, <3>1, FindReferralAside, LoginJobs, WaitAside DEF Aside
  <2>6. CASE \/ LookForReferral(h) \/ RecordReferral(h) \/ LookForPassword(h)
             \/ LookForAccount(h) \/ IssueTicket(h) \/ ReadTicket(h) \/ SetPassword(h) \/ DiscardTicket(h) \/ Unlock(h)
             \/ LookForGoogleAccount(h) \/ CreateGoogleAccount(h) \/ ClaimReferral(h)
             \/ CountFailure(h) \/ ClearFailures(h)
    <3>1. UNCHANGED <<wait, window>>
      BY <2>6 DEF codes, LookForReferral, RecordReferral, LookForPassword, LookForAccount, IssueTicket, ReadTicket, SetPassword,
         DiscardTicket, Unlock, LookForGoogleAccount, CreateGoogleAccount, ClaimReferral, CountFailure, ClearFailures
    <3>2. Aside(h)
      BY <2>6, AsideSteps DEF TypeOK
    <3> QED BY <3>1, <3>2, WaitAside DEF Aside
  <2> QED BY <1>2, <2>1, <2>2, <2>3, <2>4, <2>5, <2>6 DEF HandlerStep
<1>3. ASSUME NEW h \in Handlers, Request(h) PROVE WaitInv'
  <2>1. UNCHANGED <<wait, window>>
    BY <1>3 DEF Request, BeginStart, BeginVerify, BeginFinish, BeginGoogle, BeginLogin, codes
  <2> QED BY <1>3, <2>1, RequestJobs, WaitAside DEF TypeOK
<1>4. CASE LockoutEnds \/ \E p \in Purposes : CodeExpires(p)
  <2>1. UNCHANGED <<wait, window, job>>
    BY <1>4 DEF LockoutEnds, CodeExpires, codes
  <2> QED BY <2>1 DEF WaitInv, WaitOf, SendsFor, Sends, At
<1>5. ASSUME NEW q \in Purposes, WaitEnds(q) PROVE WaitInv'
  <2>1. /\ \A g \in Handlers : ~SendsFor(g, q)
        /\ wait' = wait \ {q} /\ window' = [window EXCEPT ![q] = 0] /\ UNCHANGED job
    BY <1>5 DEF WaitEnds, SendsFor, Sends
  <2>2. \A g \in Handlers : \A p : SendsFor(g, p)' <=> SendsFor(g, p)
    BY <2>1 DEF SendsFor, Sends, At
  <2> QED BY <1>0, <2>1, <2>2 DEF WaitInv, WaitOf
<1> QED BY <1>1, <1>2, <1>3, <1>4, <1>5 DEF Next

\* "One per minute": however requests for a code race, during one resend wait
\* at most one is sent.
THEOREM OneCodeIsSentPerWait == Spec => []OneCodePerWait
<1>1. Init => Typed /\ WaitInv
  BY TypedInit DEF Init, WaitInv, WaitOf, SendsFor, Sends, At
<1>2. Typed /\ WaitInv /\ [Next]_vars => Typed' /\ WaitInv'
  BY TypedStep, WaitStep
<1>3. WaitInv => OneCodePerWait
  BY DEF WaitInv, WaitOf, OneCodePerWait
<1> QED BY <1>1, <1>2, <1>3, PTL DEF Spec

\* Passwords being compared, or found wrong and not yet counted.
Guessing == {h \in Handlers : Guesses(h)}

GuessInv == failures + Cardinality(Guessing) < MaxFailed + Cardinality(Handlers)

LEMMA GuessAside ==
  ASSUME Typed, GuessInv, NEW h \in Handlers, Others(h), ~Guesses(h)', failures' \in Nat, failures' <= failures
  PROVE  GuessInv'
<1>1. Guessing' \in SUBSET Guessing /\ Guessing \in SUBSET Handlers
  BY DEF Others, Guessing, Guesses, At
<1>2. /\ Cardinality(Guessing') \in Nat /\ Cardinality(Guessing') <= Cardinality(Guessing)
      /\ Cardinality(Guessing) \in Nat /\ Cardinality(Handlers) \in Nat
  BY <1>1, SomeRequests
<1> QED BY <1>2, SignUpAssumptions DEF GuessInv, Typed, TypeOK

LEMMA GuessStep ==
  ASSUME Typed, GuessInv, [Next]_vars
  PROVE  GuessInv'
<1> USE DEF Typed
<1>0. failures \in Nat /\ MaxFailed \in Nat /\ Cardinality(Handlers) \in Nat /\ Guessing \in SUBSET Handlers
  BY SignUpAssumptions, SomeRequests DEF TypeOK, Guessing
<1>1. CASE UNCHANGED <<failures, job>>
  BY <1>1 DEF GuessInv, Guessing, Guesses, At
<1>2. ASSUME NEW h \in Handlers, HandlerStep(h) PROVE GuessInv'
  <2>1. CASE CheckLockout(h)
    <3>1. CASE Done(h)
      BY <1>0, <2>1, <3>1, AsideEnds, GuessAside DEF Aside, CheckLockout
    <3>2. CASE failures < MaxFailed
      <4>1. Others(h) /\ UNCHANGED failures /\ ~Guesses(h)
        BY <2>1, LoginJobs DEF CheckLockout, Guesses, At
      <4>2. Guessing' \in SUBSET Handlers
        BY DEF Guessing
      <4>3. h \in Handlers \ Guessing /\ Guessing' \in SUBSET (Guessing \union {h})
        BY <4>1 DEF Others, Guessing, Guesses, At
      <4>4. Cardinality(Guessing') \in Nat /\ Cardinality(Guessing') <= Cardinality(Handlers)
        BY <4>2, SomeRequests
      <4> QED BY <1>0, <3>2, <4>1, <4>4 DEF GuessInv
    <3> QED BY <2>1, <3>1, <3>2 DEF CheckLockout
  <2>2. CASE ComparePassword(h)
    <3>1. Others(h) /\ Guesses(h) /\ UNCHANGED failures
      BY <2>2, LoginJobs DEF ComparePassword
    <3>2. Guessing' \in SUBSET Guessing
      BY <3>1 DEF Others, Guessing, Guesses, At
    <3>3. Cardinality(Guessing') \in Nat /\ Cardinality(Guessing') <= Cardinality(Guessing) /\ Cardinality(Guessing) \in Nat
      BY <1>0, <3>2, SomeRequests
    <3> QED BY <1>0, <3>1, <3>3 DEF GuessInv
  <2>3. CASE CountFailure(h)
    <3>1. Others(h) /\ ~Guesses(h)' /\ h \in Guessing /\ failures' = failures + 1
      BY <2>3, AsideSteps DEF Aside, TypeOK, CountFailure, Guessing, Guesses
    <3>2. Guessing' = Guessing \ {h}
      BY <3>1 DEF Others, Guessing, Guesses, At
    <3>3. Cardinality(Guessing') = Cardinality(Guessing) - 1 /\ Cardinality(Guessing) \in Nat
      BY <1>0, <3>1, <3>2, SomeRequests
    <3> QED BY <1>0, <3>1, <3>3 DEF GuessInv
  <2>4. CASE ClaimWait(h) \/ StoreCode(h) \/ SendCode(h) \/ CountAttempt(h) \/ JudgeGuess(h) \/ FindReferral(h)
    <3>1. UNCHANGED failures
      BY <2>4 DEF ClaimWait, StoreCode, SendCode, CountAttempt, JudgeGuess, FindReferral
    <3>2. Others(h) /\ ~Guesses(h)'
      BY <2>4, ClaimWaitJob, StoreCodeJob, SendCodeJob, CountAttemptJob, JudgeGuessJob, FindReferralAside DEF Aside, TypeOK
    <3> QED BY <1>0, <3>1, <3>2, GuessAside
  <2>5. CASE \/ LookForReferral(h) \/ RecordReferral(h) \/ LookForPassword(h)
             \/ LookForAccount(h) \/ IssueTicket(h) \/ ReadTicket(h) \/ SetPassword(h) \/ DiscardTicket(h) \/ Unlock(h)
             \/ LookForGoogleAccount(h) \/ CreateGoogleAccount(h) \/ ClaimReferral(h) \/ ClearFailures(h)
    <3>1. failures' \in {0, failures}
      BY <2>5 DEF LookForReferral, RecordReferral, LookForPassword, LookForAccount, IssueTicket, ReadTicket, SetPassword,
         DiscardTicket, Unlock, LookForGoogleAccount, CreateGoogleAccount, ClaimReferral, ClearFailures
    <3>2. Aside(h)
      BY <2>5, AsideSteps DEF TypeOK
    <3> QED BY <1>0, <3>1, <3>2, GuessAside DEF Aside
  <2> QED BY <1>2, <2>1, <2>2, <2>3, <2>4, <2>5 DEF HandlerStep
<1>3. ASSUME NEW h \in Handlers, Request(h) PROVE GuessInv'
  <2>1. UNCHANGED failures
    BY <1>3 DEF Request, BeginStart, BeginVerify, BeginFinish, BeginGoogle, BeginLogin
  <2> QED BY <1>0, <1>3, <2>1, RequestJobs, GuessAside DEF TypeOK
<1>4. CASE LockoutEnds \/ \E p \in Purposes : WaitEnds(p) \/ CodeExpires(p)
  <2>1. failures' \in {0, failures} /\ Guessing' = Guessing
    BY <1>4 DEF LockoutEnds, WaitEnds, CodeExpires, Guessing, Guesses, At
  <2>2. Cardinality(Guessing) \in Nat
    BY <1>0, SomeRequests
  <2> QED BY <1>0, <2>1, <2>2 DEF GuessInv
<1> QED BY <1>1, <1>2, <1>3, <1>4 DEF Next, vars

\* README "lock an account ... after 10 failures": no more are ever counted than
\* MAX_FAILED_LOGINS and those that were being compared when the last was.
THEOREM FailedLoginsBounded == Spec => []GuessesBounded
<1>1. Init => Typed /\ GuessInv
  <2> SUFFICES ASSUME Init PROVE GuessInv
    BY TypedInit
  <2>1. Guessing = {} /\ failures = 0 /\ Cardinality(Handlers) \in Nat
    BY SomeRequests DEF Init, Guessing, Guesses, At
  <2> QED BY <2>1, FS_EmptySet, SignUpAssumptions DEF GuessInv
<1>2. Typed /\ GuessInv /\ [Next]_vars => Typed' /\ GuessInv'
  BY TypedStep, GuessStep
<1>3. Typed /\ GuessInv => GuessesBounded
  <2> SUFFICES ASSUME Typed, GuessInv PROVE GuessesBounded
    OBVIOUS
  <2> DEFINE W == {h \in Handlers : At(h, "login", "wrong")}
  <2>1. Guessing \in SUBSET Handlers /\ W \in SUBSET Guessing
    BY DEF Guessing, Guesses
  <2>2. /\ Cardinality(W) \in Nat /\ Cardinality(W) <= Cardinality(Guessing)
        /\ Cardinality(Guessing) \in Nat /\ Cardinality(Handlers) \in Nat
    BY <2>1, SomeRequests
  <2> QED BY <2>2, SignUpAssumptions DEF GuessInv, GuessesBounded, Typed, TypeOK
<1> QED BY <1>1, <1>2, <1>3, PTL DEF Spec
================================================================================
