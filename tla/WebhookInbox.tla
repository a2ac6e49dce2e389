----------------------------- MODULE WebhookInbox -----------------------------
(***************************************************************************)
(* The inbox of the payment providers' events.  An event is claimed in     *)
(* Redis, handled, and marked done; a failure drops the claim so that the  *)
(* provider's next delivery is handled.  The provider repeats an event it  *)
(* has no 2xx answer for, and may repeat one it has.                       *)
(***************************************************************************)
EXTENDS Naturals, FiniteSets

CONSTANTS
  Deliveries,   \* requests that may be open at once
  Events,
  MaxLapses     \* expired claims and failed marks of an event (a bound of the model)

ASSUME InboxAssumptions == IsFiniteSet(Deliveries) /\ MaxLapses \in Nat

VARIABLES
  key,        \* webhook:<provider>:<event>: "none", "running" or "done"
  delivery,   \* the event each open delivery carries, and how far it is
  acked,      \* events the provider got a 2xx for
  applied,    \* history: how often the handler succeeded
  lapses      \* history: how often the event's claim expired or its mark failed

inboxVars == <<key, delivery, acked, applied, lapses>>

NoDelivery == [pc |-> "closed"]

InboxTypeOK ==
  /\ key \in [Events -> {"none", "running", "done"}]
  /\ \A d \in Deliveries : delivery[d] \in {NoDelivery} \union [pc : {"claim", "handle", "mark", "unclaim"}, event : Events]
  /\ acked \subseteq Events
  /\ applied \in [Events -> Nat]
  /\ lapses \in [Events -> 0..MaxLapses]

InboxInit ==
  /\ key = [e \in Events |-> "none"]
  /\ delivery = [d \in Deliveries |-> NoDelivery]
  /\ acked = {}
  /\ applied = [e \in Events |-> 0]
  /\ lapses = [e \in Events |-> 0]

DeliveryAt(d, step) == delivery[d].pc = step
MoveDelivery(d, step) == delivery' = [delivery EXCEPT ![d].pc = step]
Close(d) == delivery' = [delivery EXCEPT ![d] = NoDelivery]

\* A signed request; one that fails its signature check changes nothing.
Deliver(d, e) ==
  /\ delivery[d] = NoDelivery
  /\ delivery' = [delivery EXCEPT ![d] = [pc |-> "claim", event |-> e]]
  /\ UNCHANGED <<key, acked, applied, lapses>>

\* Mutant: only an event that is done is a duplicate.
ClaimEventTwice(d) ==
  /\ DeliveryAt(d, "claim")
  /\ LET e == delivery[d].event IN
     IF key[e] # "done"
       THEN key' = [key EXCEPT ![e] = "running"] /\ MoveDelivery(d, "handle") /\ UNCHANGED acked
       ELSE acked' = acked \union {e} /\ Close(d) /\ UNCHANGED key
  /\ UNCHANGED <<applied, lapses>>

\* SET NX EX RUNNING_SECONDS; a duplicate is acknowledged.
ClaimEvent(d) ==
  /\ DeliveryAt(d, "claim")
  /\ LET e == delivery[d].event IN
     IF key[e] = "none"
       THEN key' = [key EXCEPT ![e] = "running"] /\ MoveDelivery(d, "handle") /\ UNCHANGED acked
       ELSE acked' = acked \union {e} /\ Close(d) /\ UNCHANGED key
  /\ UNCHANGED <<applied, lapses>>

HandleEvent(d) ==
  /\ DeliveryAt(d, "handle")
  /\ \/ MoveDelivery(d, "mark") /\ applied' = [applied EXCEPT ![delivery[d].event] = @ + 1]
     \/ MoveDelivery(d, "unclaim") /\ UNCHANGED applied
  /\ UNCHANGED <<key, acked, lapses>>

\* The answer may not reach a provider that has stopped waiting.
MarkDone(d) ==
  /\ DeliveryAt(d, "mark")
  /\ LET e == delivery[d].event IN
     /\ key' = [key EXCEPT ![e] = "done"]
     /\ acked' \in {acked, acked \union {e}}
  /\ Close(d)
  /\ UNCHANGED <<applied, lapses>>

Lapse(e) ==
  /\ lapses[e] < MaxLapses
  /\ lapses' = [lapses EXCEPT ![e] = @ + 1]

\* The SET is refused or times out, done or not, and counts as a failure of the handler.
MarkFails(d) ==
  /\ DeliveryAt(d, "mark")
  /\ LET e == delivery[d].event IN
     /\ key' \in {key, [key EXCEPT ![e] = "done"]}
     /\ Lapse(e)
  /\ MoveDelivery(d, "unclaim")
  /\ UNCHANGED <<acked, applied>>

\* The key is deleted, whatever it says by now, unless that fails too; the answer is
\* 500 either way.
Unclaim(d) ==
  /\ DeliveryAt(d, "unclaim")
  /\ key' \in {key, [key EXCEPT ![delivery[d].event] = "none"]}
  /\ Close(d)
  /\ UNCHANGED <<acked, applied, lapses>>

\* RUNNING_SECONDS pass.
ClaimExpires(e) ==
  /\ key[e] = "running"
  /\ key' = [key EXCEPT ![e] = "none"]
  /\ Lapse(e)
  /\ UNCHANGED <<delivery, acked, applied>>

\* The server stops, or a Redis command before the handler fails.
DeliveryLost(d) ==
  /\ delivery[d] # NoDelivery
  /\ Close(d)
  /\ UNCHANGED <<key, acked, applied, lapses>>

InboxNext ==
  \/ \E d \in Deliveries :
       \/ \E e \in Events : Deliver(d, e)
       \/ ClaimEvent(d) \/ HandleEvent(d) \/ MarkDone(d) \/ MarkFails(d) \/ Unclaim(d) \/ DeliveryLost(d)
  \/ \E e \in Events : ClaimExpires(e)

-----------------------------------------------------------------------------
(* Properties. *)

\* An event is handled once, and once more for each claim of it that expired, under a
\* slow handler or after a crash, and for each success that could not be marked;
\* failures, lost deletions and deliveries at the same time add none (runOnce).
HandledOncePerLapse == \A e \in Events : applied[e] <= 1 + lapses[e]

\* webhooksController.ts:12-14 "An event is handled once: a redelivery while it's
\* running, or after it succeeded, is acknowledged and skipped".
HandledOnce == \A e \in Events : applied[e] <= 1

\* webhooksController.ts:15-16: no failed event is dropped as if it had been
\* handled.
DoneWasHandled == \A e \in Events : key[e] = "done" => applied[e] > 0

\* webhooksController.ts:15 "A handler that fails answers 500 so the provider
\* retries it later": an event that was acknowledged was or is being handled.
AckedIsHandled ==
  \A e \in acked : applied[e] > 0 \/ \E d \in Deliveries : delivery[d] # NoDelivery /\ delivery[d].event = e
=============================================================================
