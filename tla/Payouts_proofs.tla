---------------------------- MODULE Payouts_proofs ----------------------------
(***************************************************************************)
(* Proofs about Payouts and about BackOffice: what holds for every number  *)
(* of withdrawals, transfers and requests, and of conversations, sockets,  *)
(* connections, syncs, accounts, records and reviews.                      *)
(***************************************************************************)
EXTENDS Payouts, BackOffice, FiniteSetTheorems, TLAPS

USE PayoutAssumptions

-----------------------------------------------------------------------------
(* Types. *)

LEMMA IdleJobType == IdleJob \in Job /\ SomeWithdrawal \in Withdrawals
<1>1. SomeWithdrawal \in Withdrawals BY DEF SomeWithdrawal
<1> QED BY <1>1 DEF IdleJob, Job, References

LEMMA TypeInit == Init => TypeOK
BY IdleJobType DEF Init, TypeOK, WithdrawalStatus, References, Transfer, TransferState

LEMMA TypeStep == TypeOK /\ [Next]_vars => TypeOK'
<1> USE IdleJobType DEF TypeOK, Done, Continue, At, provider, WithdrawalStatus
<1> SUFFICES ASSUME TypeOK, [Next]_vars PROVE TypeOK'
  OBVIOUS
<1>1. ASSUME NEW w \in Withdrawals, RequestWithdrawal(w) \/ CancelWithdrawal(w) \/ ReviewWithdrawal(w) \/ PayByHand(w) PROVE TypeOK'
  BY <1>1 DEF RequestWithdrawal, CancelWithdrawal, ReviewWithdrawal, PayByHand
<1>2. ASSUME NEW w \in Withdrawals, NEW h \in Handlers, ClaimWithdrawal(h, w) PROVE TypeOK'
  BY <1>2 DEF ClaimWithdrawal, IdleJob, Job, References
<1>3. ASSUME NEW w \in Withdrawals, NEW h \in Handlers, RefreshPayoutStatus(h, w) PROVE TypeOK'
  BY <1>3 DEF RefreshPayoutStatus, IdleJob, Job, References
<1>4. ASSUME NEW h \in Handlers, NEW t \in Transfers, SendTransfer(h, t) PROVE TypeOK'
  <2>1. transfer' \in [Transfers -> Transfer]
    BY <1>4 DEF SendTransfer, Job, Transfer, TransferState, References
  <2>2. job' \in [Handlers -> Job]
    <3>1. \/ job' = [job EXCEPT ![h] = [job[h] EXCEPT !.pc = "record", !.ref = t]]
          \/ job' = [job EXCEPT ![h] = IdleJob]
      BY <1>4 DEF SendTransfer
    <3>2. [job[h] EXCEPT !.pc = "record", !.ref = t] \in Job
      BY DEF Job, References
    <3> QED BY <3>1, <3>2
  <2> QED BY <1>4, <2>1, <2>2 DEF SendTransfer
<1>5. ASSUME NEW h \in Handlers, RecordTransfer(h) PROVE TypeOK'
  BY <1>5 DEF RecordTransfer, Job
<1>6. ASSUME NEW h \in Handlers, CompleteLedger(h) PROVE TypeOK'
  BY <1>6 DEF CompleteLedger, Job
<1>7. ASSUME NEW h \in Handlers, RetrieveTransfer(h) PROVE TypeOK'
  BY <1>7 DEF RetrieveTransfer, Job
<1>8. ASSUME NEW h \in Handlers, ApplyTransferStatus(h) PROVE TypeOK'
  BY <1>8 DEF ApplyTransferStatus, Job
<1>9. ASSUME NEW h \in Handlers, ProviderFails(h) \/ Crash(h) PROVE TypeOK'
  BY <1>9 DEF ProviderFails, Crash, Job
<1>10. ASSUME NEW h \in Handlers, NEW t \in Transfers, DeliverEvent(h, t) PROVE TypeOK'
  BY <1>10 DEF DeliverEvent, Job, References
<1>11. ASSUME NEW t \in Transfers, TransferEnds(t) \/ KeyExpires(t) PROVE TypeOK'
  BY <1>11 DEF TransferEnds, KeyExpires, Transfer, TransferState
<1>12. CASE UNCHANGED vars
  BY <1>12 DEF vars
<1> QED BY <1>1, <1>2, <1>3, <1>4, <1>5, <1>6, <1>7, <1>8, <1>9, <1>10, <1>11, <1>12 DEF Next, HandlerStep

\* Every reachable state is type-correct.
THEOREM TypesHold == Spec => []TypeOK
<1>1. Init => TypeOK BY TypeInit
<1>2. TypeOK /\ [Next]_vars => TypeOK' BY TypeStep
<1> QED BY <1>1, <1>2, PTL DEF Spec

-----------------------------------------------------------------------------
(* The inductive invariant.  What is being sent, or was, is a withdrawal KHS
   approved; a handler that holds a transfer holds one its withdrawal's call
   made; and Stripe's transfers are paid from the start, under the bare key. *)

Sendable == {"Processing", "Submitted", "Completed"}
Exists(t) == transfer[t].state # "none"

SentWasApproved == \A t \in Transfers : Exists(t) => status[transfer[t].of] \in Sendable /\ Kind[transfer[t].of] # "bank"

ServedWasApproved == \A h \in Handlers : ~At(h, "idle") => status[job[h].of] \in Sendable /\ Kind[job[h].of] # "bank"

HoldsOwnTransfer == \A h \in Handlers :
  /\ job[h].pc \in {"record", "ask", "apply"} => job[h].ref \in Transfers /\ Exists(job[h].ref) /\ transfer[job[h].ref].of = job[h].of
  /\ At(h, "apply") => transfer[job[h].ref].state \in {"paid", "failed"}
  /\ At(h, "ledger") => status[job[h].of] = "Completed"

RefIsOwnTransfer == \A w \in Withdrawals : ref[w] # NoTransfer => Exists(ref[w]) /\ transfer[ref[w]].of = w

StripeIsFinal ==
  /\ \A t \in Transfers : Exists(t) /\ Kind[transfer[t].of] = "stripe" => transfer[t].state = "paid" /\ transfer[t].retryOf = NoTransfer
  /\ \A h \in Handlers : At(h, "send") /\ Kind[job[h].of] = "stripe" => job[h].ref = NoTransfer

PInv == SentWasApproved /\ ServedWasApproved /\ HoldsOwnTransfer /\ RefIsOwnTransfer /\ StripeIsFinal /\ CompletedIsPaid /\ LedgerFollows

LEMMA InvInit == Init => PInv
BY IdleJobType DEF Init, PInv, SentWasApproved, ServedWasApproved, HoldsOwnTransfer, RefIsOwnTransfer, StripeIsFinal,
   CompletedIsPaid, LedgerFollows, Exists, At, IdleJob

\* No step takes an approval or a transfer back.
Forward ==
  /\ \A w \in Withdrawals : status[w] \in Sendable => status'[w] \in Sendable
  /\ \A w \in Withdrawals : status[w] = "Completed" => status'[w] = "Completed"
  /\ byHand \subseteq byHand'
  /\ \A w \in byHand' : w \in byHand \/ status'[w] = "Completed"
  /\ \A t \in Transfers : Exists(t) =>
       /\ transfer'[t].of = transfer[t].of
       /\ transfer'[t].retryOf = transfer[t].retryOf
       /\ \/ transfer'[t].state = transfer[t].state
          \/ transfer[t].state = "open" /\ transfer'[t].state \in {"paid", "failed"}

LEMMA ForwardStep == TypeOK /\ [Next]_vars => Forward
<1> USE DEF TypeOK, Forward, Exists, Sendable, Continue, Done, At, provider
<1> SUFFICES ASSUME TypeOK, [Next]_vars PROVE Forward
  OBVIOUS
<1>1. ASSUME UNCHANGED <<status, byHand, transfer>> PROVE Forward
  BY <1>1
<1>2. ASSUME NEW w \in Withdrawals, RequestWithdrawal(w) \/ CancelWithdrawal(w) \/ ReviewWithdrawal(w) \/ PayByHand(w) PROVE Forward
  BY <1>2 DEF RequestWithdrawal, CancelWithdrawal, ReviewWithdrawal, PayByHand
<1>3. ASSUME NEW h \in Handlers, NEW t \in Transfers, SendTransfer(h, t) PROVE Forward
  BY <1>3 DEF SendTransfer, Made, Transfer
<1>4. ASSUME NEW h \in Handlers, RecordTransfer(h) \/ ApplyTransferStatus(h) PROVE Forward
  BY <1>4 DEF RecordTransfer, ApplyTransferStatus, Job
<1>5. ASSUME NEW t \in Transfers, TransferEnds(t) \/ KeyExpires(t) PROVE Forward
  BY <1>5 DEF TransferEnds, KeyExpires, Transfer
<1> QED
  BY <1>1, <1>2, <1>3, <1>4, <1>5 DEF Next, HandlerStep, vars, ClaimWithdrawal, RefreshPayoutStatus, DeliverEvent,
     CompleteLedger, RetrieveTransfer, ProviderFails, Crash

\* A step that makes no transfer, records none, and ends no job but into idle
\* keeps the invariant about transfers and jobs.
Keeps(h) == job'[h] = job[h] \/ job'[h].pc = "idle"

LEMMA KeepsJobs ==
  ASSUME TypeOK, PInv, Forward, TypeOK', NEW h \in Handlers, Keeps(h)
  PROVE  /\ job'[h].pc # "idle" => status'[job'[h].of] \in Sendable /\ Kind[job'[h].of] # "bank"
         /\ job'[h].pc \in {"record", "ask", "apply"} =>
              job'[h].ref \in Transfers /\ transfer'[job'[h].ref].state # "none" /\ transfer'[job'[h].ref].of = job'[h].of
         /\ job'[h].pc = "apply" => transfer'[job'[h].ref].state \in {"paid", "failed"}
         /\ job'[h].pc = "ledger" => status'[job'[h].of] = "Completed"
         /\ job'[h].pc = "send" /\ Kind[job'[h].of] = "stripe" => job'[h].ref = NoTransfer
BY DEF TypeOK, PInv, Forward, Keeps, ServedWasApproved, HoldsOwnTransfer, StripeIsFinal, Exists, At, Job

\* Without a new transfer, and without a withdrawal newly completed or recorded,
\* everything but the jobs is as it was.
LEMMA KeepsRest ==
  ASSUME TypeOK, PInv, Forward, TypeOK',
         \A t \in Transfers : ~Exists(t) => transfer'[t] = transfer[t],
         ref' = ref,
         \A w \in Withdrawals : status'[w] = "Completed" => status[w] = "Completed",
         ledger' = ledger
  PROVE  SentWasApproved' /\ RefIsOwnTransfer' /\ CompletedIsPaid' /\ LedgerFollows'
         /\ \A t \in Transfers : Exists(t)' /\ Kind[transfer'[t].of] = "stripe" => transfer'[t].state = "paid" /\ transfer'[t].retryOf = NoTransfer
<1> USE DEF TypeOK, PInv, Forward, Exists
<1>1. SentWasApproved' BY DEF SentWasApproved, Transfer
<1>2. RefIsOwnTransfer' BY DEF RefIsOwnTransfer, References
<1>3. CompletedIsPaid'
  <2> SUFFICES ASSUME NEW w \in Withdrawals, status'[w] = "Completed", w \notin byHand'
               PROVE  \E t \in Paying(w)' : transfer'[t].state = "paid"
    BY DEF CompletedIsPaid
  <2>1. PICK t \in Transfers : transfer[t].of = w /\ transfer[t].state = "paid"
    BY DEF CompletedIsPaid, Paying
  <2>2. transfer'[t].of = w /\ transfer'[t].state = "paid"
    BY <2>1
  <2> QED BY <2>2 DEF Paying
<1>4. LedgerFollows' BY DEF LedgerFollows
<1>5. \A t \in Transfers : Exists(t)' /\ Kind[transfer'[t].of] = "stripe" => transfer'[t].state = "paid" /\ transfer'[t].retryOf = NoTransfer
  BY DEF StripeIsFinal
<1> QED BY <1>1, <1>2, <1>3, <1>4, <1>5

\* What is left to show of a step by handler h: its own job, when it moved on.
JobHolds(h) ==
  /\ ~At(h, "idle") => status[job[h].of] \in Sendable /\ Kind[job[h].of] # "bank"
  /\ job[h].pc \in {"record", "ask", "apply"} => job[h].ref \in Transfers /\ Exists(job[h].ref) /\ transfer[job[h].ref].of = job[h].of
  /\ At(h, "apply") => transfer[job[h].ref].state \in {"paid", "failed"}
  /\ At(h, "ledger") => status[job[h].of] = "Completed"
  /\ At(h, "send") /\ Kind[job[h].of] = "stripe" => job[h].ref = NoTransfer

RestHolds ==
  /\ SentWasApproved /\ RefIsOwnTransfer /\ CompletedIsPaid /\ LedgerFollows
  /\ \A t \in Transfers : Exists(t) /\ Kind[transfer[t].of] = "stripe" => transfer[t].state = "paid" /\ transfer[t].retryOf = NoTransfer

LEMMA Parts == ASSUME RestHolds', \A h \in Handlers : JobHolds(h)' PROVE PInv'
BY DEF PInv, RestHolds, JobHolds, ServedWasApproved, HoldsOwnTransfer, StripeIsFinal

LEMMA KeptJob == ASSUME TypeOK, PInv, Forward, TypeOK', NEW h \in Handlers, Keeps(h) PROVE JobHolds(h)'
BY KeepsJobs DEF JobHolds, Exists, At

LEMMA KeptRest ==
  ASSUME TypeOK, PInv, Forward, TypeOK',
         \A t \in Transfers : ~Exists(t) => transfer'[t] = transfer[t],
         ref' = ref,
         \A w \in Withdrawals : status'[w] = "Completed" => status[w] = "Completed",
         ledger' = ledger
  PROVE  RestHolds'
BY KeepsRest DEF RestHolds

LEMMA OneJob ==
  ASSUME TypeOK, NEW h \in Handlers, NEW j, Continue(h, j)
  PROVE  job'[h] = j /\ \A g \in Handlers \ {h} : Keeps(g)
BY DEF TypeOK, Continue, Keeps

\* Each action that changes more than a job ends, one step each.
LEMMA InvStep == TypeOK /\ PInv /\ [Next]_vars => PInv'
<1> SUFFICES ASSUME TypeOK, PInv, [Next]_vars PROVE PInv'
  OBVIOUS
<1>0. Forward /\ TypeOK' BY ForwardStep, TypeStep
<1>1. ASSUME NEW w \in Withdrawals, RequestWithdrawal(w) \/ CancelWithdrawal(w) \/ ReviewWithdrawal(w) PROVE PInv'
  <2>1. RestHolds'
    BY <1>0, <1>1, KeptRest DEF RequestWithdrawal, CancelWithdrawal, ReviewWithdrawal, provider, TypeOK
  <2>2. \A h \in Handlers : Keeps(h)
    BY <1>1 DEF RequestWithdrawal, CancelWithdrawal, ReviewWithdrawal, Keeps
  <2> QED BY <1>0, <2>1, <2>2, KeptJob, Parts
<1>2. ASSUME NEW w \in Withdrawals, PayByHand(w) PROVE PInv'
  <2>1. SentWasApproved' /\ RefIsOwnTransfer' /\ LedgerFollows'
        /\ \A t \in Transfers : Exists(t)' /\ Kind[transfer'[t].of] = "stripe" => transfer'[t].state = "paid" /\ transfer'[t].retryOf = NoTransfer
    BY <1>0, <1>2 DEF PayByHand, provider, TypeOK, PInv, Forward, SentWasApproved, RefIsOwnTransfer, LedgerFollows, StripeIsFinal, Exists, Transfer
  <2>2. CompletedIsPaid'
    BY <1>2 DEF PayByHand, provider, TypeOK, PInv, CompletedIsPaid, LedgerFollows, Paying
  <2>3. \A h \in Handlers : Keeps(h)
    BY <1>2 DEF PayByHand, Keeps
  <2> QED BY <1>0, <2>1, <2>2, <2>3, KeptJob, Parts DEF RestHolds
<1>3. ASSUME NEW h \in Handlers, NEW w \in Withdrawals, ClaimWithdrawal(h, w) PROVE PInv'
  <2>1. RestHolds' BY <1>0, <1>3, KeptRest DEF ClaimWithdrawal, provider
  <2>2. \A g \in Handlers \ {h} : Keeps(g) BY <1>3, OneJob DEF ClaimWithdrawal
  <2>3. JobHolds(h)'
    BY <1>0, <1>3, IdleJobType DEF ClaimWithdrawal, Continue, JobHolds, At, TypeOK, IdleJob, Sendable, Exists, Job
  <2> QED BY <1>0, <2>1, <2>2, <2>3, KeptJob, Parts
<1>4. ASSUME NEW h \in Handlers, NEW w \in Withdrawals, RefreshPayoutStatus(h, w) PROVE PInv'
  <2>1. RestHolds' BY <1>0, <1>4, KeptRest DEF RefreshPayoutStatus, provider
  <2>2. \A g \in Handlers \ {h} : Keeps(g) BY <1>4, OneJob DEF RefreshPayoutStatus
  <2>3. JobHolds(h)'
    BY <1>0, <1>4, IdleJobType DEF RefreshPayoutStatus, Recorded, Continue, JobHolds, At, TypeOK, IdleJob, Sendable, Exists, Job, References, PInv, RefIsOwnTransfer, provider
  <2> QED BY <1>0, <2>1, <2>2, <2>3, KeptJob, Parts
<1>5. ASSUME NEW h \in Handlers, NEW t \in Transfers, DeliverEvent(h, t) PROVE PInv'
  <2>1. RestHolds' BY <1>0, <1>5, KeptRest DEF DeliverEvent, provider
  <2>2. CASE UNCHANGED job
    <3>1. \A g \in Handlers : Keeps(g) BY <2>2 DEF Keeps
    <3> QED BY <1>0, <2>1, <3>1, KeptJob, Parts
  <2>3. ASSUME NEW w \in Withdrawals, Recorded(w, t), Continue(h, [pc |-> "ask", of |-> w, ref |-> t, event |-> {t}]) PROVE PInv'
    <3>1. \A g \in Handlers \ {h} : Keeps(g) BY <2>3, OneJob
    <3>2. JobHolds(h)'
      BY <1>0, <1>5, <2>3 DEF DeliverEvent, Recorded, Continue, JobHolds, At, TypeOK, Sendable, Exists, PInv, RefIsOwnTransfer, provider
    <3> QED BY <1>0, <2>1, <3>1, <3>2, KeptJob, Parts
  <2> QED BY <1>5, <2>2, <2>3 DEF DeliverEvent
<1>6. ASSUME NEW h \in Handlers, NEW t \in Transfers, SendTransfer(h, t) PROVE PInv'
  <2>1. status' = status /\ ref' = ref /\ ledger' = ledger /\ At(h, "send")
    BY <1>6 DEF SendTransfer
  <2>2. \A g \in Handlers \ {h} : Keeps(g)
    BY <1>6, OneJob DEF SendTransfer, Done
  <2>3. /\ Exists(t)' /\ transfer'[t].of = job[h].of
        /\ \A s \in Transfers \ {t} : transfer'[s] = transfer[s]
        /\ \/ transfer' = transfer
           \/ /\ ~Exists(t)
              /\ transfer'[t] = [state |-> IF Kind[job[h].of] = "stripe" THEN "paid" ELSE "open", of |-> job[h].of, retryOf |-> job[h].ref]
    BY <1>6 DEF SendTransfer, Made, Exists, TypeOK
  <2>4. status[job[h].of] \in Sendable /\ Kind[job[h].of] # "bank" /\ (Kind[job[h].of] = "stripe" => job[h].ref = NoTransfer)
    BY <2>1 DEF PInv, ServedWasApproved, StripeIsFinal, At
  <2>5. SentWasApproved'
    BY <1>0, <2>1, <2>3, <2>4 DEF SentWasApproved, PInv, Exists
  <2>6. RefIsOwnTransfer'
    BY <1>0, <2>1, <2>3 DEF RefIsOwnTransfer, PInv, Forward, Exists, TypeOK, References
  <2>7. CompletedIsPaid'
    <3> SUFFICES ASSUME NEW w \in Withdrawals, status[w] = "Completed", w \notin byHand PROVE \E s \in Paying(w)' : transfer'[s].state = "paid"
      BY <1>0, <2>1 DEF CompletedIsPaid, Forward, PInv
    <3>1. PICK s \in Transfers : transfer[s].of = w /\ transfer[s].state = "paid"
      BY DEF PInv, CompletedIsPaid, Paying
    <3>2. transfer'[s].of = w /\ transfer'[s].state = "paid"
      BY <3>1, <1>0 DEF Forward, Exists
    <3> QED BY <3>2 DEF Paying
  <2>8. LedgerFollows' BY <2>1 DEF LedgerFollows, PInv
  <2>9. \A s \in Transfers : Exists(s)' /\ Kind[transfer'[s].of] = "stripe" => transfer'[s].state = "paid" /\ transfer'[s].retryOf = NoTransfer
    BY <2>3, <2>4 DEF PInv, StripeIsFinal, Exists
  <2>10. JobHolds(h)'
    <3>1. job'[h] = [job[h] EXCEPT !.pc = "record", !.ref = t] \/ job'[h] = IdleJob
      BY <1>6, OneJob DEF SendTransfer, Done
    <3>2. CASE job'[h] = IdleJob BY <3>2 DEF IdleJob, JobHolds, At
    <3>3. CASE job'[h] = [job[h] EXCEPT !.pc = "record", !.ref = t]
      <4>1. job'[h].pc = "record" /\ job'[h].ref = t /\ job'[h].of = job[h].of BY <3>3 DEF TypeOK, Job
      <4> QED BY <4>1, <2>1, <2>3, <2>4 DEF JobHolds, At, Exists
    <3> QED BY <3>1, <3>2, <3>3
  <2> QED BY <1>0, <2>2, <2>5, <2>6, <2>7, <2>8, <2>9, <2>10, KeptJob, Parts DEF RestHolds
<1>7. ASSUME NEW h \in Handlers, RecordTransfer(h) PROVE PInv'
  <2> DEFINE w == job[h].of
  <2>1. At(h, "record") /\ transfer' = transfer /\ ledger' = ledger /\ w \in Withdrawals
    BY <1>7 DEF RecordTransfer, provider, TypeOK, Job
  <2>2. job[h].ref \in Transfers /\ Exists(job[h].ref) /\ transfer[job[h].ref].of = w /\ Kind[w] # "bank"
    BY <2>1 DEF PInv, HoldsOwnTransfer, ServedWasApproved, At
  <2>3. \A g \in Handlers \ {h} : Keeps(g)
    BY <1>7, OneJob DEF RecordTransfer, Done
  <2>4. CASE status' = status /\ ref' = ref /\ Done(h)
    <3>1. RestHolds' BY <1>0, <2>1, <2>4, KeptRest
    <3>2. Keeps(h) BY <2>4, OneJob DEF Done, Keeps, IdleJob
    <3> QED BY <1>0, <2>3, <3>1, <3>2, KeptJob, Parts
  <2>5. CASE /\ status' = [status EXCEPT ![w] = IF Kind[w] = "stripe" THEN "Completed" ELSE "Submitted"]
             /\ ref' = [ref EXCEPT ![w] = job[h].ref]
             /\ IF Kind[w] = "stripe" THEN Continue(h, [job[h] EXCEPT !.pc = "ledger"]) ELSE Done(h)
    <3>1. SentWasApproved' /\ LedgerFollows'
      BY <1>0, <2>1 DEF SentWasApproved, LedgerFollows, PInv, Forward, Exists, TypeOK, Transfer
    <3>2. RefIsOwnTransfer'
      BY <2>1, <2>2, <2>5 DEF RefIsOwnTransfer, PInv, Exists, TypeOK
    <3>3. CompletedIsPaid'
      <4> SUFFICES ASSUME NEW v \in Withdrawals, status'[v] = "Completed", v \notin byHand' PROVE \E s \in Paying(v)' : transfer'[s].state = "paid"
        BY <1>0 DEF CompletedIsPaid, Forward, PInv
      <4>1. CASE v = w /\ Kind[w] = "stripe"
        BY <4>1, <2>1, <2>2 DEF PInv, StripeIsFinal, Paying
      <4>2. CASE ~(v = w /\ Kind[w] = "stripe")
        <5>1. status[v] = "Completed" BY <4>2, <2>5 DEF TypeOK
        <5> QED BY <1>0, <5>1, <2>1 DEF PInv, CompletedIsPaid, Paying, Forward
      <4> QED BY <4>1, <4>2
    <3>4. \A t \in Transfers : Exists(t)' /\ Kind[transfer'[t].of] = "stripe" => transfer'[t].state = "paid" /\ transfer'[t].retryOf = NoTransfer
      BY <2>1 DEF PInv, StripeIsFinal, Exists
    <3>5. JobHolds(h)'
      <4>1. CASE Kind[w] = "stripe"
        <5>1. job'[h].pc = "ledger" /\ job'[h].of = w BY <4>1, <2>5, OneJob DEF TypeOK, Job
        <5>2. status'[w] = "Completed" BY <4>1, <2>1, <2>5 DEF TypeOK
        <5> QED BY <5>1, <5>2, <2>2 DEF JobHolds, At, Sendable
      <4>2. CASE Kind[w] # "stripe"
        BY <4>2, <2>5, OneJob DEF JobHolds, At, Done, IdleJob
      <4> QED BY <4>1, <4>2
    <3> QED BY <1>0, <2>3, <3>1, <3>2, <3>3, <3>4, <3>5, KeptJob, Parts DEF RestHolds
  <2> QED BY <1>7, <2>4, <2>5 DEF RecordTransfer
<1>8. ASSUME NEW h \in Handlers, CompleteLedger(h) PROVE PInv'
  <2>1. \A g \in Handlers : Keeps(g) BY <1>8, OneJob DEF CompleteLedger, Done, Keeps, IdleJob
  <2>2. SentWasApproved' /\ RefIsOwnTransfer'
        /\ \A t \in Transfers : Exists(t)' /\ Kind[transfer'[t].of] = "stripe" => transfer'[t].state = "paid" /\ transfer'[t].retryOf = NoTransfer
    BY <1>8 DEF CompleteLedger, provider, PInv, SentWasApproved, RefIsOwnTransfer, StripeIsFinal, Exists
  <2>3. CompletedIsPaid' BY <1>8 DEF CompleteLedger, provider, PInv, CompletedIsPaid, Paying
  <2>4. LedgerFollows' BY <1>8 DEF CompleteLedger, PInv, LedgerFollows, HoldsOwnTransfer, At
  <2> QED BY <1>0, <2>1, <2>2, <2>3, <2>4, KeptJob, Parts DEF RestHolds
<1>9. ASSUME NEW h \in Handlers, RetrieveTransfer(h) PROVE PInv'
  <2>1. RestHolds' BY <1>0, <1>9, KeptRest DEF RetrieveTransfer, provider
  <2>2. \A g \in Handlers \ {h} : Keeps(g) BY <1>9, OneJob DEF RetrieveTransfer, Done
  <2>3. JobHolds(h)'
    <3>1. CASE job'[h] = IdleJob BY <3>1 DEF JobHolds, At, IdleJob
    <3>2. CASE job'[h] = [job[h] EXCEPT !.pc = "apply"] /\ transfer[job[h].ref].state # "open"
      <4>1. job'[h].pc = "apply" /\ job'[h].of = job[h].of /\ job'[h].ref = job[h].ref BY <3>2 DEF TypeOK, Job
      <4>2. At(h, "ask") /\ status' = status /\ transfer' = transfer BY <1>9 DEF RetrieveTransfer, provider
      <4>3. status[job[h].of] \in Sendable /\ Kind[job[h].of] # "bank"
            /\ job[h].ref \in Transfers /\ Exists(job[h].ref) /\ transfer[job[h].ref].of = job[h].of
        BY <4>2 DEF PInv, ServedWasApproved, HoldsOwnTransfer, At
      <4> QED BY <3>2, <4>1, <4>2, <4>3 DEF JobHolds, At, Exists, TypeOK, Transfer, TransferState
    <3> QED BY <1>9, <3>1, <3>2, OneJob DEF RetrieveTransfer, Done
  <2> QED BY <1>0, <2>1, <2>2, <2>3, KeptJob, Parts
<1>10. ASSUME NEW h \in Handlers, ApplyTransferStatus(h) PROVE PInv'
  <2> DEFINE w == job[h].of
  <2>1. At(h, "apply") /\ transfer' = transfer /\ ledger' = ledger /\ ref' = ref /\ w \in Withdrawals
    BY <1>10 DEF ApplyTransferStatus, provider, TypeOK, Job
  <2>2. job[h].ref \in Transfers /\ transfer[job[h].ref].of = w /\ Kind[w] # "bank"
    BY <2>1 DEF PInv, HoldsOwnTransfer, ServedWasApproved, At
  <2>3. \A g \in Handlers \ {h} : Keeps(g)
    BY <1>10, OneJob DEF ApplyTransferStatus, Done
  <2>4. CASE (status' = status \/ status' = [status EXCEPT ![w] = "Processing"]) /\ Done(h)
    <3>1. RestHolds' BY <1>0, <2>1, <2>4, KeptRest DEF TypeOK
    <3>2. Keeps(h) BY <2>4, OneJob DEF Done, Keeps, IdleJob
    <3> QED BY <1>0, <2>3, <3>1, <3>2, KeptJob, Parts
  <2>5. CASE /\ transfer[job[h].ref].state = "paid"
             /\ status' = [status EXCEPT ![w] = "Completed"]
             /\ Continue(h, [job[h] EXCEPT !.pc = "ledger"])
    <3>1. SentWasApproved' /\ LedgerFollows' /\ RefIsOwnTransfer'
      BY <1>0, <2>1 DEF SentWasApproved, LedgerFollows, RefIsOwnTransfer, PInv, Forward, Exists, TypeOK, Transfer
    <3>2. CompletedIsPaid'
      <4> SUFFICES ASSUME NEW v \in Withdrawals, status'[v] = "Completed", v \notin byHand' PROVE \E s \in Paying(v)' : transfer'[s].state = "paid"
        BY <1>0 DEF CompletedIsPaid, Forward, PInv
      <4>1. CASE v = w BY <4>1, <2>1, <2>2, <2>5 DEF Paying
      <4>2. CASE v # w
        <5>1. status[v] = "Completed" BY <4>2, <2>5 DEF TypeOK
        <5> QED BY <1>0, <5>1, <2>1 DEF PInv, CompletedIsPaid, Paying, Forward
      <4> QED BY <4>1, <4>2
    <3>3. \A t \in Transfers : Exists(t)' /\ Kind[transfer'[t].of] = "stripe" => transfer'[t].state = "paid" /\ transfer'[t].retryOf = NoTransfer
      BY <2>1 DEF PInv, StripeIsFinal, Exists
    <3>4. JobHolds(h)'
      <4>1. job'[h].pc = "ledger" /\ job'[h].of = w BY <2>5, OneJob DEF TypeOK, Job
      <4>2. status'[w] = "Completed" BY <2>1, <2>5 DEF TypeOK
      <4> QED BY <4>1, <4>2, <2>2 DEF JobHolds, At, Sendable
    <3> QED BY <1>0, <2>3, <3>1, <3>2, <3>3, <3>4, KeptJob, Parts DEF RestHolds
  <2> QED BY <1>10, <2>4, <2>5 DEF ApplyTransferStatus
<1>11. ASSUME NEW h \in Handlers, ProviderFails(h) \/ Crash(h) PROVE PInv'
  <2>1. RestHolds' BY <1>0, <1>11, KeptRest DEF ProviderFails, Crash, provider
  <2>2. \A g \in Handlers : Keeps(g) BY <1>11, OneJob DEF ProviderFails, Crash, Done, Keeps, IdleJob
  <2> QED BY <1>0, <2>1, <2>2, KeptJob, Parts
<1>12. ASSUME NEW t \in Transfers, TransferEnds(t) \/ KeyExpires(t) PROVE PInv'
  <2>1. RestHolds' BY <1>0, <1>12, KeptRest DEF TransferEnds, KeyExpires, Exists, TypeOK
  <2>2. \A g \in Handlers : Keeps(g) BY <1>12 DEF TransferEnds, KeyExpires, Keeps
  <2> QED BY <1>0, <2>1, <2>2, KeptJob, Parts
<1>13. CASE UNCHANGED vars
  <2>1. RestHolds' BY <1>0, <1>13, KeptRest DEF vars
  <2>2. \A g \in Handlers : Keeps(g) BY <1>13 DEF vars, Keeps
  <2> QED BY <1>0, <2>1, <2>2, KeptJob, Parts
<1> QED BY <1>1, <1>2, <1>3, <1>4, <1>5, <1>6, <1>7, <1>8, <1>9, <1>10, <1>11, <1>12, <1>13 DEF Next, HandlerStep

LEMMA TakenBack == ASSUME TypeOK, PInv PROVE TakenBackNotSent
<1>1. ASSUME NEW w \in Withdrawals, status[w] \in {"Pending", "Cancelled", "Rejected"}
      PROVE  Paying(w) = {} /\ \A h \in Handlers : job[h].pc \in {"send", "record"} => job[h].of # w
  BY <1>1 DEF PInv, SentWasApproved, ServedWasApproved, Paying, Exists, At, Sendable
<1> QED BY <1>1 DEF TakenBackNotSent

\* A withdrawal shown as Completed was paid, the ledger completes only those,
\* and one that was taken back or rejected is neither sent nor being sent.
THEOREM PayoutsHold == Spec => [](CompletedIsPaid /\ LedgerFollows /\ TakenBackNotSent)
<1>1. Init => TypeOK /\ PInv BY TypeInit, InvInit
<1>2. TypeOK /\ PInv /\ [Next]_vars => TypeOK' /\ PInv' BY TypeStep, InvStep
<1>3. TypeOK /\ PInv => CompletedIsPaid /\ LedgerFollows /\ TakenBackNotSent BY TakenBack DEF PInv
<1> QED BY <1>1, <1>2, <1>3, PTL DEF Spec

-----------------------------------------------------------------------------
(* Among the transfers Stripe remembers, a withdrawal has one. *)

Remembered(t) == Exists(t) /\ t \notin forgotten

OneStripeTransfer ==
  \A s, t \in Transfers :
    Remembered(s) /\ Remembered(t) /\ transfer[s].of = transfer[t].of /\ Kind[transfer[s].of] = "stripe" => s = t

LEMMA OneStripeStep ==
  ASSUME TypeOK, PInv, OneStripeTransfer, [Next]_vars
  PROVE  OneStripeTransfer'
<1> USE DEF OneStripeTransfer, Remembered, Exists
<1>1. ASSUME UNCHANGED provider PROVE OneStripeTransfer'
  BY <1>1 DEF provider
<1>2. ASSUME NEW t \in Transfers, TransferEnds(t) PROVE OneStripeTransfer'
  BY <1>2 DEF TransferEnds, TypeOK, Transfer
<1>3. ASSUME NEW h \in Handlers, NEW t \in Transfers, SendTransfer(h, t) PROVE OneStripeTransfer'
  <2> DEFINE w == job[h].of
  <2>1. CASE UNCHANGED transfer BY <2>1, <1>3 DEF SendTransfer
  <2>2. CASE Made(w, job[h].ref) = {} /\ \A s \in Transfers \ {t} : transfer'[s] = transfer[s]
    <3>1. transfer'[t].of = w /\ At(h, "send") /\ forgotten' = forgotten
      BY <1>3, <2>2 DEF SendTransfer, TypeOK, Made
    <3>2. ASSUME Kind[w] = "stripe", NEW s \in Transfers, Remembered(s), transfer[s].of = w PROVE FALSE
      <4>1. transfer[s].retryOf = NoTransfer /\ job[h].ref = NoTransfer
        BY <3>1, <3>2 DEF PInv, StripeIsFinal
      <4> QED BY <4>1, <3>2, <2>2 DEF Made
    <3> QED BY <2>2, <3>1, <3>2
  <2> QED BY <1>3, <2>1, <2>2 DEF SendTransfer, TypeOK
<1>4. ASSUME NEW t \in Transfers, KeyExpires(t) PROVE OneStripeTransfer'
  BY <1>4 DEF KeyExpires
<1> QED
  BY <1>1, <1>2, <1>3, <1>4 DEF Next, HandlerStep, vars, provider, RequestWithdrawal, CancelWithdrawal, ReviewWithdrawal, PayByHand,
     ClaimWithdrawal, RefreshPayoutStatus, DeliverEvent, RecordTransfer, CompleteLedger, RetrieveTransfer, ApplyTransferStatus,
     ProviderFails, Crash

\* However many clicks, lost answers and crashes there are, a withdrawal to a
\* Stripe account is sent once, as far as Stripe remembers: the key is the
\* withdrawal's id.
THEOREM StripeSentOnce == Spec => []StripePaidOnce
<1>1. Init => TypeOK /\ PInv /\ OneStripeTransfer
  BY TypeInit, InvInit DEF Init, OneStripeTransfer, Remembered, Exists
<1>2. TypeOK /\ PInv /\ OneStripeTransfer /\ [Next]_vars => TypeOK' /\ PInv' /\ OneStripeTransfer'
  BY TypeStep, InvStep, OneStripeStep
<1>3. OneStripeTransfer => StripePaidOnce
  BY DEF OneStripeTransfer, Remembered, StripePaidOnce, Paying, Exists
<1> QED BY <1>1, <1>2, <1>3, PTL DEF Spec

HIDE PayoutAssumptions

-----------------------------------------------------------------------------
(* Support chat. *)

LEMMA ChatTakesItsSteps == [OfficeNext]_officeVars => [ChatNext]_chatVars
BY DEF OfficeNext, ChatStep, LiveStep, AppStep, SyncStep, AccountStep, DeskStep, FeedbackStep, officeVars

ChatRequest == [pc : {"idle", "create", "save", "close"}, ticket : Tickets \union {NoTicket}, send : BOOLEAN, staff : BOOLEAN]

ChatTyped == ticket \in [Tickets -> {"none", "open", "closed"}] /\ asking \in [Tabs -> ChatRequest]

Creating == {c \in Tabs : asking[c].pc = "create"}

\* What the requests that passed the check may still add is counted.
ChatInv ==
  /\ ChatTyped
  /\ Cardinality(Status("open")) + Cardinality(Creating) <= MaxOpen - 1 + Cardinality(Tabs)

\* Both sets are finite, and each has one more, one less or fewer members.
LEMMA ChatSetsFinite ==
  /\ IsFiniteSet(Status("open")) /\ IsFiniteSet(Creating)
  /\ Cardinality(Status("open")) \in Nat /\ Cardinality(Creating) \in Nat /\ Cardinality(Tabs) \in Nat
  /\ Cardinality(Creating) <= Cardinality(Tabs)
<1>1. IsFiniteSet(Tickets)
  BY FS_Interval, ChatAssumptions DEF Tickets
<1>2. IsFiniteSet(Status("open"))
  BY <1>1, FS_Subset DEF Status
<1>3. IsFiniteSet(Creating) /\ Cardinality(Creating) <= Cardinality(Tabs)
  BY FS_Subset, ChatAssumptions DEF Creating
<1> QED BY <1>2, <1>3, FS_CardinalityType, ChatAssumptions

LEMMA AskTyped ==
  ASSUME ChatTyped, NEW c \in Tabs
  PROVE  /\ Answered(c) => asking' \in [Tabs -> ChatRequest]
         /\ \A step \in {"create", "save", "close"}, t \in Tickets \union {NoTicket}, send \in BOOLEAN, staff \in BOOLEAN :
              Ask(c, step, t, send, staff) => asking' \in [Tabs -> ChatRequest]
<1>1. Idle \in ChatRequest
  BY DEF Idle, ChatRequest, NoTicket
<1> QED BY <1>1 DEF ChatTyped, Answered, Ask, ChatRequest

LEMMA ChatTypedStep == ChatTyped /\ [ChatNext]_chatVars => ChatTyped'
<1> SUFFICES ASSUME ChatTyped, [ChatNext]_chatVars PROVE ChatTyped'
  OBVIOUS
<1>1. ASSUME NEW c \in Tabs, LoadTickets(c) PROVE ChatTyped'
  BY <1>1 DEF LoadTickets, ChatTyped
<1>2. ASSUME NEW c \in Tabs, StartConversation(c) PROVE ChatTyped'
  BY <1>2, AskTyped DEF StartConversation, ChatTyped
<1>3. ASSUME NEW c \in Tabs, SendMessage(c) PROVE ChatTyped'
  BY <1>3, AskTyped DEF SendMessage, ChatTyped
<1>4. ASSUME NEW c \in Tabs, ReadToClose(c) PROVE ChatTyped'
  BY <1>4, AskTyped DEF ReadToClose, ChatTyped, Status
<1>5. ASSUME NEW c \in Tabs, CreateTicket(c) PROVE ChatTyped'
  <2>1. PICK t \in Tickets : /\ ticket' = [ticket EXCEPT ![t] = "open"]
                             /\ Ask(c, "save", t, TRUE, TRUE) \/ Answered(c)
    BY <1>5 DEF CreateTicket
  <2> QED BY <2>1, AskTyped DEF ChatTyped
<1>6. ASSUME NEW c \in Tabs, SaveMessage(c) \/ ImageRefused(c) PROVE ChatTyped'
  BY <1>6, AskTyped DEF SaveMessage, ImageRefused, ChatTyped
<1>7. ASSUME NEW c \in Tabs, CloseOwnTicket(c) PROVE ChatTyped'
  BY <1>7, AskTyped DEF CloseOwnTicket, ChatTyped
<1>8. CASE StaffCloses
  BY <1>8 DEF StaffCloses, Status, ChatTyped
<1>9. CASE UNCHANGED chatVars
  BY <1>9 DEF chatVars, ChatTyped
<1> QED BY <1>1, <1>2, <1>3, <1>4, <1>5, <1>6, <1>7, <1>8, <1>9 DEF ChatNext

LEMMA ChatStepInv == ChatInv /\ [ChatNext]_chatVars => ChatInv'
<1> SUFFICES ASSUME ChatInv, [ChatNext]_chatVars PROVE ChatInv'
  OBVIOUS
<1> USE ChatAssumptions, ChatSetsFinite DEF ChatInv
<1>0. ChatTyped'
  BY ChatTypedStep
<1>f. /\ Cardinality(Status("open"))' \in Nat /\ Cardinality(Creating)' \in Nat
      /\ Cardinality(Creating)' <= Cardinality(Tabs)
  <2>1. IsFiniteSet(Tickets)
    BY FS_Interval DEF Tickets
  <2>2. IsFiniteSet(Status("open")')
    BY <2>1, FS_Subset DEF Status
  <2>3. IsFiniteSet(Creating') /\ Cardinality(Creating') <= Cardinality(Tabs)
    BY FS_Subset DEF Creating
  <2> QED BY <2>2, <2>3, FS_CardinalityType
<1>1. ASSUME NEW c \in Tabs, StartConversation(c) \/ SendMessage(c), Creating' # Creating PROVE ChatInv'
  <2>1. WithinLimit /\ UNCHANGED Status("open")
    <3>1. ticket' = ticket
      BY <1>1 DEF StartConversation, SendMessage
    <3>2. WithinLimit
      BY <1>1 DEF StartConversation, SendMessage, Creating, Ask, AtChat, ChatTyped, ChatRequest
    <3> QED BY <3>1, <3>2 DEF Status
  <2> QED BY <1>0, <1>f, <2>1 DEF WithinLimit
<1>2. ASSUME NEW c \in Tabs, CreateTicket(c) PROVE ChatInv'
  <2>1. PICK t \in Tickets : ticket[t] = "none" /\ ticket' = [ticket EXCEPT ![t] = "open"]
    BY <1>2 DEF CreateTicket
  <2>2. Status("open")' = Status("open") \union {t} /\ t \notin Status("open")
    BY <2>1 DEF Status, ChatTyped, ChatRequest
  <2>3. c \in Creating /\ Creating' = Creating \ {c}
    BY <1>2 DEF CreateTicket, Creating, AtChat, Ask, Answered, Idle, ChatTyped, ChatRequest
  <2>4. Cardinality(Status("open")') = Cardinality(Status("open")) + 1
    BY <2>2, FS_AddElement
  <2>5. Cardinality(Creating') = Cardinality(Creating) - 1
    BY <2>3, FS_RemoveElement
  <2> QED BY <1>0, <2>4, <2>5
<1>3. ASSUME Status("open")' \subseteq Status("open"), Creating' = Creating PROVE ChatInv'
  <2>1. Cardinality(Status("open")') <= Cardinality(Status("open"))
    BY <1>3, FS_Subset
  <2> QED BY <1>0, <1>3, <1>f, <2>1
<1>4. ASSUME NEW c \in Tabs, LoadTickets(c) \/ SaveMessage(c) \/ ImageRefused(c) \/ ReadToClose(c) \/ CloseOwnTicket(c) \/ StaffCloses
      PROVE Status("open")' \subseteq Status("open") /\ Creating' = Creating
  BY <1>4 DEF LoadTickets, SaveMessage, ImageRefused, ReadToClose, CloseOwnTicket, StaffCloses, Status, Creating, AtChat, Ask, Answered, Idle, ChatTyped, ChatRequest
<1>5. ASSUME NEW c \in Tabs, StartConversation(c) \/ SendMessage(c) PROVE UNCHANGED Status("open")
  BY <1>5 DEF StartConversation, SendMessage, Status
<1>6. ASSUME StaffCloses PROVE Status("open")' \subseteq Status("open") /\ Creating' = Creating
  BY <1>6 DEF StaffCloses, Status, Creating, ChatTyped, ChatRequest
<1>7. CASE UNCHANGED chatVars
  BY <1>7, <1>3 DEF chatVars, Status, Creating
<1> QED BY <1>1, <1>2, <1>3, <1>4, <1>5, <1>6, <1>7 DEF ChatNext

\* However requests from a customer's tabs overlap (ticketsService.ts counts,
\* then creates), the tabs together exceed the limit by less than their number.
THEOREM OpenTicketsBounded == OfficeSpec => []OpenBounded
<1>1. OfficeInit => ChatInv
  <2> SUFFICES ASSUME OfficeInit PROVE ChatInv
    OBVIOUS
  <2>1. Status("open") = {} /\ Creating = {}
    BY DEF OfficeInit, ChatInit, Status, Creating, Idle
  <2>2. ChatTyped
    BY DEF OfficeInit, ChatInit, ChatTyped, ChatRequest, Idle, NoTicket
  <2> QED BY <2>1, <2>2, FS_EmptySet, ChatSetsFinite, ChatAssumptions DEF ChatInv
<1>2. ChatInv /\ [OfficeNext]_officeVars => ChatInv'
  BY ChatTakesItsSteps, ChatStepInv
<1>3. ChatInv => OpenBounded
  BY ChatSetsFinite, ChatAssumptions DEF ChatInv, OpenBounded
<1> QED BY <1>1, <1>2, <1>3, PTL DEF OfficeSpec

-----------------------------------------------------------------------------
(* Votes and refund requests. *)

LEMMA FeedbackTakesItsSteps == [OfficeNext]_officeVars => [FeedbackNext]_feedbackVars
BY DEF OfficeNext, ChatStep, LiveStep, AppStep, SyncStep, AccountStep, DeskStep, FeedbackStep, officeVars

CountedVotes(r) == {c \in votes[r] : voting[c] # r}

\* A vote in the Redis set whose count is still to be raised is not counted yet;
\* the set and the count are then raised, or taken back, together.
VotesInv ==
  /\ voting \in [Voters -> Reviews \union {NoVote}]
  /\ votes \in [Reviews -> SUBSET Voters]
  /\ likes \in [Reviews -> Nat] /\ lostAnswers \in Nat
  /\ \A c \in Voters : voting[c] # NoVote => c \in votes[voting[c]]
  /\ \A r \in Reviews : IsFiniteSet(votes[r]) /\ likes[r] <= Cardinality(CountedVotes(r)) + lostAnswers

LEMMA CountedVotesFinite ==
  ASSUME VotesInv, NEW r \in Reviews
  PROVE  /\ IsFiniteSet(CountedVotes(r)) /\ Cardinality(CountedVotes(r)) \in Nat /\ Cardinality(votes[r]) \in Nat
         /\ Cardinality(CountedVotes(r)) <= Cardinality(votes[r])
<1>1. IsFiniteSet(votes[r]) /\ CountedVotes(r) \subseteq votes[r]
  BY DEF VotesInv, CountedVotes
<1> QED BY <1>1, FS_Subset, FS_CardinalityType

LEMMA VotesStep == VotesInv /\ [FeedbackNext]_feedbackVars => VotesInv'
<1> SUFFICES ASSUME VotesInv, [FeedbackNext]_feedbackVars PROVE VotesInv'
  OBVIOUS
<1> USE FeedbackAssumptions DEF NoVote
<1>1. ASSUME NEW c \in Voters, MarkReviewHelpful(c) PROVE VotesInv'
  <2>1. PICK r \in Reviews : c \notin votes[r] /\ votes' = [votes EXCEPT ![r] = votes[r] \union {c}] /\ voting' = [voting EXCEPT ![c] = r]
    BY <1>1 DEF MarkReviewHelpful, Stored, Reviews
  <2>2. UNCHANGED <<likes, lostAnswers>> /\ voting[c] = NoOrder
    BY <1>1 DEF MarkReviewHelpful
  <2>3. /\ voting' \in [Voters -> Reviews \union {NoVote}] /\ votes' \in [Reviews -> SUBSET Voters]
        /\ \A d \in Voters : voting'[d] # NoVote => d \in votes'[voting'[d]]
    BY <2>1 DEF VotesInv
  <2>4. ASSUME NEW s \in Reviews PROVE IsFiniteSet(votes'[s]) /\ CountedVotes(s)' = CountedVotes(s)
    <3>1. IsFiniteSet(votes[s] \union {c})
      BY FS_AddElement DEF VotesInv
    <3>2. IsFiniteSet(votes'[s])
      BY <2>1, <3>1 DEF VotesInv
    <3>3. \A d \in Voters : (d \in votes'[s] /\ voting'[d] # s) <=> (d \in votes[s] /\ voting[d] # s)
      <4>1. CASE s = r
        BY <2>1, <4>1 DEF VotesInv
      <4>2. CASE s # r
        BY <2>1, <2>2, <4>2 DEF VotesInv
      <4> QED BY <4>1, <4>2
    <3>4. votes[s] \subseteq Voters /\ votes'[s] \subseteq Voters
      BY <2>3 DEF VotesInv
    <3>5. CountedVotes(s)' = CountedVotes(s)
      BY <3>3, <3>4 DEF CountedVotes
    <3> QED BY <3>2, <3>5
  <2> QED BY <2>2, <2>3, <2>4 DEF VotesInv
<1>2. ASSUME NEW c \in Voters, CountVote(c) PROVE VotesInv'
  <2>1. PICK r \in Reviews :
        /\ r = voting[c] /\ likes' = [likes EXCEPT ![r] = likes[r] + 1]
        /\ voting' = [voting EXCEPT ![c] = NoVote] /\ UNCHANGED <<votes, lostAnswers>>
    BY <1>2 DEF CountVote, VotesInv
  <2>2. CountedVotes(r)' = CountedVotes(r) \union {c} /\ c \notin CountedVotes(r)
    <3>1. c \in votes[r] /\ votes[r] \subseteq Voters /\ NoVote # r
      BY <2>1 DEF VotesInv
    <3>2. voting'[c] = NoVote /\ \A d \in Voters \ {c} : voting'[d] = voting[d]
      BY <2>1 DEF VotesInv
    <3>3. CountedVotes(r)' = {d \in votes[r] : voting'[d] # r}
      BY <2>1 DEF CountedVotes
    <3>4. CountedVotes(r) = {d \in votes[r] : voting[d] # r} /\ voting[c] = r
      BY <2>1 DEF CountedVotes
    <3>5. \A d \in votes[r] : voting'[d] # r <=> d = c \/ voting[d] # r
      BY <3>1, <3>2, <3>4
    <3> QED BY ONLY <3>1, <3>3, <3>4, <3>5
  <2>3. Cardinality(CountedVotes(r)') = Cardinality(CountedVotes(r)) + 1
    BY <2>1, <2>2, CountedVotesFinite, FS_AddElement
  <2>4. \A s \in Reviews \ {r} : CountedVotes(s)' = CountedVotes(s)
    BY <2>1 DEF CountedVotes, VotesInv
  <2>5. likes' \in [Reviews -> Nat] /\ voting' \in [Voters -> Reviews \union {NoVote}]
    BY <2>1 DEF VotesInv
  <2>6. \A s \in Reviews : likes'[s] <= Cardinality(CountedVotes(s))' + lostAnswers'
    BY <2>1, <2>3, <2>4, CountedVotesFinite DEF VotesInv
  <2> QED BY <2>1, <2>5, <2>6 DEF VotesInv
<1>3. ASSUME NEW c \in Voters, TakeVoteBack(c) PROVE VotesInv'
  <2>1. PICK r \in Reviews :
        /\ r = voting[c] /\ votes' = [votes EXCEPT ![r] = votes[r] \ {c}] /\ voting' = [voting EXCEPT ![c] = NoVote]
        /\ \/ UNCHANGED <<likes, lostAnswers>>
           \/ lostAnswers' = lostAnswers + 1 /\ likes' = [likes EXCEPT ![r] = likes[r] + 1]
    BY <1>3 DEF TakeVoteBack, VotesInv
  <2>2. \A s \in Reviews : CountedVotes(s)' = CountedVotes(s)
    BY <2>1 DEF CountedVotes, VotesInv
  <2>3. \A s \in Reviews : IsFiniteSet(votes'[s])
    BY <2>1, FS_RemoveElement DEF VotesInv
  <2>4. /\ votes' \in [Reviews -> SUBSET Voters] /\ voting' \in [Voters -> Reviews \union {NoVote}]
        /\ likes' \in [Reviews -> Nat] /\ lostAnswers' \in Nat
        /\ \A d \in Voters : voting'[d] # NoVote => d \in votes'[voting'[d]]
    BY <2>1 DEF VotesInv
  <2>5. \A s \in Reviews : likes'[s] <= Cardinality(CountedVotes(s)) + lostAnswers'
    BY <2>1, CountedVotesFinite DEF VotesInv
  <2> QED BY <2>2, <2>3, <2>4, <2>5 DEF VotesInv
<1>4. ASSUME NEW c \in Voters, VoteInterrupted(c) PROVE VotesInv'
  <2>1. voting' = [voting EXCEPT ![c] = NoVote] /\ UNCHANGED <<votes, likes, lostAnswers>>
    BY <1>4 DEF VoteInterrupted
  <2>2. ASSUME NEW s \in Reviews PROVE Cardinality(CountedVotes(s)) <= Cardinality(CountedVotes(s))' /\ Cardinality(CountedVotes(s))' \in Nat
    <3>1. CountedVotes(s) \subseteq CountedVotes(s)' /\ CountedVotes(s)' \subseteq votes[s] /\ IsFiniteSet(votes[s])
      BY <2>1 DEF CountedVotes, VotesInv
    <3> QED BY <3>1, FS_Subset, FS_CardinalityType
  <2>3. voting' \in [Voters -> Reviews \union {NoVote}] /\ \A d \in Voters : voting'[d] # NoVote => d \in votes'[voting'[d]]
    BY <2>1 DEF VotesInv
  <2>4. \A s \in Reviews : likes'[s] <= Cardinality(CountedVotes(s))' + lostAnswers'
    BY <2>1, <2>2, CountedVotesFinite DEF VotesInv
  <2> QED BY <2>1, <2>3, <2>4 DEF VotesInv
<1>5. ASSUME UNCHANGED <<votes, likes, voting, lostAnswers>> PROVE VotesInv'
  BY <1>5 DEF VotesInv, CountedVotes
<1>6. ASSUME NEW f \in Forms, ReplyToReview \/ RateBooking(f) \/ StoreReview(f) \/ Average(f) \/ SaveRating(f) \/ ReviewInterrupted(f)
      PROVE UNCHANGED <<votes, likes, voting, lostAnswers>>
  BY <1>6 DEF ReplyToReview, RateBooking, StoreReview, Average, SaveRating, ReviewInterrupted
<1>7. ASSUME ReplyToReview PROVE UNCHANGED <<votes, likes, voting, lostAnswers>>
  BY <1>7 DEF ReplyToReview
<1>8. ASSUME NEW q \in Asks, ConfirmAvailability(q) \/ AnnounceAvailability(q) \/ RequestRefund(q) \/ CreateRequest(q)
                             \/ CancelEarly(q) \/ RefundPayment(q) \/ RecordRefund(q) \/ AskInterrupted(q)
      PROVE UNCHANGED <<votes, likes, voting, lostAnswers>>
  BY <1>8 DEF ConfirmAvailability, AnnounceAvailability, RequestRefund, CreateRequest, CancelEarly, RefundPayment, RecordRefund, AskInterrupted, reviewVars
<1>9. ASSUME UNCHANGED feedbackVars PROVE UNCHANGED <<votes, likes, voting, lostAnswers>>
  BY <1>9 DEF feedbackVars, reviewVars
<1> QED BY <1>1, <1>2, <1>3, <1>4, <1>5, <1>6, <1>7, <1>8, <1>9 DEF FeedbackNext

Refunding(q) == ask[q] \in {"refund", "record"}

\* The cancellation's claim is taken once, so one request at most refunds; what
\* it has given back at Stripe is written into the row once.
RefundInv ==
  /\ ask \in [Asks -> {"idle", "attend", "ask", "refund", "record"}]
  /\ owed \in 0..Paid /\ atStripe \in {0, owed} /\ teamTold \in {0, 1}
  /\ ~claimed => atStripe = 0
  /\ refund.status = "none" => teamTold = 0
  /\ refund \in {NoRefund, [status |-> "pending", amount |-> 0], [status |-> "processed", amount |-> owed]}
  /\ refund.status = "processed" => claimed /\ atStripe = owed /\ owed > 0
  /\ \A q \in Asks : Refunding(q) => claimed /\ refund.status # "processed"
  /\ \A q \in Asks : ask[q] = "refund" => atStripe = 0
  /\ \A q \in Asks : ask[q] = "record" => atStripe = owed /\ owed > 0
  /\ \A p, q \in Asks : Refunding(p) /\ Refunding(q) => p = q

LEMMA RefundStep == RefundInv /\ [FeedbackNext]_feedbackVars => RefundInv'
<1> SUFFICES ASSUME RefundInv, [FeedbackNext]_feedbackVars PROVE RefundInv'
  OBVIOUS
<1> USE FeedbackAssumptions DEF RefundInv, Refunding, NoRefund
<1>1. ASSUME NEW q \in Asks, ConfirmAvailability(q) \/ AnnounceAvailability(q) \/ RequestRefund(q) \/ AskInterrupted(q) PROVE RefundInv'
  BY <1>1 DEF ConfirmAvailability, AnnounceAvailability, RequestRefund, AskInterrupted, moneyVars
<1>2. ASSUME NEW q \in Asks, CreateRequest(q) PROVE RefundInv'
  BY <1>2 DEF CreateRequest, moneyVars
<1>3. ASSUME NEW q \in Asks, CancelEarly(q) PROVE RefundInv'
  BY <1>3 DEF CancelEarly
<1>4. ASSUME NEW q \in Asks, RefundPayment(q) PROVE RefundInv'
  BY <1>4 DEF RefundPayment
<1>5. ASSUME NEW q \in Asks, RecordRefund(q) PROVE RefundInv'
  <2>1. refund.amount = 0
    BY <1>5 DEF RecordRefund
  <2>2. refund' = [status |-> "processed", amount |-> owed]
    BY <1>5, <2>1 DEF RecordRefund
  <2> QED BY <1>5, <2>2 DEF RecordRefund
<1>6. ASSUME UNCHANGED <<ask, moneyVars>> PROVE RefundInv'
  BY <1>6 DEF moneyVars
<1>7. ASSUME NEW f \in Forms, RateBooking(f) \/ StoreReview(f) \/ Average(f) \/ SaveRating(f) \/ ReviewInterrupted(f)
      PROVE UNCHANGED <<ask, moneyVars>>
  BY <1>7 DEF RateBooking, StoreReview, Average, SaveRating, ReviewInterrupted
<1>8. ASSUME NEW c \in Voters, MarkReviewHelpful(c) \/ CountVote(c) \/ TakeVoteBack(c) \/ VoteInterrupted(c)
      PROVE UNCHANGED <<ask, moneyVars>>
  BY <1>8 DEF MarkReviewHelpful, CountVote, TakeVoteBack, VoteInterrupted
<1>9. ASSUME ReplyToReview \/ UNCHANGED feedbackVars PROVE UNCHANGED <<ask, moneyVars>>
  BY <1>9 DEF ReplyToReview, feedbackVars
<1> QED BY <1>1, <1>2, <1>3, <1>4, <1>5, <1>6, <1>7, <1>8, <1>9 DEF FeedbackNext

\* A review's votes are of different customers, but for lost answers; and however
\* requests and a cancellation overlap, a payment's refunds row says what Stripe
\* gave back (salonReviewsService.ts, refundRequestService.ts, cancellationMoney.ts).
THEOREM VotesAndRefundsCounted == OfficeSpec => []FeedbackCounted
<1>1. OfficeInit => VotesInv /\ RefundInv
  <2> SUFFICES ASSUME OfficeInit PROVE VotesInv /\ RefundInv
    OBVIOUS
  <2> USE FeedbackAssumptions
  <2>1. FeedbackInit
    BY DEF OfficeInit
  <2>2. \A r \in Reviews : votes[r] = {} /\ CountedVotes(r) = {}
    BY <2>1 DEF FeedbackInit, CountedVotes
  <2>3. VotesInv
    <3>1. /\ votes = [r \in Reviews |-> {}] /\ likes = [r \in Reviews |-> 0] /\ lostAnswers = 0
          /\ voting = [c \in Voters |-> NoVote]
      BY <2>1 DEF FeedbackInit
    <3>2. IsFiniteSet({}) /\ Cardinality({}) = 0
      BY FS_EmptySet
    <3> HIDE FeedbackAssumptions
    <3>3. \A r \in Reviews : IsFiniteSet(votes[r]) /\ likes[r] <= Cardinality(CountedVotes(r)) + lostAnswers
      BY <2>2, <3>1, <3>2
    <3> QED BY <3>1, <3>3 DEF VotesInv
  <2>4. RefundInv
    <3>1. /\ owed = 0 /\ atStripe = 0 /\ teamTold = 0 /\ claimed = FALSE /\ refund = NoRefund
          /\ ask = [q \in Asks |-> "idle"]
      BY <2>1 DEF FeedbackInit
    <3>2. owed \in 0..Paid
      BY <3>1
    <3>3. ask \in [Asks -> {"idle", "attend", "ask", "refund", "record"}] /\ \A q \in Asks : ask[q] = "idle"
      BY <3>1
    <3> QED BY <3>1, <3>2, <3>3 DEF RefundInv, Refunding, NoRefund
  <2> QED BY <2>3, <2>4
<1>2. VotesInv /\ RefundInv /\ [OfficeNext]_officeVars => VotesInv' /\ RefundInv'
  BY FeedbackTakesItsSteps, VotesStep, RefundStep
<1>3. VotesInv /\ RefundInv => FeedbackCounted
  <2> SUFFICES ASSUME VotesInv, RefundInv PROVE FeedbackCounted
    OBVIOUS
  <2>1. \A r \in Reviews : likes[r] <= Cardinality(votes[r]) + lostAnswers
    BY CountedVotesFinite DEF VotesInv
  <2>2. /\ atStripe <= Paid
        /\ refund.amount > 0 => refund = [status |-> "processed", amount |-> atStripe]
        /\ refund.amount = 0 => ~(refund.status = "processed")
    BY FeedbackAssumptions DEF RefundInv, NoRefund
  <2> QED BY <2>1, <2>2 DEF FeedbackCounted, RefundInv
<1> QED BY <1>1, <1>2, <1>3, PTL DEF OfficeSpec

-----------------------------------------------------------------------------
(* Live updates. *)

LEMMA LiveTakesItsSteps == [OfficeNext]_officeVars => [LiveNext]_liveVars
BY DEF OfficeNext, ChatStep, LiveStep, AppStep, SyncStep, AccountStep, DeskStep, FeedbackStep, officeVars

\* Nothing is held against a socket before its session ends; afterwards the time
\* since then and the time to the next check stay together within the bound.
SocketInv(k) ==
  /\ k \notin ended \/ socket[k] = "allowed" => since[k] = 0 /\ missed[k] = 0
  /\ k \in ended /\ socket[k] = "open" => since[k] + timer[k] <= Interval * (1 + missed[k])

LiveInv ==
  /\ socket \in [Sockets -> {"closed", "allowed", "open"}] /\ ended \subseteq Sockets
  /\ since \in [Sockets -> Nat] /\ timer \in [Sockets -> 0..Interval] /\ missed \in [Sockets -> Nat]
  /\ \A k \in Sockets : SocketInv(k)

LEMMA LiveStepInv == LiveInv /\ [LiveNext]_liveVars => LiveInv'
<1> SUFFICES ASSUME LiveInv, [LiveNext]_liveVars PROVE LiveInv'
  OBVIOUS
<1> USE LiveAssumptions DEF LiveInv, SocketInv
<1>0. \A n \in Nat : Interval * (1 + (n + 1)) = Interval * (1 + n) + Interval
  OBVIOUS
<1>1. ASSUME NEW k \in Sockets, Authenticate(k) PROVE LiveInv'
  BY <1>1 DEF Authenticate, StillAllowed
<1>2. ASSUME NEW k \in Sockets, Connect(k) PROVE LiveInv'
  <2>1. socket[k] = "allowed" /\ socket' = [socket EXCEPT ![k] = "open"] /\ timer' = [timer EXCEPT ![k] = Interval]
        /\ UNCHANGED <<ended, since, missed>>
    BY <1>2 DEF Connect
  <2>2. Interval * (1 + 0) = Interval
    OBVIOUS
  <2>3. since[k] = 0 /\ missed[k] = 0
    BY <2>1
  <2>4. SocketInv(k)'
    BY <2>1, <2>2, <2>3
  <2>5. \A j \in Sockets \ {k} : SocketInv(j)'
    BY <2>1
  <2> QED BY <2>1, <2>4, <2>5
<1>3. ASSUME NEW k \in Sockets, socket' = [socket EXCEPT ![k] = "closed"], timer' = [timer EXCEPT ![k] = 0], UNCHANGED <<ended, since, missed>>
      PROVE LiveInv'
  BY <1>3
<1>4. ASSUME NEW k \in Sockets, Disconnect(k) PROVE LiveInv'
  BY <1>3, <1>4 DEF Disconnect, Closes
<1>5. ASSUME NEW k \in Sockets, Recheck(k) PROVE LiveInv'
  <2>1. CASE StillAllowed(k)
    BY <1>5, <2>1 DEF Recheck, StillAllowed
  <2>2. CASE ~StillAllowed(k)
    BY <1>3, <1>5, <2>2 DEF Recheck, Closes
  <2> QED BY <2>1, <2>2
<1>6. ASSUME NEW k \in Sockets, RecheckFails(k) PROVE LiveInv'
  <2>1. /\ socket[k] = "open" /\ timer[k] = 0 /\ timer' = [timer EXCEPT ![k] = Interval]
        /\ missed' = [missed EXCEPT ![k] = IF k \in ended THEN missed[k] + 1 ELSE missed[k]]
        /\ UNCHANGED <<socket, ended, since>>
    BY <1>6 DEF RecheckFails
  <2>2. missed' \in [Sockets -> Nat] /\ timer' \in [Sockets -> 0..Interval]
    BY <2>1
  <2>3. \A j \in Sockets \ {k} : SocketInv(j)'
    BY <2>1
  <2>4. CASE k \in ended
    <3>1. missed'[k] = missed[k] + 1 /\ timer'[k] = Interval /\ since'[k] = since[k]
      BY <2>1, <2>4
    <3>2. since[k] <= Interval * (1 + missed[k])
      BY <2>1, <2>4
    <3>3. Interval * (1 + missed'[k]) = Interval * (1 + missed[k]) + Interval
      BY <3>1, <1>0
    <3>4. missed[k] \in Nat /\ Interval * (1 + missed[k]) \in Nat /\ since[k] \in Nat
      OBVIOUS
    <3>5. SocketInv(k)'
      BY <2>1, <2>4, <3>1, <3>2, <3>3, <3>4
    <3> QED BY <2>1, <2>2, <2>3, <3>5
  <2>5. CASE k \notin ended
    BY <2>1, <2>2, <2>3, <2>5
  <2> QED BY <2>4, <2>5
<1>7. ASSUME NEW k \in Sockets, SessionEnds(k) PROVE LiveInv'
  <2>1. k \notin ended /\ ended' = ended \union {k} /\ UNCHANGED <<socket, since, timer, missed>>
    BY <1>7 DEF SessionEnds
  <2>2. Interval * (1 + 0) = Interval
    OBVIOUS
  <2>3. since[k] = 0 /\ missed[k] = 0 /\ timer[k] <= Interval /\ timer[k] \in Nat
    BY <2>1
  <2>4. SocketInv(k)'
    BY <2>1, <2>2, <2>3
  <2>5. \A j \in Sockets \ {k} : SocketInv(j)'
    BY <2>1
  <2> QED BY <2>1, <2>4, <2>5
<1>8. CASE TimePasses
  <2>1. /\ timer' = [k \in Sockets |-> IF socket[k] = "open" THEN timer[k] - 1 ELSE timer[k]]
        /\ since' = [k \in Sockets |-> IF k \in ended /\ socket[k] = "open" /\ since[k] <= Longest THEN since[k] + 1 ELSE since[k]]
        /\ \A k \in Sockets : socket[k] = "open" => timer[k] > 0
        /\ UNCHANGED <<socket, ended, missed>>
    BY <1>8 DEF TimePasses
  <2>2. timer' \in [Sockets -> 0..Interval] /\ since' \in [Sockets -> Nat]
    BY <2>1
  <2>3. ASSUME NEW k \in Sockets PROVE SocketInv(k)'
    <3>1. Interval * (1 + missed[k]) \in Nat
      OBVIOUS
    <3>2. since[k] \in Nat /\ timer[k] \in Nat /\ since'[k] \in {since[k], since[k] + 1}
      BY <2>1
    <3> QED BY <2>1, <3>1, <3>2
  <2> QED BY <2>1, <2>2, <2>3
<1>9. CASE ProcessKilled
  <2>1. PICK gone \in SUBSET Sockets :
           /\ socket' = [k \in Sockets |-> IF k \in gone THEN "closed" ELSE socket[k]]
           /\ timer' = [k \in Sockets |-> IF k \in gone THEN 0 ELSE timer[k]]
           /\ UNCHANGED <<ended, since, missed>>
    BY <1>9 DEF ProcessKilled
  <2> QED BY <2>1
<1>10. ASSUME UNCHANGED <<socket, ended, since, timer, missed>> PROVE LiveInv'
  BY <1>10
<1>11. ASSUME NEW k \in Sockets, NEW what \in {"online", "offline"}, WriteRow(k, what) \/ PublishStatus(k, what) PROVE LiveInv'
  BY <1>10, <1>11 DEF WriteRow, PublishStatus
<1>12. ASSUME CountExpires \/ UNCHANGED liveVars PROVE LiveInv'
  BY <1>10, <1>12 DEF CountExpires, liveVars
<1> QED BY <1>1, <1>2, <1>4, <1>5, <1>6, <1>7, <1>8, <1>9, <1>11, <1>12 DEF LiveNext

\* A socket outlives its session by one interval, and by one more for each check
\* that failed (customerSocket.ts, stillAllowed at each interval).
THEOREM SocketsOfEndedSessionsClose == OfficeSpec => []EndedSocketsClose
<1>1. OfficeInit => LiveInv
  BY LiveAssumptions DEF OfficeInit, LiveInit, LiveInv, SocketInv
<1>2. LiveInv /\ [OfficeNext]_officeVars => LiveInv'
  BY LiveTakesItsSteps, LiveStepInv
<1>3. LiveInv => EndedSocketsClose
  <2> SUFFICES ASSUME LiveInv, NEW k \in ended, socket[k] = "open" PROVE since[k] <= Interval * (1 + missed[k])
    BY DEF EndedSocketsClose
  <2>1. k \in Sockets /\ since[k] + timer[k] <= Interval * (1 + missed[k])
    BY DEF LiveInv, SocketInv
  <2>2. since[k] \in Nat /\ timer[k] \in Nat /\ missed[k] \in Nat
    BY <2>1 DEF LiveInv
  <2>3. Interval * (1 + missed[k]) \in Nat
    BY <2>2, LiveAssumptions
  <2> QED BY <2>1, <2>2, <2>3
<1> QED BY <1>1, <1>2, <1>3, PTL DEF OfficeSpec

-----------------------------------------------------------------------------
(* Connected apps. *)

LEMMA AppTakesItsSteps == [OfficeNext]_officeVars => [AppNext]_appVars
BY DEF OfficeNext, ChatStep, LiveStep, AppStep, SyncStep, AccountStep, DeskStep, FeedbackStep, officeVars

Exchanging == {h \in Callers : caller[h].pc = "exchange"}
UsedStates == {x \in States : state[x] = "used"}
Holds(h) == caller[h].pc \in {"pick", "save"}
Bare(h) == caller[h].pc \in {"look", "replace"}
Owns(h) == Holds(h) \/ Bare(h)
ReadRow(h) == caller[h].pc \in {"refresh", "keep", "contact", "forget"}

CallerJob == [pc : {"idle", "exchange", "save", "look", "replace", "pick", "refresh", "contact", "keep", "forget", "delete", "revoke"},
              row : Grants \union {NoGrant}, grant : Grants \union {NoGrant}]

\* The row is of one consent, or of a bare one beside the token it found.
RowInv ==
  /\ saved \in [id : Grants \union {NoGrant}, access : Grants \union {NoGrant}, refresh : Grants \union {NoGrant}]
  /\ given \subseteq Grants /\ bare \subseteq given /\ dropped \subseteq given
  /\ saved = NoRow \/ (saved.id \in given /\ saved.refresh \in given \ bare)
  /\ saved.access \in {saved.id, saved.refresh}
  /\ saved.id \notin bare => saved.refresh = saved.id /\ saved.refresh \notin dropped

\* A grant that is not saved yet is one caller's, and of no row that is or was;
\* and a row that is still the one a caller read has the token it read.
GrantInv ==
  /\ RowInv
  /\ caller \in [Callers -> CallerJob]
  /\ \A h \in Callers : /\ Holds(h) => caller[h].grant \in given \ bare /\ caller[h].grant \notin dropped /\ caller[h].grant # saved.refresh
                        /\ Bare(h) => caller[h].grant \in bare
                        /\ Owns(h) => caller[h].grant # saved.id
                        /\ caller[h].pc = "replace" => caller[h].row \in given \ bare
                        /\ ReadRow(h) => caller[h].row \in given /\ (caller[h].row = saved.id => caller[h].grant = saved.refresh)
  /\ \A h, k \in Callers : Owns(h) /\ Owns(k) /\ caller[h].grant = caller[k].grant => h = k
  /\ \A h, k \in Callers : Owns(h) /\ (caller[k].pc = "replace" \/ ReadRow(k)) => caller[k].row # caller[h].grant

\* Each sign-in used brought one grant, or may still bring one.
SignInInv ==
  /\ way \in {"signIn", "key"}
  /\ state \in [States -> {"none", "signed", "used", "expired"}]
  /\ IsFiniteSet(given) /\ IsFiniteSet(UsedStates) /\ IsFiniteSet(Exchanging)
  /\ way = "signIn" => Cardinality(given) + Cardinality(Exchanging) <= Cardinality(UsedStates)

LEMMA CallerTyped ==
  ASSUME GrantInv, NEW h \in Callers
  PROVE  /\ caller[h].row \in Grants \union {NoGrant} /\ caller[h].grant \in Grants \union {NoGrant}
         /\ saved.id \in Grants \union {NoGrant} /\ saved.refresh \in Grants \union {NoGrant}
BY DEF GrantInv, RowInv, CallerJob

\* A caller that goes on without a grant of its own.
LEMMA GoesOn ==
  ASSUME GrantInv, UNCHANGED <<saved, given, bare, dropped>>, NEW h \in Callers,
         NEW step \in {"idle", "exchange", "refresh", "contact", "keep", "forget", "delete", "revoke"},
         NEW row \in Grants \union {NoGrant}, NEW grant \in Grants \union {NoGrant},
         step \in {"refresh", "contact", "keep", "forget"} =>
           /\ row \in given /\ (row = saved.id => grant = saved.refresh)
           /\ \A k \in Callers : Owns(k) => caller[k].grant # row,
         Proceed(h, step, row, grant)
  PROVE  GrantInv'
<1>1. caller' = [caller EXCEPT ![h] = [pc |-> step, row |-> row, grant |-> grant]]
  BY DEF Proceed
<1>2. [pc |-> step, row |-> row, grant |-> grant] \in CallerJob
  BY DEF CallerJob
<1>3. /\ caller' \in [Callers -> CallerJob]
      /\ caller'[h].pc = step /\ caller'[h].row = row /\ caller'[h].grant = grant
      /\ \A k \in Callers : k # h => caller'[k] = caller[k]
  BY <1>1, <1>2 DEF GrantInv
<1>4. ~Owns(h)' /\ caller'[h].pc # "replace"
  BY <1>3 DEF Owns, Holds, Bare
<1>5. \A k \in Callers : Owns(k)' => k # h /\ Owns(k) /\ caller'[k] = caller[k]
  BY <1>3, <1>4 DEF Owns, Holds, Bare
<1>6. RowInv'
  BY DEF GrantInv, RowInv
<1>7. \A k \in Callers : /\ Holds(k)' => caller'[k].grant \in given' \ bare' /\ caller'[k].grant \notin dropped' /\ caller'[k].grant # saved'.refresh
                         /\ Bare(k)' => caller'[k].grant \in bare'
                         /\ Owns(k)' => caller'[k].grant # saved'.id
                         /\ caller'[k].pc = "replace" => caller'[k].row \in given' \ bare'
  BY <1>3, <1>4, <1>5 DEF GrantInv, Owns, Holds, Bare
<1>8. \A k \in Callers : ReadRow(k)' => caller'[k].row \in given' /\ (caller'[k].row = saved'.id => caller'[k].grant = saved'.refresh)
  BY <1>3 DEF GrantInv, ReadRow
<1>9. \A k, l \in Callers : Owns(k)' /\ Owns(l)' /\ caller'[k].grant = caller'[l].grant => k = l
  BY <1>5 DEF GrantInv
<1>10. \A k, l \in Callers : Owns(k)' /\ (caller'[l].pc = "replace" \/ ReadRow(l)') => caller'[l].row # caller'[k].grant
  BY <1>3, <1>5 DEF GrantInv, ReadRow
<1> QED BY <1>3, <1>6, <1>7, <1>8, <1>9, <1>10 DEF GrantInv

LEMMA Ends ==
  ASSUME GrantInv, UNCHANGED <<saved, given, bare, dropped>>, NEW h \in Callers, EndCall(h)
  PROVE  GrantInv'
BY GoesOn DEF EndCall, Proceed, AtRest

\* The row is replaced or deleted by a caller that ends, or goes on to revoke.
LEMMA RowReplaced ==
  ASSUME GrantInv, RowInv', given' = given, bare' = bare, NEW h \in Callers,
         NEW c \in CallerJob, c.pc \in {"idle", "revoke"}, caller' = [caller EXCEPT ![h] = c],
         \A k \in Callers \ {h} :
           /\ Owns(k) => caller[k].grant # saved'.id
           /\ Holds(k) => caller[k].grant # saved'.refresh /\ caller[k].grant \notin dropped'
           /\ ReadRow(k) => caller[k].row # saved'.id
  PROVE  GrantInv'
<1>1. /\ caller' \in [Callers -> CallerJob] /\ caller'[h] = c
      /\ \A k \in Callers : k # h => caller'[k] = caller[k]
  BY DEF GrantInv
<1>2. ~Owns(h)' /\ caller'[h].pc # "replace" /\ ~ReadRow(h)'
  BY <1>1 DEF Owns, Holds, Bare, ReadRow
<1>3. \A k \in Callers : Owns(k)' \/ caller'[k].pc = "replace" \/ ReadRow(k)' => k # h
  BY <1>2
<1>4. \A k \in Callers : k # h => (Owns(k)' <=> Owns(k)) /\ (Holds(k)' <=> Holds(k)) /\ (Bare(k)' <=> Bare(k)) /\ (ReadRow(k)' <=> ReadRow(k))
  BY <1>1 DEF Owns, Holds, Bare, ReadRow
<1>5. \A k \in Callers : (Holds(k)' \/ Bare(k)') => k # h
  BY <1>3 DEF Owns
<1>6. \A k \in Callers : /\ Holds(k)' => caller'[k].grant \in given' \ bare' /\ caller'[k].grant \notin dropped' /\ caller'[k].grant # saved'.refresh
                         /\ Bare(k)' => caller'[k].grant \in bare'
                         /\ Owns(k)' => caller'[k].grant # saved'.id
                         /\ caller'[k].pc = "replace" => caller'[k].row \in given' \ bare'
                         /\ ReadRow(k)' => caller'[k].row \in given' /\ caller'[k].row # saved'.id
  BY <1>1, <1>3, <1>4, <1>5 DEF GrantInv
<1>7. \A k, l \in Callers : Owns(k)' /\ Owns(l)' /\ caller'[k].grant = caller'[l].grant => k = l
  BY <1>1, <1>3, <1>4 DEF GrantInv
<1>8. \A k, l \in Callers : Owns(k)' /\ (caller'[l].pc = "replace" \/ ReadRow(l)') => caller'[l].row # caller'[k].grant
  BY <1>1, <1>3, <1>4 DEF GrantInv
<1> QED BY <1>1, <1>6, <1>7, <1>8 DEF GrantInv

\* A new consent, with a refresh token or bare.
LEMMA NewGrant ==
  ASSUME GrantInv, NEW h \in Callers, NEW g \in Grants \ given, NEW step \in {"pick", "save", "look"},
         given' = given \union {g}, bare' = (IF step = "look" THEN bare \union {g} ELSE bare),
         Proceed(h, step, NoGrant, g), UNCHANGED <<saved, dropped>>
  PROVE  GrantInv'
<1>1. [pc |-> step, row |-> NoGrant, grant |-> g] \in CallerJob
  BY DEF CallerJob
<1>2. /\ caller' \in [Callers -> CallerJob]
      /\ caller'[h].pc = step /\ caller'[h].grant = g
      /\ \A k \in Callers : k # h => caller'[k] = caller[k]
  BY <1>1 DEF GrantInv, Proceed
<1>3. caller'[h].pc # "replace" /\ ~ReadRow(h)'
  BY <1>2 DEF ReadRow
<1>4. \A k \in Callers : k # h => (Owns(k)' <=> Owns(k)) /\ (Holds(k)' <=> Holds(k)) /\ (Bare(k)' <=> Bare(k)) /\ (ReadRow(k)' <=> ReadRow(k))
  BY <1>2 DEF Owns, Holds, Bare, ReadRow
<1>5. (Holds(h)' => step # "look") /\ (Bare(h)' => step = "look")
  BY <1>2 DEF Holds, Bare
<1>6. g # NoGrant /\ g \notin bare /\ g \notin dropped /\ g # saved.id /\ g # saved.refresh
  BY ConnectionAssumptions DEF GrantInv, RowInv, NoRow
<1>7. RowInv'
  BY <1>6 DEF GrantInv, RowInv
<1>8. \A k \in Callers : /\ Owns(k) => caller[k].grant \in given
                         /\ caller[k].pc = "replace" \/ ReadRow(k) => caller[k].row \in given
  BY DEF GrantInv, RowInv, Owns
<1>9. \A k \in Callers : /\ Holds(k)' => caller'[k].grant \in given' \ bare' /\ caller'[k].grant \notin dropped' /\ caller'[k].grant # saved'.refresh
                         /\ Bare(k)' => caller'[k].grant \in bare'
                         /\ Owns(k)' => caller'[k].grant # saved'.id
                         /\ caller'[k].pc = "replace" => caller'[k].row \in given' \ bare'
                         /\ ReadRow(k)' => caller'[k].row \in given' /\ (caller'[k].row = saved'.id => caller'[k].grant = saved'.refresh)
  <2> SUFFICES ASSUME NEW k \in Callers
               PROVE  /\ Holds(k)' => caller'[k].grant \in given' \ bare' /\ caller'[k].grant \notin dropped' /\ caller'[k].grant # saved'.refresh
                      /\ Bare(k)' => caller'[k].grant \in bare'
                      /\ Owns(k)' => caller'[k].grant # saved'.id
                      /\ caller'[k].pc = "replace" => caller'[k].row \in given' \ bare'
                      /\ ReadRow(k)' => caller'[k].row \in given' /\ (caller'[k].row = saved'.id => caller'[k].grant = saved'.refresh)
    OBVIOUS
  <2>1. CASE k = h
    BY <1>2, <1>3, <1>5, <1>6, <2>1
  <2>2. CASE k # h
    BY <1>2, <1>4, <1>8, <2>2 DEF GrantInv
  <2> QED BY <2>1, <2>2
<1>10. \A k, l \in Callers : Owns(k)' /\ Owns(l)' /\ caller'[k].grant = caller'[l].grant => k = l
  BY <1>2, <1>4, <1>8 DEF GrantInv
<1>11. \A k, l \in Callers : Owns(k)' /\ (caller'[l].pc = "replace" \/ ReadRow(l)') => caller'[l].row # caller'[k].grant
  BY <1>2, <1>3, <1>4, <1>8 DEF GrantInv
<1> QED BY <1>2, <1>7, <1>9, <1>10, <1>11 DEF GrantInv

LEMMA GrantStep == GrantInv /\ [AppNext]_appVars => GrantInv'
<1> SUFFICES ASSUME GrantInv, [AppNext]_appVars PROVE GrantInv'
  OBVIOUS
<1> USE ConnectionAssumptions, CallerTyped
<1>1. ASSUME UNCHANGED <<saved, given, bare, dropped, caller>> PROVE GrantInv'
  BY <1>1 DEF GrantInv, RowInv, Owns, Holds, Bare, ReadRow
<1>2. ASSUME StartSignIn \/ StateExpires \/ OwnerWithdraws \/ UNCHANGED appVars PROVE GrantInv'
  BY <1>1, <1>2 DEF StartSignIn, StateExpires, OwnerWithdraws, appVars
<1>3. ASSUME NEW h \in Callers, FinishSignIn(h) PROVE GrantInv'
  BY <1>3, GoesOn DEF FinishSignIn
<1>5. ASSUME NEW h \in Callers, ExchangeCode(h) PROVE GrantInv'
  <2>1. CASE EndCall(h) /\ UNCHANGED <<given, bare>>
    BY <1>5, <2>1, Ends DEF ExchangeCode
  <2>2. ASSUME NEW g \in Grants \ given, given' = given \union {g}, Proceed(h, "save", NoGrant, g), bare' = bare PROVE GrantInv'
    BY <1>5, <2>2, NewGrant DEF ExchangeCode
  <2>3. ASSUME NEW g \in Grants \ given, given' = given \union {g}, bare' = bare \union {g}, Proceed(h, "look", NoGrant, g) PROVE GrantInv'
    BY <1>5, <2>3, NewGrant DEF ExchangeCode
  <2> QED BY <1>5, <2>1, <2>2, <2>3 DEF ExchangeCode
<1>6. ASSUME NEW h \in Callers, ConnectMailchimp(h) PROVE GrantInv'
  BY <1>6, NewGrant DEF ConnectMailchimp
<1>7. ASSUME NEW h \in Callers, PickAudience(h) PROVE GrantInv'
  <2>1. CASE EndCall(h)
    BY <1>7, <2>1, Ends DEF PickAudience
  <2>2. CASE Proceed(h, "save", NoGrant, caller[h].grant)
    <3>1. Holds(h) /\ UNCHANGED <<saved, given, bare, dropped>>
      BY <1>7 DEF PickAudience, Holds, AtCall
    <3>2. /\ caller' = [caller EXCEPT ![h] = [pc |-> "save", row |-> NoGrant, grant |-> caller[h].grant]]
          /\ [pc |-> "save", row |-> NoGrant, grant |-> caller[h].grant] \in CallerJob
      BY <2>2 DEF Proceed, CallerJob
    <3>3. /\ caller' \in [Callers -> CallerJob] /\ caller'[h].pc = "save" /\ caller'[h].grant = caller[h].grant
          /\ \A k \in Callers : k # h => caller'[k] = caller[k]
      BY <3>2 DEF GrantInv
    <3>4. \A k \in Callers : /\ caller'[k].grant = caller[k].grant
                             /\ (Owns(k)' <=> Owns(k)) /\ (Holds(k)' <=> Holds(k)) /\ (Bare(k)' <=> Bare(k)) /\ (ReadRow(k)' <=> ReadRow(k))
                             /\ (caller'[k].pc = "replace" <=> caller[k].pc = "replace")
                             /\ caller[k].pc = "replace" \/ ReadRow(k) => caller'[k].row = caller[k].row
      BY <3>1, <3>3 DEF Owns, Holds, Bare, ReadRow
    <3>5. RowInv'
      BY <3>1 DEF GrantInv, RowInv
    <3> QED BY <3>1, <3>3, <3>4, <3>5 DEF GrantInv
  <2> QED BY <1>7, <2>1, <2>2 DEF PickAudience
<1>8. ASSUME NEW h \in Callers, SaveCredentials(h) PROVE GrantInv'
  <2>1. Holds(h) /\ Owns(h) /\ UNCHANGED <<given, bare, dropped>>
    BY <1>8 DEF SaveCredentials, Owns, Holds, AtCall
  <2>2. caller' = [caller EXCEPT ![h] = AtRest] /\ AtRest \in CallerJob /\ AtRest.pc = "idle"
    BY <1>8 DEF SaveCredentials, EndCall, AtRest, CallerJob
  <2>3. PICK g \in given \ bare : g = caller[h].grant /\ g \notin dropped /\ g \in Grants
                                  /\ saved' = [id |-> g, access |-> g, refresh |-> g]
    BY <1>8, <2>1 DEF SaveCredentials, GrantInv, RowInv
  <2>4. RowInv'
    BY <2>1, <2>3 DEF GrantInv, RowInv
  <2>5. saved'.id = g /\ saved'.refresh = g
    BY <2>3
  <2>6. \A k \in Callers \ {h} : (Owns(k) => caller[k].grant # g) /\ (Holds(k) => Owns(k)) /\ (ReadRow(k) => caller[k].row # g)
    BY <2>1, <2>3 DEF GrantInv, Owns
  <2>7. \A k \in Callers : Holds(k) => caller[k].grant \notin dropped
    BY DEF GrantInv
  <2> QED BY <2>1, <2>2, <2>4, <2>5, <2>6, <2>7, RowReplaced
<1>17. ASSUME NEW h \in Callers, LookForToken(h) PROVE GrantInv'
  <2>1. CASE EndCall(h)
    BY <1>17, <2>1, Ends DEF LookForToken
  <2>2. CASE saved # NoRow /\ Proceed(h, "replace", saved.refresh, caller[h].grant)
    <3>1. Bare(h) /\ Owns(h) /\ ~Holds(h) /\ ~ReadRow(h) /\ UNCHANGED <<saved, given, bare, dropped>>
      BY <1>17 DEF LookForToken, Owns, Holds, Bare, ReadRow, AtCall
    <3>2. /\ caller' = [caller EXCEPT ![h] = [pc |-> "replace", row |-> saved.refresh, grant |-> caller[h].grant]]
          /\ [pc |-> "replace", row |-> saved.refresh, grant |-> caller[h].grant] \in CallerJob
      BY <2>2 DEF Proceed, CallerJob
    <3>3. /\ caller' \in [Callers -> CallerJob]
          /\ caller'[h].pc = "replace" /\ caller'[h].row = saved.refresh /\ caller'[h].grant = caller[h].grant
          /\ \A k \in Callers : k # h => caller'[k] = caller[k]
      BY <3>2 DEF GrantInv
    <3>4. \A k \in Callers : /\ caller'[k].grant = caller[k].grant
                             /\ (Owns(k)' <=> Owns(k)) /\ (Holds(k)' <=> Holds(k)) /\ (Bare(k)' <=> Bare(k)) /\ (ReadRow(k)' <=> ReadRow(k))
      BY <3>1, <3>3 DEF Owns, Holds, Bare, ReadRow
    <3>5. saved.refresh \in given \ bare
      BY <2>2 DEF GrantInv, RowInv
    <3>6. \A k \in Callers : Owns(k) => caller[k].grant # saved.refresh
      BY <3>5 DEF GrantInv, Owns
    <3>7. \A k \in Callers : caller'[k].pc = "replace" => caller'[k].row \in given \ bare
      BY <3>3, <3>5 DEF GrantInv
    <3>8. \A k \in Callers : ReadRow(k) => k # h /\ caller'[k] = caller[k]
      BY <3>1, <3>3
    <3>9. \A k, l \in Callers : Owns(k)' /\ (caller'[l].pc = "replace" \/ ReadRow(l)') => caller'[l].row # caller'[k].grant
      BY <3>3, <3>4, <3>6, <3>8 DEF GrantInv
    <3>10. \A k \in Callers : ReadRow(k)' => caller'[k].row \in given' /\ (caller'[k].row = saved'.id => caller'[k].grant = saved'.refresh)
      BY <3>1, <3>4, <3>8 DEF GrantInv
    <3>11. RowInv'
      BY <3>1 DEF GrantInv, RowInv
    <3> QED BY <3>1, <3>3, <3>4, <3>7, <3>9, <3>10, <3>11 DEF GrantInv
  <2> QED BY <1>17, <2>1, <2>2 DEF LookForToken
<1>18. ASSUME NEW h \in Callers, ReplaceKeepingToken(h) PROVE GrantInv'
  <2>1. CASE UNCHANGED saved
    BY <1>18, <2>1, Ends DEF ReplaceKeepingToken
  <2>2. CASE saved' = [id |-> caller[h].grant, access |-> caller[h].grant, refresh |-> caller[h].row]
    <3>1. Bare(h) /\ Owns(h) /\ caller[h].pc = "replace" /\ UNCHANGED <<given, bare, dropped>>
      BY <1>18 DEF ReplaceKeepingToken, Owns, Bare, AtCall
    <3>2. caller' = [caller EXCEPT ![h] = AtRest] /\ AtRest \in CallerJob /\ AtRest.pc = "idle"
      BY <1>18 DEF ReplaceKeepingToken, EndCall, AtRest, CallerJob
    <3>3. PICK g \in bare, r \in given \ bare : g = caller[h].grant /\ r = caller[h].row /\ g \in Grants /\ r \in Grants /\ g \in given
                                                /\ saved' = [id |-> g, access |-> g, refresh |-> r]
      BY <2>2, <3>1 DEF GrantInv, RowInv
    <3>4. saved'.id = g /\ saved'.access = g /\ saved'.refresh = r
      BY <3>3
    <3>5. RowInv'
      BY <3>1, <3>3, <3>4 DEF GrantInv, RowInv
    <3>6. \A k \in Callers \ {h} : (Owns(k) => caller[k].grant # g /\ caller[k].grant # r) /\ (Holds(k) => Owns(k)) /\ (ReadRow(k) => caller[k].row # g)
      BY <3>1, <3>3 DEF GrantInv, Owns
    <3>7. \A k \in Callers : Holds(k) => caller[k].grant \notin dropped
      BY DEF GrantInv
    <3> QED BY <3>1, <3>2, <3>4, <3>5, <3>6, <3>7, RowReplaced
  <2> QED BY <1>18, <2>1, <2>2 DEF ReplaceKeepingToken
<1>r. ASSUME saved # NoRow PROVE saved.id \in given /\ \A k \in Callers : Owns(k) => caller[k].grant # saved.id
  BY <1>r DEF GrantInv, RowInv
<1>9. ASSUME NEW h \in Callers, UseAccess(h) PROVE GrantInv'
  BY <1>9, <1>r, GoesOn DEF UseAccess
<1>10. ASSUME NEW h \in Callers, UseKey(h) PROVE GrantInv'
  BY <1>10, <1>r, GoesOn DEF UseKey
<1>11. ASSUME NEW h \in Callers, AddClientToAudience(h) \/ RefreshToken(h) PROVE GrantInv'
  <2>1. /\ caller[h].row \in given /\ (caller[h].row = saved.id => caller[h].grant = saved.refresh)
        /\ \A k \in Callers : Owns(k) => caller[k].grant # caller[h].row
        /\ UNCHANGED <<saved, given, bare, dropped>>
    <3>1. ReadRow(h) /\ UNCHANGED <<saved, given, bare, dropped>>
      BY <1>11 DEF AddClientToAudience, RefreshToken, ReadRow, AtCall
    <3> QED BY <3>1 DEF GrantInv
  <2> QED BY <1>11, <2>1, GoesOn, Ends DEF AddClientToAudience, RefreshToken
<1>12. ASSUME NEW h \in Callers, KeepFreshToken(h) PROVE GrantInv'
  <2>1. ReadRow(h) /\ UNCHANGED <<given, bare, dropped>>
    BY <1>12 DEF KeepFreshToken, ReadRow, AtCall
  <2>2. caller' = [caller EXCEPT ![h] = AtRest] /\ AtRest \in CallerJob /\ AtRest.pc = "idle"
    BY <1>12 DEF KeepFreshToken, EndCall, AtRest, CallerJob
  <2>3. CASE saved.id # caller[h].row
    <3>1. saved' = saved
      BY <1>12, <2>3 DEF KeepFreshToken
    <3> QED BY <1>12, <2>1, <3>1, Ends DEF KeepFreshToken
  <2>4. CASE saved.id = caller[h].row
    <3>1. saved' = [saved EXCEPT !.access = saved.refresh]
      BY <1>12, <2>1, <2>4 DEF KeepFreshToken, GrantInv
    <3>2. saved.id \in given /\ saved.id # NoGrant
      BY <2>1, <2>4 DEF GrantInv, RowInv
    <3>3. /\ saved' \in [id : Grants \union {NoGrant}, access : Grants \union {NoGrant}, refresh : Grants \union {NoGrant}]
          /\ saved'.id = saved.id /\ saved'.refresh = saved.refresh /\ saved'.access = saved.refresh
      BY <3>1 DEF GrantInv, RowInv
    <3>4. saved # NoRow
      BY <3>2 DEF NoRow
    <3>5. RowInv'
      BY <2>1, <3>2, <3>3, <3>4 DEF GrantInv, RowInv
    <3>6. /\ caller' \in [Callers -> CallerJob] /\ caller'[h].pc = "idle"
          /\ \A k \in Callers : k # h => caller'[k] = caller[k]
      BY <2>2 DEF GrantInv
    <3>7. ~Owns(h)' /\ ~Holds(h)' /\ ~Bare(h)' /\ ~ReadRow(h)'
      BY <3>6 DEF Owns, Holds, Bare, ReadRow
    <3>8. \A k \in Callers : k # h => (Owns(k)' <=> Owns(k)) /\ (Holds(k)' <=> Holds(k)) /\ (Bare(k)' <=> Bare(k)) /\ (ReadRow(k)' <=> ReadRow(k))
      BY <3>6 DEF Owns, Holds, Bare, ReadRow
    <3>9. \A k \in Callers : /\ Holds(k)' => caller'[k].grant \in given' \ bare' /\ caller'[k].grant \notin dropped' /\ caller'[k].grant # saved'.refresh
                             /\ Bare(k)' => caller'[k].grant \in bare'
                             /\ Owns(k)' => caller'[k].grant # saved'.id
                             /\ caller'[k].pc = "replace" => caller'[k].row \in given' \ bare'
                             /\ ReadRow(k)' => caller'[k].row \in given' /\ (caller'[k].row = saved'.id => caller'[k].grant = saved'.refresh)
      BY <2>1, <3>3, <3>6, <3>7, <3>8 DEF GrantInv
    <3>10. \A k, l \in Callers : Owns(k)' /\ Owns(l)' /\ caller'[k].grant = caller'[l].grant => k = l
      BY <3>6, <3>7, <3>8 DEF GrantInv
    <3>11. \A k, l \in Callers : Owns(k)' /\ (caller'[l].pc = "replace" \/ ReadRow(l)') => caller'[l].row # caller'[k].grant
      BY <3>6, <3>7, <3>8 DEF GrantInv
    <3> QED BY <3>5, <3>6, <3>9, <3>10, <3>11 DEF GrantInv
  <2> QED BY <2>3, <2>4
<1>n. NoRow.id = NoGrant /\ NoRow.refresh = NoGrant /\ NoGrant \notin given
  BY DEF NoRow, GrantInv, RowInv
<1>13. ASSUME NEW h \in Callers, ForgetApp(h) PROVE GrantInv'
  <2>1. saved' = NoRow /\ UNCHANGED <<given, bare, dropped>>
    BY <1>13 DEF ForgetApp
  <2>2. caller' = [caller EXCEPT ![h] = AtRest] /\ AtRest \in CallerJob /\ AtRest.pc = "idle"
    BY <1>13 DEF ForgetApp, EndCall, AtRest, CallerJob
  <2>3. RowInv'
    BY <2>1, <1>n DEF GrantInv, RowInv, NoRow
  <2>4. \A k \in Callers : /\ Owns(k) => caller[k].grant # NoGrant
                           /\ Holds(k) => caller[k].grant # NoGrant /\ caller[k].grant \notin dropped
                           /\ ReadRow(k) => caller[k].row # NoGrant
    BY <1>n DEF GrantInv, RowInv, Owns
  <2> QED BY <1>n, <2>1, <2>2, <2>3, <2>4, RowReplaced
<1>14. ASSUME NEW h \in Callers, DisconnectApp(h) PROVE GrantInv'
  BY <1>14, GoesOn DEF DisconnectApp
<1>15. ASSUME NEW h \in Callers, DeleteCredentials(h) PROVE GrantInv'
  <2>1. /\ saved' = NoRow /\ UNCHANGED <<given, bare>>
        /\ dropped' = dropped \union ({saved.refresh} \ {NoGrant})
    BY <1>15 DEF DeleteCredentials
  <2>2. PICK c \in CallerJob : c.pc \in {"idle", "revoke"} /\ caller' = [caller EXCEPT ![h] = c]
    <3>1. CASE EndCall(h)
      <4>1. AtRest \in CallerJob /\ AtRest.pc = "idle"
        BY DEF AtRest, CallerJob
      <4> QED BY <3>1, <4>1 DEF EndCall
    <3>2. CASE Proceed(h, "revoke", NoGrant, caller[h].grant)
      <4>1. [pc |-> "revoke", row |-> NoGrant, grant |-> caller[h].grant] \in CallerJob
        BY DEF CallerJob
      <4> QED BY <3>2, <4>1 DEF Proceed
    <3> QED BY <1>15, <3>1, <3>2 DEF DeleteCredentials
  <2>3. dropped' \subseteq given /\ NoGrant \notin dropped'
    BY <2>1, <1>n DEF GrantInv, RowInv, NoRow
  <2>4. RowInv'
    BY <2>1, <2>3, <1>n DEF GrantInv, RowInv, NoRow
  <2>5. \A k \in Callers : /\ Owns(k) => caller[k].grant # NoGrant
                           /\ Holds(k) => caller[k].grant # NoGrant /\ caller[k].grant \notin dropped'
                           /\ ReadRow(k) => caller[k].row # NoGrant
    BY <1>n, <2>1 DEF GrantInv, RowInv, Owns
  <2> QED BY <1>n, <2>1, <2>2, <2>4, <2>5, RowReplaced
<1>16. ASSUME NEW h \in Callers, RevokeToken(h) PROVE GrantInv'
  BY <1>16, Ends DEF RevokeToken
<1> QED BY <1>2, <1>3, <1>5, <1>6, <1>7, <1>8, <1>9, <1>10, <1>11, <1>12, <1>13, <1>14, <1>15, <1>16, <1>17, <1>18 DEF AppNext

LEMMA NotExchanging ==
  ASSUME GrantInv, NEW h \in Callers, NEW c, c.pc # "exchange", caller' = [caller EXCEPT ![h] = c]
  PROVE  Exchanging' = Exchanging \ {h}
BY DEF GrantInv, Exchanging

LEMMA SignInStep == GrantInv /\ SignInInv /\ [AppNext]_appVars => SignInInv'
<1> SUFFICES ASSUME GrantInv, SignInInv, [AppNext]_appVars PROVE SignInInv'
  OBVIOUS
<1> USE DEF SignInInv
<1>n. Cardinality(given) \in Nat /\ Cardinality(Exchanging) \in Nat /\ Cardinality(UsedStates) \in Nat
  BY FS_CardinalityType
\* Most callers only leave the exchange, or were not there.
<1>1. ASSUME NEW h \in Callers, NEW c, c.pc # "exchange", caller' = [caller EXCEPT ![h] = c], UNCHANGED <<way, state, given>>
      PROVE SignInInv'
  <2>1. Exchanging' = Exchanging \ {h} /\ UsedStates' = UsedStates
    BY <1>1, NotExchanging DEF UsedStates
  <2>2. IsFiniteSet(Exchanging') /\ Cardinality(Exchanging') <= Cardinality(Exchanging) /\ Cardinality(Exchanging') \in Nat
    BY <2>1, FS_RemoveElement, FS_Subset, FS_CardinalityType
  <2> QED BY <1>1, <1>n, <2>1, <2>2
<1>2. ASSUME NEW h \in Callers, UNCHANGED <<way, state, given>>,
             EndCall(h) \/ \E step \in {"save", "replace", "refresh", "contact", "keep", "forget", "delete", "revoke"} :
                             \E row, grant : Proceed(h, step, row, grant)
      PROVE SignInInv'
  BY <1>1, <1>2 DEF EndCall, Proceed, AtRest
<1>3. ASSUME NEW h \in Callers, PickAudience(h) \/ UseKey(h) \/ AddClientToAudience(h) \/ SaveCredentials(h) \/ UseAccess(h) \/ RefreshToken(h)
                                \/ KeepFreshToken(h) \/ ForgetApp(h) \/ DisconnectApp(h) \/ DeleteCredentials(h) \/ RevokeToken(h)
                                \/ LookForToken(h) \/ ReplaceKeepingToken(h)
      PROVE /\ UNCHANGED <<way, state, given>>
            /\ EndCall(h) \/ \E step \in {"save", "replace", "refresh", "contact", "keep", "forget", "delete", "revoke"} :
                               \E row, grant : Proceed(h, step, row, grant)
  <2>1. CASE PickAudience(h) \/ UseKey(h)
    BY <2>1 DEF PickAudience, UseKey
  <2>2. CASE AddClientToAudience(h) \/ RefreshToken(h)
    BY <2>2 DEF AddClientToAudience, RefreshToken
  <2>3. CASE SaveCredentials(h) \/ UseAccess(h)
    BY <2>3 DEF SaveCredentials, UseAccess
  <2>4. CASE KeepFreshToken(h) \/ ForgetApp(h) \/ DisconnectApp(h)
    BY <2>4 DEF KeepFreshToken, ForgetApp, DisconnectApp
  <2>5. CASE DeleteCredentials(h) \/ RevokeToken(h)
    BY <2>5 DEF DeleteCredentials, RevokeToken
  <2>6. CASE LookForToken(h) \/ ReplaceKeepingToken(h)
    BY <2>6 DEF LookForToken, ReplaceKeepingToken
  <2> QED BY <1>3, <2>1, <2>2, <2>3, <2>4, <2>5, <2>6
<1>4. ASSUME NEW x \in States, NEW to \in {"signed", "expired"}, state[x] # "used", state' = [state EXCEPT ![x] = to], UNCHANGED <<way, given, caller>>
      PROVE SignInInv'
  BY <1>4 DEF UsedStates, Exchanging
<1>5. ASSUME StartSignIn \/ StateExpires PROVE SignInInv'
  BY <1>4, <1>5 DEF StartSignIn, StateExpires
<1>6. ASSUME OwnerWithdraws \/ UNCHANGED appVars PROVE SignInInv'
  BY <1>6 DEF OwnerWithdraws, appVars, UsedStates, Exchanging
<1>7. ASSUME NEW h \in Callers, ConnectMailchimp(h) PROVE SignInInv'
  <2>1. PICK g : given' = given \union {g} /\ Proceed(h, "pick", NoGrant, g)
    BY <1>7 DEF ConnectMailchimp
  <2>2. Exchanging' = Exchanging \ {h}
    BY <2>1, NotExchanging DEF Proceed
  <2>3. IsFiniteSet(given') /\ IsFiniteSet(Exchanging')
    BY <2>1, <2>2, FS_AddElement, FS_RemoveElement
  <2> QED BY <1>7, <2>3 DEF ConnectMailchimp, UsedStates
<1>8. ASSUME NEW h \in Callers, FinishSignIn(h) PROVE SignInInv'
  <2>1. PICK x \in States : state[x] = "signed" /\ state' = [state EXCEPT ![x] = "used"]
    BY <1>8 DEF FinishSignIn
  <2>2. UsedStates' = UsedStates \union {x} /\ x \notin UsedStates
    BY <2>1 DEF UsedStates
  <2>3. Exchanging' = Exchanging \union {h} /\ h \notin Exchanging
    BY <1>8 DEF FinishSignIn, Exchanging, AtCall, Proceed, GrantInv
  <2>4. /\ IsFiniteSet(UsedStates') /\ Cardinality(UsedStates') = Cardinality(UsedStates) + 1
        /\ IsFiniteSet(Exchanging') /\ Cardinality(Exchanging') = Cardinality(Exchanging) + 1
    BY <2>2, <2>3, FS_AddElement
  <2>5. UNCHANGED <<way, given>> /\ state' \in [States -> {"none", "signed", "used", "expired"}]
    BY <1>8, <2>1 DEF FinishSignIn
  <2> QED BY <1>n, <2>4, <2>5
<1>9. ASSUME NEW h \in Callers, ExchangeCode(h) PROVE SignInInv'
  <2>1. CASE EndCall(h) /\ UNCHANGED <<given, bare>>
    BY <1>2, <1>9, <2>1 DEF ExchangeCode
  <2>2. ASSUME NEW g \in Grants \ given, NEW step \in {"save", "look"}, given' = given \union {g}, Proceed(h, step, NoGrant, g) PROVE SignInInv'
    <3>1. h \in Exchanging /\ Exchanging' = Exchanging \ {h}
      BY <1>9, <2>2, NotExchanging DEF ExchangeCode, AtCall, Exchanging, Proceed
    <3>2. IsFiniteSet(Exchanging') /\ Cardinality(Exchanging') = Cardinality(Exchanging) - 1
      BY <3>1, FS_RemoveElement
    <3>3. IsFiniteSet(given') /\ Cardinality(given') = Cardinality(given) + 1
      BY <2>2, FS_AddElement
    <3>4. UNCHANGED <<way, state>> /\ UsedStates' = UsedStates
      BY <1>9 DEF ExchangeCode, UsedStates
    <3> QED BY <1>n, <3>2, <3>3, <3>4
  <2> QED BY <1>9, <2>1, <2>2 DEF ExchangeCode
<1> QED BY <1>2, <1>3, <1>5, <1>6, <1>7, <1>8, <1>9 DEF AppNext

\* However token refreshes, sign-ins and disconnects overlap, the saved
\* credentials are of one consent that no disconnect deleted, but for a row
\* made without a refresh token, which keeps the one it found; and a sign-in's
\* state brings one consent (connections.ts, credentials.ts, oauthState.ts).
THEOREM CredentialsStayTogether == OfficeSpec => []CredentialsOfOneGrant
<1>1. OfficeInit => GrantInv /\ SignInInv
  <2> SUFFICES ASSUME OfficeInit PROVE GrantInv /\ SignInInv
    OBVIOUS
  <2>1. AppInit
    BY DEF OfficeInit
  <2>2. GrantInv
    BY <2>1, ConnectionAssumptions DEF AppInit, GrantInv, RowInv, CallerJob, NoRow, AtRest, Owns, Holds, Bare, ReadRow
  <2>3. given = {} /\ UsedStates = {} /\ Exchanging = {}
    BY <2>1 DEF AppInit, UsedStates, Exchanging, AtRest
  <2>4. SignInInv
    BY <2>1, <2>3, FS_EmptySet DEF AppInit, SignInInv
  <2> QED BY <2>2, <2>4
<1>2. GrantInv /\ SignInInv /\ [OfficeNext]_officeVars => GrantInv' /\ SignInInv'
  BY AppTakesItsSteps, GrantStep, SignInStep
<1>3. GrantInv /\ SignInInv => CredentialsOfOneGrant
  <2> SUFFICES ASSUME GrantInv, SignInInv PROVE CredentialsOfOneGrant
    OBVIOUS
  <2>1. Cardinality(given) \in Nat /\ Cardinality(Exchanging) \in Nat /\ Cardinality(UsedStates) \in Nat
    BY FS_CardinalityType DEF SignInInv
  <2>2. /\ saved.access \in {saved.id, saved.refresh} /\ saved.refresh \notin bare
        /\ saved.id \notin bare => saved.refresh = saved.id /\ saved.refresh \notin dropped
    BY ConnectionAssumptions DEF GrantInv, RowInv, NoRow
  <2>3. way = "signIn" => Cardinality(given) <= Cardinality(UsedStates)
    BY <2>1 DEF SignInInv
  <2> QED BY <2>2, <2>3 DEF CredentialsOfOneGrant, UsedStates
<1> QED BY <1>1, <1>2, <1>3, PTL DEF OfficeSpec

-----------------------------------------------------------------------------
(* The salon's records. *)

LEMMA DeskTakesItsSteps == [OfficeNext]_officeVars => [DeskNext]_deskVars
BY DEF OfficeNext, ChatStep, LiveStep, AppStep, SyncStep, AccountStep, DeskStep, FeedbackStep, officeVars

ServiceSteps == {"saveService", "delete", "package"}
MailSteps == {"send", "giveBack"}
WaitSteps == {"join", "details"}
ClientSteps == {"addClient", "bringBack", "saveClient"}
PhotoSteps == {"append", "dropPhoto", "deleteFile"}

ClientWho == [email : Emails \union {NoEmail}, active : BOOLEAN]
ClerkJob == [pc : {"idle"} \union ServiceSteps \union MailSteps \union WaitSteps \union ClientSteps \union PhotoSteps,
             of : Services \union {NoService}, team : SUBSET Stylists, count : Nat, who : ClientWho,
             id : Records \union {0}, photo : Photos \union {NoPhoto}, seen : SUBSET Photos]

DeskTyped ==
  /\ clerk \in [Clerks -> ClerkJob] /\ busy \in BOOLEAN
  /\ team \subseteq Stylists /\ gallery \subseteq uploaded /\ uploaded \subseteq Photos
  /\ \A h \in Clerks : /\ clerk[h].pc = "append" => clerk[h].photo \in uploaded
                       /\ clerk[h].pc = "dropPhoto" => clerk[h].seen \subseteq uploaded

\* While the desk is not busy, there is one request at a time.
Alone == ~busy => \A h, k \in Clerks : clerk[h].pc # "idle" /\ clerk[k].pc # "idle" => h = k

\* A request takes a step of one kind of work; one that begins while another is
\* under way makes the desk busy.
DeskMoves(h, steps) ==
  /\ clerk[h].pc \in steps \union {"idle"}
  /\ \E c \in ClerkJob : c.pc \in steps \union {"idle"} /\ clerk' = [clerk EXCEPT ![h] = c]
  /\ clerk[h].pc = "idle" => busy' = (busy \/ \E k \in Clerks : clerk[k].pc # "idle")
  /\ clerk[h].pc # "idle" => busy' = busy

ServiceWork(h) == CheckService(h) \/ SaveService(h) \/ CheckDeletion(h) \/ DeleteService(h) \/ CheckPackage(h) \/ CreatePackage(h)
MailWork(h) == CountMessages(h) \/ SendClientMessage(h) \/ GiveBack(h)
WaitWork(h) == CheckWaitlist(h) \/ JoinWaitlist(h) \/ SaveDetails(h)
ClientWork(h) == CheckClient(h) \/ AddClient(h) \/ SaveClient(h)
PhotoWork(h) == UploadPhoto(h) \/ AppendPhoto(h) \/ ReadGallery(h) \/ DropPhoto(h) \/ DeletePhoto(h)
OwnersWork == BookService \/ DeactivatePackage \/ SetStaff \/ RemoveStaff \/ DayBegins \/ RemoveClient \/ SignUpWithPolicies \/ SaveBookingRules

LEMMA DeskSteps ==
  DeskNext => OwnersWork \/ \E h \in Clerks : ServiceWork(h) \/ MailWork(h) \/ WaitWork(h) \/ ClientWork(h) \/ PhotoWork(h)
BY DEF DeskNext, OwnersWork, ServiceWork, MailWork, WaitWork, ClientWork, PhotoWork

LEMMA NoClerkTyped == NoClerk \in ClerkJob /\ NoClerk.pc = "idle"
BY DEF NoClerk, NoContact, ClerkJob, ClientWho

LEMMA TakeMoves ==
  ASSUME DeskTyped, NEW h \in Clerks, NEW steps, NEW c \in ClerkJob, c.pc \in steps, Take(h, c)
  PROVE  DeskMoves(h, steps)
BY DEF Take, AtDesk, DeskMoves

LEMMA ServeMoves ==
  ASSUME DeskTyped, NEW h \in Clerks, NEW steps \in {ServiceSteps, MailSteps, WaitSteps}, NEW step \in steps,
         NEW v \in Services \union {NoService}, NEW who \in SUBSET Stylists, NEW n \in Nat, Serve(h, step, v, who, n)
  PROVE  DeskMoves(h, steps)
<1>1. [NoClerk EXCEPT !.pc = step, !.of = v, !.team = who, !.count = n] \in ClerkJob
  BY NoClerkTyped DEF NoClerk, NoContact, ClerkJob, ClientWho, ServiceSteps, MailSteps, WaitSteps
<1>2. [NoClerk EXCEPT !.pc = step, !.of = v, !.team = who, !.count = n].pc = step
  BY DEF NoClerk
<1> QED BY <1>1, <1>2, TakeMoves DEF Serve

LEMMA ServedMoves ==
  ASSUME DeskTyped, NEW h \in Clerks, NEW steps, clerk[h].pc \in steps, "idle" \notin steps, Served(h)
  PROVE  DeskMoves(h, steps)
BY NoClerkTyped DEF Served, DeskMoves

LEMMA ServiceMoves ==
  ASSUME DeskTyped, NEW h \in Clerks, ServiceWork(h)
  PROVE  DeskMoves(h, ServiceSteps) /\ UNCHANGED <<mail, listed>>
<1> USE DEF ServiceSteps
<1>1. CASE CheckService(h)
  BY <1>1, ServeMoves DEF CheckService, DeskTyped
<1>2. CASE CheckDeletion(h)
  BY <1>2, ServeMoves DEF CheckDeletion, Listed
<1>3. CASE CheckPackage(h)
  BY <1>3, ServeMoves DEF CheckPackage, Listed
<1>4. CASE SaveService(h)
  BY <1>4, ServedMoves DEF SaveService, AtDesk
<1>5. CASE DeleteService(h)
  BY <1>5, ServedMoves DEF DeleteService, AtDesk
<1>6. CASE CreatePackage(h)
  BY <1>6, ServedMoves DEF CreatePackage, AtDesk
<1> QED BY <1>1, <1>2, <1>3, <1>4, <1>5, <1>6 DEF ServiceWork

LEMMA MailMoves ==
  ASSUME DeskTyped, NEW h \in Clerks, MailWork(h)
  PROVE  DeskMoves(h, MailSteps) /\ UNCHANGED <<records, profile, listed>>
<1> USE DEF MailSteps
<1>1. CASE CountMessages(h)
  <2>1. PICK n \in Recipients : Serve(h, IF used + n > Quota THEN "giveBack" ELSE "send", NoService, {}, n)
    BY <1>1 DEF CountMessages
  <2> QED BY <1>1, <2>1, ServeMoves, DeskAssumptions DEF CountMessages
<1>2. CASE SendClientMessage(h)
  BY <1>2, ServedMoves DEF SendClientMessage, AtDesk
<1>3. CASE GiveBack(h)
  BY <1>3, ServedMoves DEF GiveBack, AtDesk
<1> QED BY <1>1, <1>2, <1>3 DEF MailWork

LEMMA WaitMoves ==
  ASSUME DeskTyped, NEW h \in Clerks, WaitWork(h)
  PROVE  DeskMoves(h, WaitSteps) /\ UNCHANGED <<records, mail>>
<1> USE DEF WaitSteps
<1>1. CASE CheckWaitlist(h)
  BY <1>1, ServeMoves DEF CheckWaitlist
<1>2. CASE JoinWaitlist(h)
  BY <1>2, ServedMoves DEF JoinWaitlist, AtDesk
<1>3. CASE SaveDetails(h)
  BY <1>3, ServedMoves DEF SaveDetails, AtDesk
<1> QED BY <1>1, <1>2, <1>3 DEF WaitWork

LEMMA ClientMoves ==
  ASSUME DeskTyped, NEW h \in Clerks, ClientWork(h)
  PROVE  DeskMoves(h, ClientSteps) /\ UNCHANGED <<records, used, sentToday, day, twice, listed, photos, rules>>
<1> USE DEF ClientSteps
<1>1. CASE CheckClient(h)
  <2>1. ASSUME NEW e \in Emails, Take(h, [NoClerk EXCEPT !.pc = "addClient", !.who = [email |-> e, active |-> TRUE]])
        PROVE DeskMoves(h, ClientSteps)
    <3>1. [NoClerk EXCEPT !.pc = "addClient", !.who = [email |-> e, active |-> TRUE]] \in ClerkJob
      BY NoClerkTyped DEF NoClerk, NoContact, ClerkJob, ClientWho
    <3>2. [NoClerk EXCEPT !.pc = "addClient", !.who = [email |-> e, active |-> TRUE]].pc = "addClient"
      BY DEF NoClerk
    <3> QED BY <2>1, <3>1, <3>2, TakeMoves
  <2>2. ASSUME NEW e \in Emails, NEW step \in ClientSteps, NEW c \in Records,
               Take(h, [NoClerk EXCEPT !.pc = step, !.id = c, !.who = [email |-> e, active |-> TRUE]])
        PROVE DeskMoves(h, ClientSteps)
    <3>1. [NoClerk EXCEPT !.pc = step, !.id = c, !.who = [email |-> e, active |-> TRUE]] \in ClerkJob
      BY NoClerkTyped DEF NoClerk, NoContact, ClerkJob, ClientWho
    <3>2. [NoClerk EXCEPT !.pc = step, !.id = c, !.who = [email |-> e, active |-> TRUE]].pc = step
      BY DEF NoClerk
    <3> QED BY <2>2, <3>1, <3>2, TakeMoves
  <2> QED BY <1>1, <2>1, <2>2 DEF CheckClient, Kept, profile
<1>2. CASE AddClient(h)
  BY <1>2, ServedMoves DEF AddClient, AtDesk
<1>3. CASE SaveClient(h)
  BY <1>3, ServedMoves DEF SaveClient, AtDesk
<1> QED BY <1>1, <1>2, <1>3 DEF ClientWork

LEMMA PhotoMoves ==
  ASSUME DeskTyped, NEW h \in Clerks, PhotoWork(h)
  PROVE  DeskMoves(h, PhotoSteps) /\ UNCHANGED <<records, used, sentToday, day, twice, listed, contact, rules>>
<1> USE DEF PhotoSteps
<1>1. CASE UploadPhoto(h)
  <2>1. PICK p \in Photos : Take(h, [NoClerk EXCEPT !.pc = "append", !.photo = p])
    BY <1>1 DEF UploadPhoto
  <2>2. [NoClerk EXCEPT !.pc = "append", !.photo = p] \in ClerkJob /\ [NoClerk EXCEPT !.pc = "append", !.photo = p].pc = "append"
    BY NoClerkTyped DEF NoClerk, NoContact, ClerkJob, ClientWho
  <2> QED BY <1>1, <2>1, <2>2, TakeMoves DEF UploadPhoto
<1>2. CASE ReadGallery(h)
  <2>1. PICK p \in gallery : Take(h, [NoClerk EXCEPT !.pc = "dropPhoto", !.photo = p, !.seen = gallery])
    BY <1>2 DEF ReadGallery
  <2>2. gallery \subseteq Photos
    BY DEF DeskTyped
  <2>3. [NoClerk EXCEPT !.pc = "dropPhoto", !.photo = p, !.seen = gallery] \in ClerkJob
    BY <2>1, <2>2, NoClerkTyped DEF NoClerk, NoContact, ClerkJob, ClientWho
  <2>4. [NoClerk EXCEPT !.pc = "dropPhoto", !.photo = p, !.seen = gallery].pc = "dropPhoto"
    BY DEF NoClerk
  <2> QED BY <1>2, <2>1, <2>3, <2>4, TakeMoves DEF ReadGallery, profile, photos
<1>3. CASE AppendPhoto(h)
  BY <1>3, ServedMoves DEF AppendPhoto, AtDesk
<1>4. CASE DeletePhoto(h)
  BY <1>4, ServedMoves DEF DeletePhoto, AtDesk
<1>5. CASE DropPhoto(h)
  <2>1. clerk[h] \in ClerkJob /\ clerk[h].pc = "dropPhoto" /\ clerk' = [clerk EXCEPT ![h] = [clerk[h] EXCEPT !.pc = "deleteFile"]]
    BY <1>5 DEF DropPhoto, AtDesk, DeskTyped
  <2>2. [clerk[h] EXCEPT !.pc = "deleteFile"] \in ClerkJob /\ [clerk[h] EXCEPT !.pc = "deleteFile"].pc = "deleteFile"
    BY <2>1 DEF ClerkJob
  <2> QED BY <1>5, <2>1, <2>2 DEF DropPhoto, DeskMoves
<1> QED BY <1>1, <1>2, <1>3, <1>4, <1>5 DEF PhotoWork

LEMMA OwnersMoves ==
  ASSUME OwnersWork
  PROVE  clerk' = clerk /\ (busy' = busy \/ busy' = (busy \/ \E h \in Clerks : clerk[h].pc # "idle")) /\ UNCHANGED <<listed, gallery, uploaded, files>>
<1>1. CASE BookService \/ DeactivatePackage
  BY <1>1 DEF BookService, DeactivatePackage, mail, profile, photos, AtDesk
<1>2. CASE SetStaff \/ RemoveStaff
  BY <1>2 DEF SetStaff, RemoveStaff, mail, profile, photos
<1>3. CASE DayBegins \/ RemoveClient
  BY <1>3 DEF DayBegins, RemoveClient, profile, photos
<1>4. CASE SignUpWithPolicies \/ SaveBookingRules
  BY <1>4 DEF SignUpWithPolicies, SaveBookingRules, photos
<1> QED BY <1>1, <1>2, <1>3, <1>4 DEF OwnersWork

LEMMA DeskTypedStep == DeskTyped /\ [DeskNext]_deskVars => DeskTyped'
<1> SUFFICES ASSUME DeskTyped, [DeskNext]_deskVars PROVE DeskTyped'
  OBVIOUS
<1> USE DEF DeskTyped
<1>0. ASSUME NEW h \in Clerks, NEW steps, DeskMoves(h, steps)
      PROVE  clerk' \in [Clerks -> ClerkJob] /\ busy' \in BOOLEAN
  BY <1>0 DEF DeskMoves
\* Work that is not on photos leaves the gallery and its requests alone.
<1>1. ASSUME NEW h \in Clerks, NEW steps \in {ServiceSteps, MailSteps, WaitSteps, ClientSteps}, DeskMoves(h, steps),
             UNCHANGED <<gallery, uploaded>>, team' = team
      PROVE DeskTyped'
  <2>1. PICK c \in ClerkJob : c.pc \in steps \union {"idle"} /\ clerk' = [clerk EXCEPT ![h] = c]
    BY <1>1 DEF DeskMoves
  <2>2. c.pc # "append" /\ c.pc # "dropPhoto"
    BY <2>1 DEF ServiceSteps, MailSteps, WaitSteps, ClientSteps
  <2> QED BY <1>0, <1>1, <2>1, <2>2
<1>2. ASSUME NEW h \in Clerks, ServiceWork(h) PROVE DeskTyped'
  <2>1. team' = team
    BY <1>2 DEF ServiceWork, CheckService, SaveService, CheckDeletion, DeleteService, CheckPackage, CreatePackage, records
  <2> QED BY <1>1, <1>2, <2>1, ServiceMoves DEF mail, profile, photos
<1>3. ASSUME NEW h \in Clerks, MailWork(h) PROVE DeskTyped'
  BY <1>1, <1>3, MailMoves DEF records, profile, photos
<1>4. ASSUME NEW h \in Clerks, WaitWork(h) PROVE DeskTyped'
  BY <1>1, <1>4, WaitMoves DEF records, mail, profile, photos
<1>5. ASSUME NEW h \in Clerks, ClientWork(h) PROVE DeskTyped'
  BY <1>1, <1>5, ClientMoves DEF records, photos
<1>6. ASSUME NEW h \in Clerks, PhotoWork(h) PROVE DeskTyped'
  <2>0. clerk' \in [Clerks -> ClerkJob] /\ busy' \in BOOLEAN /\ team' = team
    BY <1>0, <1>6, PhotoMoves DEF records
  <2>1. CASE UploadPhoto(h)
    <3>1. PICK p \in Photos : /\ clerk' = [clerk EXCEPT ![h] = [NoClerk EXCEPT !.pc = "append", !.photo = p]]
                             /\ uploaded' = uploaded \union {p} /\ gallery' = gallery
      BY <2>1 DEF UploadPhoto, Take
    <3>2. [NoClerk EXCEPT !.pc = "append", !.photo = p].pc = "append" /\ [NoClerk EXCEPT !.pc = "append", !.photo = p].photo = p
      BY DEF NoClerk
    <3> QED BY <2>0, <3>1, <3>2
  <2>2. CASE AppendPhoto(h)
    <3>1. clerk' = [clerk EXCEPT ![h] = NoClerk] /\ uploaded' = uploaded /\ gallery' \subseteq gallery \union {clerk[h].photo} /\ clerk[h].pc = "append"
      BY <2>2 DEF AppendPhoto, Served, AtDesk
    <3> QED BY <2>0, <3>1, NoClerkTyped
  <2>3. CASE ReadGallery(h)
    <3>1. PICK p \in gallery : clerk' = [clerk EXCEPT ![h] = [NoClerk EXCEPT !.pc = "dropPhoto", !.photo = p, !.seen = gallery]]
      BY <2>3 DEF ReadGallery, Take
    <3>2. LET c == [NoClerk EXCEPT !.pc = "dropPhoto", !.photo = p, !.seen = gallery] IN c.pc = "dropPhoto" /\ c.seen = gallery
      BY DEF NoClerk
    <3>3. uploaded' = uploaded /\ gallery' = gallery
      BY <2>3 DEF ReadGallery, profile, photos
    <3> QED BY <2>0, <3>1, <3>2, <3>3
  <2>4. CASE DropPhoto(h)
    <3>1. /\ clerk[h].pc = "dropPhoto" /\ gallery' = clerk[h].seen \ {clerk[h].photo} /\ uploaded' = uploaded
          /\ clerk' = [clerk EXCEPT ![h] = [clerk[h] EXCEPT !.pc = "deleteFile"]]
      BY <2>4 DEF DropPhoto, AtDesk
    <3>2. [clerk[h] EXCEPT !.pc = "deleteFile"].pc = "deleteFile"
      BY DEF ClerkJob
    <3> QED BY <2>0, <3>1, <3>2
  <2>5. CASE DeletePhoto(h)
    <3>1. clerk' = [clerk EXCEPT ![h] = NoClerk] /\ uploaded' = uploaded /\ gallery' = gallery
      BY <2>5 DEF DeletePhoto, Served
    <3> QED BY <2>0, <3>1, NoClerkTyped
  <2> QED BY <1>6, <2>1, <2>2, <2>3, <2>4, <2>5 DEF PhotoWork
<1>7. CASE OwnersWork
  <2>1. team' \subseteq Stylists
    BY <1>7 DEF OwnersWork, BookService, DeactivatePackage, SetStaff, RemoveStaff, DayBegins, RemoveClient, SignUpWithPolicies, SaveBookingRules, records
  <2> QED BY <1>7, <2>1, OwnersMoves
<1>8. CASE UNCHANGED deskVars
  BY <1>8 DEF deskVars
<1> QED BY <1>2, <1>3, <1>4, <1>5, <1>6, <1>7, <1>8, DeskSteps

LEMMA AloneStep ==
  ASSUME DeskTyped, Alone, NEW h \in Clerks, NEW steps, DeskMoves(h, steps)
  PROVE  Alone' /\ (~busy' => ~busy /\ \A k \in Clerks \ {h} : clerk[k].pc = "idle" /\ clerk'[k].pc = "idle")
<1>1. PICK c \in ClerkJob : clerk' = [clerk EXCEPT ![h] = c]
  BY DEF DeskMoves
<1>2. clerk'[h] = c /\ \A k \in Clerks \ {h} : clerk'[k] = clerk[k]
  BY <1>1 DEF DeskTyped
<1>3. busy \in BOOLEAN
  BY DEF DeskTyped
<1>4. ASSUME ~busy' PROVE ~busy /\ \A k \in Clerks \ {h} : clerk[k].pc = "idle"
  <2>1. CASE clerk[h].pc = "idle"
    BY <1>3, <1>4, <2>1 DEF DeskMoves
  <2>2. CASE clerk[h].pc # "idle"
    BY <1>3, <1>4, <2>2 DEF DeskMoves, Alone
  <2> QED BY <2>1, <2>2
<1> QED BY <1>2, <1>4 DEF Alone

LEMMA DeskMovesInSteps ==
  ASSUME DeskTyped, NEW h \in Clerks, ServiceWork(h) \/ MailWork(h) \/ WaitWork(h) \/ ClientWork(h) \/ PhotoWork(h)
  PROVE  \E steps : DeskMoves(h, steps)
<1>1. CASE ServiceWork(h)
  BY <1>1, ServiceMoves
<1>2. CASE MailWork(h)
  BY <1>2, MailMoves
<1>3. CASE WaitWork(h)
  BY <1>3, WaitMoves
<1>4. CASE ClientWork(h)
  BY <1>4, ClientMoves
<1>5. CASE PhotoWork(h)
  BY <1>5, PhotoMoves
<1> QED BY <1>1, <1>2, <1>3, <1>4, <1>5

LEMMA AloneInv == DeskTyped /\ Alone /\ [DeskNext]_deskVars => Alone' /\ (~busy' => ~busy)
<1> SUFFICES ASSUME DeskTyped, Alone, [DeskNext]_deskVars PROVE Alone' /\ (~busy' => ~busy)
  OBVIOUS
<1>1. ASSUME NEW h \in Clerks, ServiceWork(h) \/ MailWork(h) \/ WaitWork(h) \/ ClientWork(h) \/ PhotoWork(h) PROVE Alone' /\ (~busy' => ~busy)
  BY <1>1, AloneStep, DeskMovesInSteps
<1>2. CASE OwnersWork
  <2>1. clerk' = clerk /\ (~busy' => ~busy)
    <3>1. busy \in BOOLEAN
      BY DEF DeskTyped
    <3>2. clerk' = clerk /\ (busy' = busy \/ busy' = (busy \/ \E h \in Clerks : clerk[h].pc # "idle"))
      BY <1>2, OwnersMoves
    <3> QED BY <3>1, <3>2
  <2> QED BY <2>1 DEF Alone
<1>3. CASE UNCHANGED deskVars
  BY <1>3 DEF deskVars, Alone
<1> QED BY <1>1, <1>2, <1>3, DeskSteps

ServiceInv ==
  /\ service \in [Services -> {"none", "listed", "deleted"}] /\ packaged \in [Services -> {"none", "onSale", "offSale"}]
  /\ \A h \in Clerks : clerk[h].pc \in ServiceSteps => clerk[h].of \in Services
  /\ \A d \in does : d[2] \in Services /\ service[d[2]] = "listed"
  /\ ~busy => lostOnes = {}
  /\ ~busy => \A h \in Clerks : clerk[h].pc = "delete" => clerk[h].of \notin booked /\ packaged[clerk[h].of] = "none"

\* What a step on something else leaves as it was.
LEMMA ServiceAside ==
  ASSUME DeskTyped, Alone, ServiceInv, UNCHANGED records, ~busy' => ~busy,
         clerk' = clerk \/ \E h \in Clerks, c \in ClerkJob : c.pc \notin ServiceSteps /\ clerk' = [clerk EXCEPT ![h] = c]
  PROVE  ServiceInv'
<1>1. UNCHANGED <<service, packaged, does, lostOnes, booked>>
  BY DEF records
<1>2. \A h \in Clerks : clerk'[h].pc \in ServiceSteps => clerk'[h] = clerk[h]
  BY DEF DeskTyped
<1>3. "delete" \in ServiceSteps
  BY DEF ServiceSteps
<1> QED BY <1>1, <1>2, <1>3 DEF ServiceInv

LEMMA ServiceStep == DeskTyped /\ Alone /\ ServiceInv /\ [DeskNext]_deskVars => ServiceInv'
<1> SUFFICES ASSUME DeskTyped, Alone, ServiceInv, [DeskNext]_deskVars PROVE ServiceInv'
  OBVIOUS
<1>b. ~busy' => ~busy
  BY AloneInv
<1>1. ASSUME NEW h \in Clerks, NEW steps \in {MailSteps, WaitSteps, ClientSteps, PhotoSteps}, DeskMoves(h, steps), UNCHANGED records PROVE ServiceInv'
  <2>1. PICK c \in ClerkJob : c.pc \in steps \union {"idle"} /\ clerk' = [clerk EXCEPT ![h] = c]
    BY <1>1 DEF DeskMoves
  <2>2. c.pc \notin ServiceSteps
    BY <2>1 DEF ServiceSteps, MailSteps, WaitSteps, ClientSteps, PhotoSteps
  <2> QED BY <1>1, <1>b, <2>1, <2>2, ServiceAside
<1>2. ASSUME NEW h \in Clerks, MailWork(h) PROVE ServiceInv'
  BY <1>1, <1>2, MailMoves
<1>3. ASSUME NEW h \in Clerks, WaitWork(h) PROVE ServiceInv'
  BY <1>1, <1>3, WaitMoves
<1>4. ASSUME NEW h \in Clerks, ClientWork(h) PROVE ServiceInv'
  BY <1>1, <1>4, ClientMoves
<1>5. ASSUME NEW h \in Clerks, PhotoWork(h) PROVE ServiceInv'
  BY <1>1, <1>5, PhotoMoves
<1>6. ASSUME NEW h \in Clerks, ServiceWork(h) PROVE ServiceInv'
  <2>0. ~busy' => \A k \in Clerks \ {h} : clerk'[k].pc = "idle"
    BY <1>6, ServiceMoves, AloneStep
  <2>1. ASSUME NEW v \in Services, NEW step \in ServiceSteps, NEW who, Serve(h, step, v, who, 0), UNCHANGED records,
               step = "delete" => v \notin booked /\ packaged[v] = "none"
        PROVE ServiceInv'
    <3>1. PICK c : clerk' = [clerk EXCEPT ![h] = c] /\ c.pc = step /\ c.of = v
      <4>1. LET c == [NoClerk EXCEPT !.pc = step, !.of = v, !.team = who, !.count = 0] IN c.pc = step /\ c.of = v
        BY DEF NoClerk
      <4> QED BY <2>1, <4>1 DEF Serve, Take
    <3>2. clerk'[h].pc = step /\ clerk'[h].of = v /\ \A k \in Clerks \ {h} : clerk'[k] = clerk[k]
      BY <3>1 DEF DeskTyped
    <3>3. UNCHANGED <<service, packaged, does, lostOnes, booked>>
      BY <2>1 DEF records
    <3> QED BY <1>b, <2>0, <2>1, <3>2, <3>3 DEF ServiceInv
  <2>2. CASE CheckService(h)
    BY <2>1, <2>2 DEF CheckService, ServiceSteps
  <2>3. CASE CheckDeletion(h)
    BY <2>1, <2>3 DEF CheckDeletion, Listed, ServiceSteps
  <2>4. CASE CheckPackage(h)
    BY <2>1, <2>4 DEF CheckPackage, Listed, ServiceSteps
  \* The request is answered; what is left of it is its effect.
  <2>5. ASSUME Served(h), service' \in [Services -> {"none", "listed", "deleted"}], packaged' \in [Services -> {"none", "onSale", "offSale"}],
               \A d \in does' : d[2] \in Services /\ service'[d[2]] = "listed",
               ~busy => lostOnes' = {}
        PROVE ServiceInv'
    <3>1. clerk'[h].pc = "idle" /\ \A k \in Clerks \ {h} : clerk'[k] = clerk[k]
      BY <2>5, NoClerkTyped DEF Served, DeskTyped
    <3>2. "idle" \notin ServiceSteps /\ "delete" \in ServiceSteps
      BY DEF ServiceSteps
    <3> QED BY <1>b, <2>0, <2>5, <3>1, <3>2 DEF ServiceInv
  <2>6. CASE SaveService(h)
    <3>1. clerk[h].of \in Services
      BY <2>6 DEF SaveService, AtDesk, ServiceInv, ServiceSteps
    <3>2. \A d \in does' : d[2] \in Services /\ service'[d[2]] = "listed"
      <4>1. CASE service[clerk[h].of] = "deleted"
        BY <2>6, <4>1 DEF SaveService, ServiceInv
      <4>2. CASE service[clerk[h].of] # "deleted"
        <5>1. PICK kept \in SUBSET (IF busy THEN does \ OthersDo(clerk[h].of) ELSE {}) :
                 /\ service' = [service EXCEPT ![clerk[h].of] = "listed"]
                 /\ does' = OthersDo(clerk[h].of) \union kept \union (clerk[h].team \X {clerk[h].of})
          BY <2>6, <4>2 DEF SaveService
        <5> QED BY <3>1, <5>1 DEF ServiceInv, OthersDo
      <4> QED BY <4>1, <4>2
    <3>3. service' \in [Services -> {"none", "listed", "deleted"}] /\ UNCHANGED <<packaged, lostOnes>> /\ Served(h)
      BY <2>6 DEF SaveService, ServiceInv
    <3> QED BY <2>5, <3>2, <3>3 DEF ServiceInv
  <2>7. CASE DeleteService(h)
    <3>1. clerk[h].of \in Services /\ clerk[h].pc = "delete"
      BY <2>7 DEF DeleteService, AtDesk, ServiceInv, ServiceSteps
    <3>2. service' = [service EXCEPT ![clerk[h].of] = "deleted"] /\ does' = OthersDo(clerk[h].of)
          /\ packaged' = [packaged EXCEPT ![clerk[h].of] = "none"] /\ Served(h)
      BY <2>7 DEF DeleteService
    <3>3. \A d \in does' : d[2] \in Services /\ service'[d[2]] = "listed"
      BY <3>1, <3>2 DEF ServiceInv, OthersDo
    <3>4. ~busy => lostOnes' = {}
      BY <2>7, <3>1 DEF DeleteService, ServiceInv
    <3>5. service' \in [Services -> {"none", "listed", "deleted"}] /\ packaged' \in [Services -> {"none", "onSale", "offSale"}]
      BY <3>2 DEF ServiceInv
    <3> QED BY <2>5, <3>2, <3>3, <3>4, <3>5
  <2>8. CASE CreatePackage(h)
    <3>1. packaged' \in [Services -> {"none", "onSale", "offSale"}] /\ UNCHANGED <<service, does, lostOnes>> /\ Served(h)
      BY <2>8 DEF CreatePackage, ServiceInv
    <3> QED BY <2>5, <3>1 DEF ServiceInv
  <2> QED BY <1>6, <2>2, <2>3, <2>4, <2>6, <2>7, <2>8 DEF ServiceWork
<1>7. CASE BookService
  <2>1. /\ clerk' = clerk /\ busy' = (busy \/ \E h \in Clerks : clerk[h].pc # "idle")
        /\ UNCHANGED <<service, does, packaged, lostOnes>>
    BY <1>7 DEF BookService, AtDesk
  <2> QED BY <1>b, <2>1 DEF ServiceInv
<1>8. CASE DeactivatePackage
  <2>1. PICK v \in Services : packaged[v] = "onSale" /\ packaged' = [packaged EXCEPT ![v] = "offSale"]
    BY <1>8 DEF DeactivatePackage
  <2>2. UNCHANGED <<clerk, busy, service, does, lostOnes, booked>>
    BY <1>8 DEF DeactivatePackage
  <2> QED BY <2>1, <2>2 DEF ServiceInv
<1>9. CASE SetStaff
  <2>1. \A d \in does' : d[2] \in Services /\ service[d[2]] = "listed"
    BY <1>9 DEF SetStaff, OtherServices, Listed, ServiceInv
  <2> QED BY <1>9, <2>1 DEF SetStaff, ServiceInv
<1>10. CASE RemoveStaff
  BY <1>10 DEF RemoveStaff, ServiceInv
<1>11. CASE DayBegins \/ RemoveClient \/ SignUpWithPolicies \/ SaveBookingRules
  <2>1. UNCHANGED records /\ clerk' = clerk
    BY <1>11 DEF DayBegins, RemoveClient, SignUpWithPolicies, SaveBookingRules
  <2> QED BY <1>b, <2>1, ServiceAside
<1>12. CASE UNCHANGED deskVars
  <2>1. UNCHANGED records /\ clerk' = clerk
    BY <1>12 DEF deskVars, records
  <2> QED BY <1>b, <2>1, ServiceAside
<1> QED BY <1>2, <1>3, <1>4, <1>5, <1>6, <1>7, <1>8, <1>9, <1>10, <1>11, <1>12, DeskSteps DEF OwnersWork

\* A request's emails, as a set with one member each.
Emailing(step) == {e \in Clerks \X Nat : clerk[e[1]].pc = step /\ e[2] \in 1..clerk[e[1]].count}

\* What is sent, under way and not given back was counted before, but for what
\* was given back twice.
MailInv ==
  /\ used \in Int /\ sentToday \in Nat /\ twice \in Nat
  /\ IsFiniteSet(Emailing("send")) /\ IsFiniteSet(Emailing("giveBack"))
  /\ sentToday + Cardinality(Emailing("send")) <= Quota + twice
  /\ sentToday + Cardinality(Emailing("send")) + Cardinality(Emailing("giveBack")) <= used + twice

LEMMA EmailsOfOne ==
  ASSUME NEW h \in Clerks, NEW n \in Nat
  PROVE  IsFiniteSet({h} \X (1..n)) /\ Cardinality({h} \X (1..n)) = n
<1>1. IsFiniteSet(1..n) /\ Cardinality(1..n) = n
  BY FS_Interval
<1>2. IsFiniteSet({h}) /\ Cardinality({h}) = 1
  BY FS_Singleton
<1>3. Cardinality({h} \X (1..n)) = 1 * n
  BY <1>1, <1>2, FS_Product
<1>4. IsFiniteSet({h} \X (1..n))
  BY <1>1, <1>2, FS_Product
<1> QED BY <1>3, <1>4

\* The emails of a request come to those under way, or leave them.
LEMMA EmailsJoin ==
  ASSUME DeskTyped, NEW step \in MailSteps, IsFiniteSet(Emailing(step)), NEW h \in Clerks, clerk[h].pc \notin MailSteps,
         NEW c \in ClerkJob, c.pc = step, clerk' = [clerk EXCEPT ![h] = c]
  PROVE  IsFiniteSet(Emailing(step)') /\ Cardinality(Emailing(step)') = Cardinality(Emailing(step)) + c.count
<1>1. c.count \in Nat /\ clerk'[h] = c /\ \A k \in Clerks \ {h} : clerk'[k] = clerk[k]
  BY DEF DeskTyped, ClerkJob
<1>2. Emailing(step)' = Emailing(step) \union ({h} \X (1..c.count))
  <2>1. \A e \in Clerks \X Nat : e \in Emailing(step)' <=> e \in Emailing(step) \/ (e[1] = h /\ e[2] \in 1..c.count)
    BY <1>1 DEF Emailing
  <2> QED BY <1>1, <2>1 DEF Emailing
<1>3. Emailing(step) \intersect ({h} \X (1..c.count)) = {}
  BY DEF Emailing
<1>4. Cardinality(Emailing(step)) \in Nat
  BY FS_CardinalityType
<1>5. IsFiniteSet({h} \X (1..c.count)) /\ Cardinality({h} \X (1..c.count)) = c.count
  BY <1>1, EmailsOfOne
<1>6. /\ IsFiniteSet(Emailing(step) \union ({h} \X (1..c.count)))
      /\ Cardinality(Emailing(step) \union ({h} \X (1..c.count))) = Cardinality(Emailing(step)) + c.count - Cardinality({})
  BY <1>3, <1>5, FS_Union
<1> QED BY <1>1, <1>2, <1>4, <1>6, FS_EmptySet

LEMMA EmailsLeave ==
  ASSUME DeskTyped, NEW step \in MailSteps, IsFiniteSet(Emailing(step)), NEW h \in Clerks, clerk[h].pc = step,
         NEW c, c.pc # step, clerk' = [clerk EXCEPT ![h] = c]
  PROVE  /\ clerk[h].count \in Nat /\ IsFiniteSet(Emailing(step)')
         /\ Cardinality(Emailing(step)') = Cardinality(Emailing(step)) - clerk[h].count
<1>1. clerk[h].count \in Nat /\ clerk'[h] = c /\ \A k \in Clerks \ {h} : clerk'[k] = clerk[k]
  BY DEF DeskTyped, ClerkJob
<1>2. PICK n \in Nat : n = clerk[h].count
  BY <1>1
<1>3. Emailing(step)' = Emailing(step) \ ({h} \X (1..n))
  <2>1. \A e \in Clerks \X Nat : e \in Emailing(step)' <=> e \in Emailing(step) /\ ~(e[1] = h /\ e[2] \in 1..n)
    BY <1>1, <1>2 DEF Emailing
  <2> QED BY <2>1 DEF Emailing
<1>4. Emailing(step) \intersect ({h} \X (1..n)) = {h} \X (1..n)
  BY <1>2 DEF Emailing
<1>5. Cardinality({h} \X (1..n)) = n
  BY EmailsOfOne
<1>6. IsFiniteSet(Emailing(step) \ ({h} \X (1..n)))
      /\ Cardinality(Emailing(step) \ ({h} \X (1..n))) = Cardinality(Emailing(step)) - Cardinality({h} \X (1..n))
  <2> DEFINE S == Emailing(step)
             T == {h} \X (1..n)
  <2>1. IsFiniteSet(S)
    OBVIOUS
  <2>2. S \intersect T = T
    BY <1>4
  <2> HIDE DEF S, T
  <2>3. IsFiniteSet(S \ T) /\ Cardinality(S \ T) = Cardinality(S) - Cardinality(S \intersect T)
    BY <2>1, FS_Difference
  <2>4. IsFiniteSet(S \ T) /\ Cardinality(S \ T) = Cardinality(S) - Cardinality(T)
    BY ONLY <2>2, <2>3
  <2> QED BY <2>4 DEF S, T
<1> QED BY <1>1, <1>2, <1>3, <1>5, <1>6

LEMMA EmailsStay ==
  ASSUME DeskTyped, NEW step, NEW h \in Clerks, clerk[h].pc # step, NEW c, c.pc # step, clerk' = [clerk EXCEPT ![h] = c]
  PROVE  Emailing(step)' = Emailing(step)
<1>1. clerk'[h] = c /\ \A k \in Clerks \ {h} : clerk'[k] = clerk[k]
  BY DEF DeskTyped
<1>2. \A e \in Clerks \X Nat : e \in Emailing(step)' <=> e \in Emailing(step)
  BY <1>1 DEF Emailing
<1> QED BY <1>2 DEF Emailing

LEMMA MailStep == DeskTyped /\ MailInv /\ [DeskNext]_deskVars => MailInv'
<1> SUFFICES ASSUME DeskTyped, MailInv, [DeskNext]_deskVars PROVE MailInv'
  OBVIOUS
<1> USE DeskAssumptions
<1>n. /\ used \in Int /\ sentToday \in Nat /\ twice \in Nat
      /\ IsFiniteSet(Emailing("send")) /\ IsFiniteSet(Emailing("giveBack"))
      /\ Cardinality(Emailing("send")) \in Nat /\ Cardinality(Emailing("giveBack")) \in Nat
      /\ sentToday + Cardinality(Emailing("send")) <= Quota + twice
      /\ sentToday + Cardinality(Emailing("send")) + Cardinality(Emailing("giveBack")) <= used + twice
  BY FS_CardinalityType DEF MailInv
<1>1. ASSUME NEW h \in Clerks, NEW steps \in {ServiceSteps, WaitSteps, ClientSteps, PhotoSteps}, DeskMoves(h, steps), UNCHANGED <<used, sentToday, twice>>
      PROVE MailInv'
  <2>1. PICK c \in ClerkJob : c.pc \in steps \union {"idle"} /\ clerk' = [clerk EXCEPT ![h] = c]
    BY <1>1 DEF DeskMoves
  <2>2. c.pc \notin MailSteps /\ clerk[h].pc \notin MailSteps
    BY <1>1, <2>1 DEF DeskMoves, ServiceSteps, MailSteps, WaitSteps, ClientSteps, PhotoSteps
  <2>3. Emailing("send")' = Emailing("send") /\ Emailing("giveBack")' = Emailing("giveBack")
    BY <2>1, <2>2, EmailsStay DEF MailSteps
  <2> QED BY <1>1, <1>n, <2>3 DEF MailInv
<1>2. ASSUME NEW h \in Clerks, ServiceWork(h) PROVE MailInv'
  BY <1>1, <1>2, ServiceMoves DEF mail
<1>3. ASSUME NEW h \in Clerks, WaitWork(h) PROVE MailInv'
  BY <1>1, <1>3, WaitMoves DEF mail
<1>4. ASSUME NEW h \in Clerks, ClientWork(h) PROVE MailInv'
  BY <1>1, <1>4, ClientMoves
<1>5. ASSUME NEW h \in Clerks, PhotoWork(h) PROVE MailInv'
  BY <1>1, <1>5, PhotoMoves
<1>6. ASSUME NEW h \in Clerks, CountMessages(h) PROVE MailInv'
  <2>1. PICK n \in Recipients : /\ Serve(h, IF used + n > Quota THEN "giveBack" ELSE "send", NoService, {}, n)
                                /\ used' = used + n
    BY <1>6 DEF CountMessages
  <2>2. n \in Nat /\ sentToday' = sentToday /\ twice' = twice
    BY <1>6 DEF CountMessages
  <2>3. PICK step \in MailSteps : /\ step = IF used + n > Quota THEN "giveBack" ELSE "send"
    BY DEF MailSteps
  <2>4. PICK c \in ClerkJob : c.pc = step /\ c.count = n /\ clerk' = [clerk EXCEPT ![h] = c]
    <3>1. LET c == [NoClerk EXCEPT !.pc = step, !.of = NoService, !.team = {}, !.count = n]
          IN c.pc = step /\ c.count = n /\ c \in ClerkJob
      BY <2>2, NoClerkTyped DEF NoClerk, NoContact, ClerkJob, ClientWho
    <3> QED BY <2>1, <2>3, <3>1 DEF Serve, Take
  <2>5. clerk[h].pc = "idle"
    BY <2>1 DEF Serve, Take, AtDesk
  <2>6. "send" \in MailSteps /\ "giveBack" \in MailSteps /\ "idle" \notin MailSteps
    BY DEF MailSteps
  <2>7. CASE step = "send"
    <3>1. IsFiniteSet(Emailing("send")') /\ Cardinality(Emailing("send")') = Cardinality(Emailing("send")) + n
      BY <1>n, <2>4, <2>5, <2>6, <2>7, EmailsJoin
    <3>2. Emailing("giveBack")' = Emailing("giveBack")
      BY <2>4, <2>5, <2>7, EmailsStay
    <3>3. used + n <= Quota
      BY <1>n, <2>2, <2>3, <2>7
    <3> QED BY <1>n, <2>1, <2>2, <3>1, <3>2, <3>3 DEF MailInv
  <2>8. CASE step = "giveBack"
    <3>1. IsFiniteSet(Emailing("giveBack")') /\ Cardinality(Emailing("giveBack")') = Cardinality(Emailing("giveBack")) + n
      BY <1>n, <2>4, <2>5, <2>6, <2>8, EmailsJoin
    <3>2. Emailing("send")' = Emailing("send")
      BY <2>4, <2>5, <2>8, EmailsStay
    <3> QED BY <1>n, <2>1, <2>2, <3>1, <3>2 DEF MailInv
  <2> QED BY <2>3, <2>7, <2>8
<1>7. ASSUME NEW h \in Clerks, SendClientMessage(h) PROVE MailInv'
  <2>1. /\ clerk[h].pc = "send" /\ clerk' = [clerk EXCEPT ![h] = NoClerk] /\ NoClerk.pc = "idle"
        /\ used' = used /\ twice' = twice /\ sentToday' = sentToday + clerk[h].count
    BY <1>7, NoClerkTyped DEF SendClientMessage, Served, AtDesk
  <2>2. /\ clerk[h].count \in Nat /\ IsFiniteSet(Emailing("send")')
        /\ Cardinality(Emailing("send")') = Cardinality(Emailing("send")) - clerk[h].count
    BY <1>n, <2>1, EmailsLeave DEF MailSteps
  <2>3. Emailing("giveBack")' = Emailing("giveBack")
    BY <2>1, EmailsStay
  <2> QED BY <1>n, <2>1, <2>2, <2>3 DEF MailInv
<1>8. ASSUME NEW h \in Clerks, GiveBack(h) PROVE MailInv'
  <2>1. /\ clerk[h].pc = "giveBack" /\ clerk' = [clerk EXCEPT ![h] = NoClerk] /\ NoClerk.pc = "idle"
        /\ sentToday' = sentToday
        /\ \/ used' \in {used, used - clerk[h].count} /\ twice' = twice
           \/ used' = used - 2 * clerk[h].count /\ twice' = twice + clerk[h].count
    BY <1>8, NoClerkTyped DEF GiveBack, Served, AtDesk
  <2>2. /\ clerk[h].count \in Nat /\ IsFiniteSet(Emailing("giveBack")')
        /\ Cardinality(Emailing("giveBack")') = Cardinality(Emailing("giveBack")) - clerk[h].count
    BY <1>n, <2>1, EmailsLeave DEF MailSteps
  <2>3. Emailing("send")' = Emailing("send")
    BY <2>1, EmailsStay
  <2>4. Cardinality(Emailing("giveBack")') \in Nat
    BY <2>2, FS_CardinalityType
  <2> QED BY <1>n, <2>1, <2>2, <2>3, <2>4 DEF MailInv
<1>9. CASE DayBegins
  <2>1. /\ used' = 0 /\ sentToday' = 0 /\ twice' = 0 /\ clerk' = clerk
        /\ \A h \in Clerks : clerk[h].pc # "send" /\ clerk[h].pc # "giveBack"
    BY <1>9 DEF DayBegins, AtDesk
  <2>2. Emailing("send")' = {} /\ Emailing("giveBack")' = {}
    BY <2>1 DEF Emailing
  <2> QED BY <2>1, <2>2, FS_EmptySet DEF MailInv
<1>10. ASSUME UNCHANGED <<used, sentToday, twice, clerk>> PROVE MailInv'
  BY <1>10, <1>n DEF MailInv, Emailing
<1>11. CASE BookService \/ DeactivatePackage \/ SetStaff \/ RemoveStaff
  BY <1>10, <1>11 DEF BookService, DeactivatePackage, SetStaff, RemoveStaff, mail
<1>12. CASE RemoveClient \/ SignUpWithPolicies \/ SaveBookingRules \/ UNCHANGED deskVars
  BY <1>10, <1>12 DEF RemoveClient, SignUpWithPolicies, SaveBookingRules, deskVars
<1> QED BY <1>2, <1>3, <1>4, <1>5, <1>6, <1>7, <1>8, <1>9, <1>11, <1>12, DeskSteps DEF OwnersWork, MailWork

GalleryInv ==
  /\ IsFiniteSet(gallery) /\ Cardinality(gallery) <= MaxGallery
  /\ \A h \in Clerks : clerk[h].pc = "dropPhoto" => IsFiniteSet(clerk[h].seen) /\ Cardinality(clerk[h].seen) <= MaxGallery
  /\ ~busy =>
       /\ gallery \subseteq files
       /\ \A h \in Clerks : /\ clerk[h].pc = "append" => clerk[h].photo \in files /\ clerk[h].photo \notin gallery
                            /\ clerk[h].pc = "dropPhoto" => clerk[h].seen = gallery
                            /\ clerk[h].pc = "deleteFile" => clerk[h].photo \notin gallery

LEMMA GalleryAside ==
  ASSUME DeskTyped, Alone, GalleryInv, UNCHANGED <<gallery, files>>, ~busy' => ~busy,
         clerk' = clerk \/ \E h \in Clerks, c \in ClerkJob : c.pc \notin PhotoSteps /\ clerk' = [clerk EXCEPT ![h] = c]
  PROVE  GalleryInv'
<1>1. \A h \in Clerks : clerk'[h].pc \in PhotoSteps => clerk'[h] = clerk[h]
  BY DEF DeskTyped
<1> QED BY <1>1 DEF GalleryInv, PhotoSteps

LEMMA GalleryStep == DeskTyped /\ Alone /\ GalleryInv /\ [DeskNext]_deskVars => GalleryInv'
<1> SUFFICES ASSUME DeskTyped, Alone, GalleryInv, [DeskNext]_deskVars PROVE GalleryInv'
  OBVIOUS
<1> USE DeskAssumptions
<1>b. ~busy' => ~busy
  BY AloneInv
<1>1. ASSUME NEW h \in Clerks, NEW steps \in {ServiceSteps, MailSteps, WaitSteps, ClientSteps}, DeskMoves(h, steps), UNCHANGED <<gallery, files>>
      PROVE GalleryInv'
  <2>1. PICK c \in ClerkJob : c.pc \in steps \union {"idle"} /\ clerk' = [clerk EXCEPT ![h] = c]
    BY <1>1 DEF DeskMoves
  <2>2. c.pc \notin PhotoSteps
    BY <2>1 DEF ServiceSteps, MailSteps, WaitSteps, ClientSteps, PhotoSteps
  <2> QED BY <1>1, <1>b, <2>1, <2>2, GalleryAside
<1>2. ASSUME NEW h \in Clerks, ServiceWork(h) PROVE GalleryInv'
  BY <1>1, <1>2, ServiceMoves DEF mail, profile, photos
<1>3. ASSUME NEW h \in Clerks, MailWork(h) PROVE GalleryInv'
  BY <1>1, <1>3, MailMoves DEF profile, photos
<1>4. ASSUME NEW h \in Clerks, WaitWork(h) PROVE GalleryInv'
  BY <1>1, <1>4, WaitMoves DEF mail, profile, photos
<1>5. ASSUME NEW h \in Clerks, ClientWork(h) PROVE GalleryInv'
  BY <1>1, <1>5, ClientMoves DEF photos
<1>6. ASSUME NEW h \in Clerks, PhotoWork(h) PROVE GalleryInv'
  <2>0. ~busy' => \A k \in Clerks \ {h} : clerk'[k].pc = "idle"
    BY <1>6, PhotoMoves, AloneStep
  <2>g. Cardinality(gallery) \in Nat
    BY FS_CardinalityType DEF GalleryInv
  \* The others are idle, or the desk is busy and only sizes matter.
  <2>1. ASSUME NEW c, clerk' = [clerk EXCEPT ![h] = c], IsFiniteSet(gallery'), Cardinality(gallery') <= MaxGallery,
               c.pc = "dropPhoto" => IsFiniteSet(c.seen) /\ Cardinality(c.seen) <= MaxGallery,
               ~busy => /\ gallery' \subseteq files'
                        /\ c.pc = "append" => c.photo \in files' /\ c.photo \notin gallery'
                        /\ c.pc = "dropPhoto" => c.seen = gallery'
                        /\ c.pc = "deleteFile" => c.photo \notin gallery'
        PROVE GalleryInv'
    <3>1. clerk'[h] = c /\ \A k \in Clerks \ {h} : clerk'[k] = clerk[k]
      BY <2>1 DEF DeskTyped
    <3> QED BY <1>b, <2>0, <2>1, <3>1 DEF GalleryInv
  <2>f. /\ IsFiniteSet(gallery) /\ Cardinality(gallery) <= MaxGallery
        /\ ~busy => gallery \subseteq files /\ (clerk[h].pc = "dropPhoto" => clerk[h].seen = gallery)
    BY DEF GalleryInv
  <2>d. ASSUME clerk' = [clerk EXCEPT ![h] = NoClerk], IsFiniteSet(gallery'), Cardinality(gallery') <= MaxGallery,
               ~busy => gallery' \subseteq files'
        PROVE GalleryInv'
    <3>1. clerk'[h].pc = "idle" /\ \A k \in Clerks \ {h} : clerk'[k] = clerk[k]
      BY <2>d, NoClerkTyped DEF DeskTyped
    <3> QED BY <1>b, <2>0, <2>d, <3>1 DEF GalleryInv
  <2>2. CASE UploadPhoto(h)
    <3>1. PICK p \in Photos \ uploaded :
             /\ clerk' = [clerk EXCEPT ![h] = [NoClerk EXCEPT !.pc = "append", !.photo = p]]
             /\ files' = files \union {p} /\ gallery' = gallery
      BY <2>2 DEF UploadPhoto, Take
    <3>2. LET c == [NoClerk EXCEPT !.pc = "append", !.photo = p] IN c.pc = "append" /\ c.photo = p
      BY DEF NoClerk
    <3>3. p \notin gallery
      BY DEF DeskTyped
    <3>4. PICK c : c.pc = "append" /\ c.photo = p /\ clerk' = [clerk EXCEPT ![h] = c]
      BY <3>1, <3>2
    <3>5. IsFiniteSet(gallery') /\ Cardinality(gallery') <= MaxGallery /\ (~busy => gallery' \subseteq files')
      BY <2>f, <3>1
    <3> QED BY <2>1, <3>1, <3>3, <3>4, <3>5
  <2>3. CASE AppendPhoto(h)
    <3>1. clerk[h].pc = "append" /\ clerk' = [clerk EXCEPT ![h] = NoClerk]
      BY <2>3 DEF AppendPhoto, Served, AtDesk
    <3>2. CASE Cardinality(gallery) < MaxGallery
      <4>1. gallery' = gallery \union {clerk[h].photo} /\ files' = files
        BY <2>3, <3>2 DEF AppendPhoto
      <4>2. IsFiniteSet(gallery') /\ Cardinality(gallery') <= Cardinality(gallery) + 1
        <5>1. /\ IsFiniteSet(gallery \union {clerk[h].photo})
              /\ Cardinality(gallery \union {clerk[h].photo}) \in {Cardinality(gallery), Cardinality(gallery) + 1}
          BY <2>f, FS_AddElement
        <5> QED BY <2>g, <4>1, <5>1
      <4>3. Cardinality(gallery') \in Nat
        BY <4>2, FS_CardinalityType
      <4>4. Cardinality(gallery') <= MaxGallery
        BY <2>g, <3>2, <4>2, <4>3
      <4>5. ~busy => gallery' \subseteq files'
        BY <3>1, <4>1 DEF GalleryInv
      <4> QED BY <2>d, <3>1, <4>2, <4>4, <4>5
    <3>3. CASE ~(Cardinality(gallery) < MaxGallery)
      <4>1. gallery' = gallery /\ files' = files \ {clerk[h].photo}
        BY <2>3, <3>3 DEF AppendPhoto
      <4>2. IsFiniteSet(gallery') /\ Cardinality(gallery') <= MaxGallery /\ (~busy => gallery' \subseteq files')
        BY <3>1, <4>1 DEF GalleryInv
      <4> QED BY <2>d, <3>1, <4>2
    <3> QED BY <3>2, <3>3
  <2>4. CASE ReadGallery(h)
    <3>1. PICK p \in gallery : clerk' = [clerk EXCEPT ![h] = [NoClerk EXCEPT !.pc = "dropPhoto", !.photo = p, !.seen = gallery]]
      BY <2>4 DEF ReadGallery, Take
    <3>2. LET c == [NoClerk EXCEPT !.pc = "dropPhoto", !.photo = p, !.seen = gallery] IN c.pc = "dropPhoto" /\ c.seen = gallery
      BY DEF NoClerk
    <3>3. files' = files /\ gallery' = gallery
      BY <2>4 DEF ReadGallery, profile, photos
    <3>4. PICK c : c.pc = "dropPhoto" /\ c.seen = gallery /\ clerk' = [clerk EXCEPT ![h] = c]
      BY <3>1, <3>2
    <3> QED BY <2>1, <2>f, <3>3, <3>4
  <2>5. CASE DropPhoto(h)
    <3>1. /\ clerk[h].pc = "dropPhoto" /\ gallery' = clerk[h].seen \ {clerk[h].photo} /\ files' = files
          /\ clerk' = [clerk EXCEPT ![h] = [clerk[h] EXCEPT !.pc = "deleteFile"]]
      BY <2>5 DEF DropPhoto, AtDesk
    <3>2. LET c == [clerk[h] EXCEPT !.pc = "deleteFile"] IN c.pc = "deleteFile" /\ c.photo = clerk[h].photo
      BY DEF DeskTyped, ClerkJob
    <3>3. IsFiniteSet(gallery') /\ Cardinality(gallery') <= Cardinality(clerk[h].seen)
      BY <3>1, FS_Subset DEF GalleryInv
    <3>4. Cardinality(gallery') <= MaxGallery
      BY <3>1, <3>3, FS_CardinalityType DEF GalleryInv
    <3>5. ~busy => gallery' \subseteq files'
      BY <2>f, <3>1
    <3>6. PICK c : c.pc = "deleteFile" /\ c.photo = clerk[h].photo /\ clerk' = [clerk EXCEPT ![h] = c]
      BY <3>1, <3>2
    <3>7. c.photo \notin gallery'
      BY <3>1, <3>6
    <3> QED BY <2>1, <3>3, <3>4, <3>5, <3>6, <3>7
  <2>6. CASE DeletePhoto(h)
    <3>1. clerk[h].pc = "deleteFile" /\ clerk' = [clerk EXCEPT ![h] = NoClerk] /\ gallery' = gallery /\ files' = files \ {clerk[h].photo}
      BY <2>6 DEF DeletePhoto, Served, AtDesk
    <3>2. IsFiniteSet(gallery') /\ Cardinality(gallery') <= MaxGallery /\ (~busy => gallery' \subseteq files')
      BY <3>1 DEF GalleryInv
    <3> QED BY <2>d, <3>1, <3>2
  <2> QED BY <1>6, <2>2, <2>3, <2>4, <2>5, <2>6 DEF PhotoWork
<1>7. CASE OwnersWork
  BY <1>7, <1>b, OwnersMoves, GalleryAside
<1>8. CASE UNCHANGED deskVars
  BY <1>8, <1>b, GalleryAside DEF deskVars
<1> QED BY <1>2, <1>3, <1>4, <1>5, <1>6, <1>7, <1>8, DeskSteps

\* An email is one client's; a request that adds or saves one has an email.
ClientInv ==
  /\ contact \in [Records -> ClientWho]
  /\ \A h \in Clerks : clerk[h].pc \in ClientSteps => clerk[h].who.email \in Emails
  /\ \A c, d \in Records : contact[c].email = contact[d].email /\ contact[c].email # NoEmail => c = d

LEMMA ClientAside ==
  ASSUME DeskTyped, ClientInv, UNCHANGED contact,
         clerk' = clerk \/ \E h \in Clerks, c \in ClerkJob : c.pc \notin ClientSteps /\ clerk' = [clerk EXCEPT ![h] = c]
  PROVE  ClientInv'
BY DEF DeskTyped, ClientInv

LEMMA ClientStep == DeskTyped /\ ClientInv /\ [DeskNext]_deskVars => ClientInv'
<1> SUFFICES ASSUME DeskTyped, ClientInv, [DeskNext]_deskVars PROVE ClientInv'
  OBVIOUS
<1> USE DeskAssumptions
<1>1. ASSUME NEW h \in Clerks, NEW steps \in {ServiceSteps, MailSteps, WaitSteps, PhotoSteps}, DeskMoves(h, steps), UNCHANGED contact
      PROVE ClientInv'
  <2>1. PICK c \in ClerkJob : c.pc \in steps \union {"idle"} /\ clerk' = [clerk EXCEPT ![h] = c]
    BY <1>1 DEF DeskMoves
  <2>2. c.pc \notin ClientSteps
    BY <2>1 DEF ServiceSteps, MailSteps, WaitSteps, ClientSteps, PhotoSteps
  <2> QED BY <1>1, <2>1, <2>2, ClientAside
<1>2. ASSUME NEW h \in Clerks, ServiceWork(h) PROVE ClientInv'
  BY <1>1, <1>2, ServiceMoves DEF mail, profile
<1>3. ASSUME NEW h \in Clerks, MailWork(h) PROVE ClientInv'
  BY <1>1, <1>3, MailMoves DEF profile
<1>4. ASSUME NEW h \in Clerks, WaitWork(h) PROVE ClientInv'
  BY <1>1, <1>4, WaitMoves DEF mail, profile
<1>5. ASSUME NEW h \in Clerks, PhotoWork(h) PROVE ClientInv'
  BY <1>1, <1>5, PhotoMoves
<1>6. ASSUME NEW h \in Clerks, CheckClient(h) PROVE ClientInv'
  <2>1. ASSUME NEW x, NEW e \in Emails, Take(h, x), x.who.email = e PROVE ClientInv'
    BY <1>6, <2>1 DEF Take, CheckClient, profile, ClientInv, DeskTyped
  <2>2. ASSUME NEW e \in Emails, Take(h, [NoClerk EXCEPT !.pc = "addClient", !.who = [email |-> e, active |-> TRUE]]) PROVE ClientInv'
    <3>1. [NoClerk EXCEPT !.pc = "addClient", !.who = [email |-> e, active |-> TRUE]].who.email = e
      BY DEF NoClerk
    <3> QED BY <2>1, <2>2, <3>1
  <2>3. ASSUME NEW e \in Emails, NEW step \in ClientSteps, NEW c \in Records,
               Take(h, [NoClerk EXCEPT !.pc = step, !.id = c, !.who = [email |-> e, active |-> TRUE]])
        PROVE ClientInv'
    <3>1. [NoClerk EXCEPT !.pc = step, !.id = c, !.who = [email |-> e, active |-> TRUE]].who.email = e
      BY DEF NoClerk
    <3> QED BY <2>1, <2>3, <3>1
  <2> QED BY <1>6, <2>2, <2>3 DEF CheckClient, Kept, ClientSteps
\* A request that is answered leaves clients of different emails.
<1>7. ASSUME NEW h \in Clerks, Served(h), contact' \in [Records -> ClientWho],
             \A c, d \in Records : contact'[c].email = contact'[d].email /\ contact'[c].email # NoEmail => c = d
      PROVE ClientInv'
  <2>1. clerk'[h].pc = "idle" /\ \A k \in Clerks \ {h} : clerk'[k] = clerk[k]
    BY <1>7, NoClerkTyped DEF Served, DeskTyped
  <2> QED BY <1>7, <2>1 DEF ClientInv, ClientSteps
<1>8. ASSUME NEW h \in Clerks, AddClient(h) PROVE ClientInv'
  <2>1. Served(h) /\ clerk[h].pc = "addClient" /\ clerk[h].who \in ClientWho
    BY <1>8 DEF AddClient, AtDesk, DeskTyped, ClerkJob
  <2>2. CASE TakenBy(clerk[h].who.email, {})
    BY <1>7, <1>8, <2>1, <2>2 DEF AddClient, ClientInv
  <2>3. CASE ~TakenBy(clerk[h].who.email, {})
    <3>1. PICK c \in Records : contact[c] = NoContact /\ contact' = [contact EXCEPT ![c] = clerk[h].who]
      BY <1>8, <2>3 DEF AddClient
    <3>2. \A d \in Records : contact[d].email # clerk[h].who.email
      BY <2>3 DEF TakenBy, Kept
    <3> QED BY <1>7, <2>1, <3>1, <3>2 DEF ClientInv
  <2> QED BY <2>2, <2>3
<1>9. ASSUME NEW h \in Clerks, SaveClient(h) PROVE ClientInv'
  <2>1. Served(h) /\ clerk[h].who.email \in Emails
    BY <1>9 DEF SaveClient, AtDesk, ClientInv, ClientSteps
  <2>2. CASE TakenBy(clerk[h].who.email, {clerk[h].id})
    BY <1>7, <1>9, <2>1, <2>2 DEF SaveClient, ClientInv
  <2>3. CASE ~TakenBy(clerk[h].who.email, {clerk[h].id})
    <3>1. PICK a \in BOOLEAN : contact' = [contact EXCEPT ![clerk[h].id] = [email |-> clerk[h].who.email, active |-> a]]
      <4>1. contact' = [contact EXCEPT ![clerk[h].id] = [email |-> clerk[h].who.email, active |-> contact[clerk[h].id].active \/ AtDesk(h, "bringBack")]]
        BY <1>9, <2>3 DEF SaveClient
      <4>2. (contact[clerk[h].id].active \/ AtDesk(h, "bringBack")) \in BOOLEAN
        BY DEF AtDesk
      <4> QED BY <4>1, <4>2
    <3>2. \A d \in Records : contact[d].email = clerk[h].who.email => d = clerk[h].id
      BY <2>3 DEF TakenBy, Kept
    <3>3. CASE clerk[h].id \in Records
      <4>1. [email |-> clerk[h].who.email, active |-> a] \in ClientWho
        BY <2>1 DEF ClientWho
      <4> QED BY <1>7, <2>1, <3>1, <3>2, <3>3, <4>1 DEF ClientInv
    <3>4. CASE clerk[h].id \notin Records
      <4>1. contact' = contact
        BY <1>9, <2>3, <3>4 DEF SaveClient, ClientInv
      <4> QED BY <1>7, <2>1, <4>1 DEF ClientInv
    <3> QED BY <3>3, <3>4
  <2> QED BY <2>2, <2>3
<1>10. CASE RemoveClient
  <2>1. PICK c \in Records : contact' = [contact EXCEPT ![c].active = FALSE]
    BY <1>10 DEF RemoveClient
  <2>2. contact' \in [Records -> ClientWho] /\ \A d \in Records : contact'[d].email = contact[d].email
    BY <2>1 DEF ClientInv, ClientWho
  <2> QED BY <1>10, <2>2 DEF RemoveClient, ClientInv
<1>11. CASE BookService \/ DeactivatePackage \/ SetStaff \/ RemoveStaff \/ DayBegins \/ SignUpWithPolicies \/ SaveBookingRules
  <2>1. contact' = contact /\ clerk' = clerk
    BY <1>11, OwnersMoves DEF BookService, DeactivatePackage, SetStaff, RemoveStaff, DayBegins, SignUpWithPolicies, SaveBookingRules, OwnersWork, mail, profile
  <2> QED BY <2>1, ClientAside
<1>12. CASE UNCHANGED deskVars
  BY <1>12, ClientAside DEF deskVars
<1> QED BY <1>2, <1>3, <1>4, <1>5, <1>6, <1>8, <1>9, <1>10, <1>11, <1>12, DeskSteps DEF OwnersWork, ClientWork

\* Rounded up to hours, a lead time is no shorter.
RulesInv ==
  /\ rules \in [policy : Leads \union {NoLead}, setting : Nat, saved : Leads \union {NoLead}]
  /\ rules.saved <= LeadInForce

LEMMA HoursCover == ASSUME NEW lead \in Nat PROVE 60 * HoursOf(lead) \in Nat /\ lead <= 60 * HoursOf(lead)
BY DEF HoursOf

LEMMA RulesStep == RulesInv /\ [DeskNext]_deskVars => RulesInv'
<1> SUFFICES ASSUME RulesInv, [DeskNext]_deskVars PROVE RulesInv'
  OBVIOUS
<1>1. CASE UNCHANGED rules
  BY <1>1 DEF RulesInv, LeadInForce
<1>2. ASSUME SignUpWithPolicies PROVE RulesInv'
  <2>1. PICK lead \in Leads : rules' = [rules EXCEPT !.policy = lead]
    BY <1>2 DEF SignUpWithPolicies
  <2>2. rules.saved = NoLead /\ lead \in Nat
    BY <1>2, DeskAssumptions DEF SignUpWithPolicies
  <2>3. rules'.policy = lead /\ rules'.saved = NoLead /\ rules' \in [policy : Leads \union {NoLead}, setting : Nat, saved : Leads \union {NoLead}]
    BY <2>1, <2>2 DEF RulesInv
  <2> QED BY <2>2, <2>3 DEF RulesInv, LeadInForce, NoLead
<1>3. ASSUME SaveBookingRules PROVE RulesInv'
  <2>1. PICK lead \in Leads :
           rules' = [policy |-> IF rules.policy = NoLead THEN NoLead ELSE lead, setting |-> 60 * HoursOf(lead), saved |-> lead]
    BY <1>3 DEF SaveBookingRules
  <2>2. 60 * HoursOf(lead) \in Nat /\ lead <= 60 * HoursOf(lead) /\ lead \in Nat
    BY HoursCover, DeskAssumptions
  <2>3. rules' \in [policy : Leads \union {NoLead}, setting : Nat, saved : Leads \union {NoLead}]
    BY <2>1, <2>2
  <2>4. /\ rules'.saved = lead /\ rules'.setting = 60 * HoursOf(lead)
        /\ rules'.policy \in {NoLead, lead}
    BY <2>1
  <2> HIDE DEF HoursOf
  <2>5. rules'.saved <= LeadInForce'
    BY <2>2, <2>4 DEF LeadInForce, NoLead
  <2> QED BY <2>3, <2>5 DEF RulesInv
<1>4. ASSUME NEW h \in Clerks, ServiceWork(h) \/ MailWork(h) \/ WaitWork(h) PROVE rules' = rules
  BY <1>4 DEF ServiceWork, MailWork, WaitWork, CheckService, SaveService, CheckDeletion, DeleteService, CheckPackage, CreatePackage,
     CountMessages, SendClientMessage, GiveBack, CheckWaitlist, JoinWaitlist, SaveDetails, mail, profile
<1>5. ASSUME NEW h \in Clerks, ClientWork(h) \/ PhotoWork(h) PROVE rules' = rules
  BY <1>5 DEF ClientWork, PhotoWork, CheckClient, AddClient, SaveClient, UploadPhoto, AppendPhoto, ReadGallery, DropPhoto, DeletePhoto, profile
<1>6. CASE BookService \/ DeactivatePackage \/ SetStaff \/ RemoveStaff \/ DayBegins \/ RemoveClient
  BY <1>1, <1>6 DEF BookService, DeactivatePackage, SetStaff, RemoveStaff, DayBegins, RemoveClient, mail, profile
<1>7. CASE UNCHANGED deskVars
  BY <1>1, <1>7 DEF deskVars, profile
<1> QED BY <1>1, <1>2, <1>3, <1>4, <1>5, <1>6, <1>7, DeskSteps DEF OwnersWork

DeskInv == DeskTyped /\ Alone /\ ServiceInv /\ MailInv /\ GalleryInv /\ ClientInv /\ RulesInv

\* However requests overlap, a day's emails - but for those given back twice -
\* and the gallery stay in their limits, an email is one client and the lead time in force covers the one
\* last saved; one at a time, nothing booked or sold loses its service and no
\* photo its file (serviceChanges.ts, clientMessages.ts, clientChanges.ts,
\* ownerSettings.ts and the gallery).
THEOREM DeskRecordsKept == OfficeSpec => []SalonRecordsKept
<1>1. OfficeInit => DeskInv
  <2> SUFFICES ASSUME OfficeInit PROVE DeskInv
    OBVIOUS
  <2>1. DeskInit
    BY DEF OfficeInit
  <2>2. \A h \in Clerks : clerk[h] = NoClerk /\ clerk[h].pc = "idle"
    BY <2>1, NoClerkTyped DEF DeskInit
  <2>3. DeskTyped /\ Alone
    BY <2>1, <2>2, NoClerkTyped DEF DeskInit, DeskTyped, Alone
  <2>4. ServiceInv
    <3>1. /\ service \in [Services -> {"none", "listed", "deleted"}] /\ packaged \in [Services -> {"none", "onSale", "offSale"}]
          /\ does = {} /\ lostOnes = {}
      BY <2>1 DEF DeskInit
    <3> QED BY <2>2, <3>1 DEF ServiceInv, ServiceSteps
  <2>5. MailInv
    <3>1. Emailing("send") = {} /\ Emailing("giveBack") = {}
      BY <2>2 DEF Emailing
    <3>2. used = 0 /\ sentToday = 0 /\ twice = 0
      BY <2>1 DEF DeskInit
    <3>3. Cardinality({}) = 0 /\ IsFiniteSet({})
      BY FS_EmptySet
    <3>4. Quota \in Nat
      BY DeskAssumptions
    <3> QED BY <3>1, <3>2, <3>3, <3>4 DEF MailInv
  <2>6. GalleryInv
    BY <2>1, <2>2, FS_EmptySet, DeskAssumptions DEF DeskInit, GalleryInv
  <2>7. ClientInv
    BY <2>1, <2>2, DeskAssumptions DEF DeskInit, ClientInv, ClientWho, ClientSteps, NoContact
  <2>8. RulesInv
    BY <2>1 DEF DeskInit, RulesInv, LeadInForce, NoLead, DefaultLead
  <2> QED BY <2>3, <2>4, <2>5, <2>6, <2>7, <2>8 DEF DeskInv
<1>2. DeskInv /\ [OfficeNext]_officeVars => DeskInv'
  BY DeskTakesItsSteps, DeskTypedStep, AloneInv, ServiceStep, MailStep, GalleryStep, ClientStep, RulesStep DEF DeskInv
<1>3. DeskInv => SalonRecordsKept
  <2> SUFFICES ASSUME DeskInv PROVE SalonRecordsKept
    OBVIOUS
  <2>1. sentToday <= Quota + twice
    BY FS_CardinalityType, DeskAssumptions DEF DeskInv, MailInv
  <2>2. ASSUME NEW e \in Emails PROVE Cardinality(Kept(e)) <= 1
    <3>1. CASE Kept(e) = {}
      BY <3>1, FS_EmptySet
    <3>2. ASSUME NEW c \in Kept(e) PROVE Cardinality(Kept(e)) <= 1
      <4>1. \A d \in Kept(e) : d = c
        BY <3>2, DeskAssumptions DEF Kept, DeskInv, ClientInv
      <4>2. Kept(e) = {c}
        BY <3>2, <4>1
      <4>3. Cardinality({c}) = 1
        BY FS_Singleton
      <4> QED BY <4>2, <4>3
    <3> QED BY <3>1, <3>2
  <2>3. Cardinality(gallery) <= MaxGallery /\ (~busy => gallery \subseteq files)
    BY DEF DeskInv, GalleryInv
  <2>4. rules.saved <= LeadInForce
    BY DEF DeskInv, RulesInv
  <2>5. (\A d \in does : service[d[2]] = "listed") /\ (~busy => lostOnes = {})
    BY DEF DeskInv, ServiceInv
  <2> QED BY <2>1, <2>2, <2>3, <2>4, <2>5 DEF SalonRecordsKept
<1> QED BY <1>1, <1>2, <1>3, PTL DEF OfficeSpec

-----------------------------------------------------------------------------
(* Payout accounts. *)

LEMMA AccountsTakeTheirSteps == [OfficeNext]_officeVars => [AccountNext]_accountVars
BY DEF OfficeNext, ChatStep, LiveStep, AppStep, SyncStep, AccountStep, DeskStep, FeedbackStep, officeVars

CallSteps == {"createAccount", "saveAccount", "retrieve", "apply", "beneficiary", "addBank", "setDefault", "remove", "convert",
              "saveRequest", "lookUp"}
AccountCall ==
  {c \in [pc : CallSteps \union {"idle"}, id : MethodIds \union {0}, account : Accounts \union {0}, enabled : BOOLEAN,
          was : Method, to : {"none", "stripe", "airwallex"}] :
     /\ c.pc \in {"convert", "saveRequest"} => c.id \in MethodIds
     /\ c.pc = "lookUp" => c.to # "none"}

AccountTyped ==
  /\ AccountTypeOK
  /\ call \in [Clients -> AccountCall] /\ crossed \in BOOLEAN

\* A call's step: one that begins while another is under way has crossed it.
CallMoves(h, c) ==
  /\ call' = [call EXCEPT ![h] = c]
  /\ call[h].pc = "idle" => crossed' = (crossed \/ \E k \in Clients : call[k].pc # "idle")
  /\ call[h].pc # "idle" => crossed' = crossed

OneCall == ~crossed => \A h, k \in Clients : call[h].pc # "idle" /\ call[k].pc # "idle" => h = k

Connected(i) == method[i].active /\ method[i].kind \in {"stripe", "airwallex"}
NoneConnected == \A i \in MethodIds : ~Connected(i)

\* The rows, while no call has crossed another.
RowsInOrder ==
  /\ \A i \in MethodIds : Connected(i) => method[i].kind = rail
  /\ \A i, j \in MethodIds : Connected(i) /\ Connected(j) => i = j
  /\ \A i, j \in MethodIds : method[i].default /\ method[j].default => i = j
  /\ \A i \in MethodIds : method[i].kind = "none" => ~method[i].active /\ ~method[i].default
  /\ \A i \in asked : method[i].active /\ method[i].currency # NoCurrency

\* What a call has read still holds.
CallInOrder(c) ==
  /\ c.pc \in {"createAccount", "saveAccount"} => rail = "stripe" /\ NoneConnected
  /\ c.pc = "beneficiary" => rail = "airwallex" /\ NoneConnected
  /\ c.pc = "lookUp" => NoneConnected /\ c.to \in {"stripe", "airwallex"}
  /\ c.pc \in {"retrieve", "apply"} =>
       c.id \in MethodIds /\ method[c.id].kind = "stripe" /\ method[c.id].currency = c.was.currency
  /\ c.pc = "addBank" /\ c.enabled => \A i \in MethodIds : ~method[i].default
  /\ c.pc = "setDefault" => c.id \in MethodIds /\ method[c.id].kind # "none" /\ \A i \in MethodIds : ~method[i].default
  /\ c.pc = "remove" => c.id \in MethodIds \ asked
  /\ c.pc \in {"convert", "saveRequest"} => c.id \in MethodIds /\ method[c.id].active /\ method[c.id].currency # NoCurrency

AccountInv == AccountTyped /\ OneCall /\ (~crossed => RowsInOrder /\ \A h \in Clients : CallInOrder(call[h]))

LEMMA NoCallTyped == NoCall \in AccountCall /\ NoCall.pc = "idle" /\ NoMethod \in Method
BY DEF NoCall, NoMethod, AccountCall, Method

LEMMA IdleInOrder == ASSUME NEW c, c.pc = "idle" PROVE CallInOrder(c)
BY DEF CallInOrder

\* A call that moves is alone, or crosses.
LEMMA CallMovesAlone ==
  ASSUME AccountTyped, OneCall, NEW h \in Clients, NEW c \in AccountCall, CallMoves(h, c)
  PROVE  OneCall' /\ crossed' \in BOOLEAN /\ (~crossed' => ~crossed /\ \A k \in Clients \ {h} : call'[k].pc = "idle")
<1>1. call' \in [Clients -> AccountCall] /\ call'[h] = c /\ \A k \in Clients \ {h} : call'[k] = call[k]
  BY DEF CallMoves, AccountTyped
<1>2. CASE call[h].pc = "idle"
  BY <1>1, <1>2 DEF CallMoves, OneCall, AccountTyped
<1>3. CASE call[h].pc # "idle"
  BY <1>1, <1>3 DEF CallMoves, OneCall, AccountTyped
<1> QED BY <1>2, <1>3

LEMMA CallMovesInOrder ==
  ASSUME AccountInv, NEW h \in Clients, NEW c \in AccountCall, CallMoves(h, c), AccountTypeOK',
         ~crossed => RowsInOrder' /\ CallInOrder(c)'
  PROVE  AccountInv'
<1>1. call' \in [Clients -> AccountCall] /\ call'[h] = c
  BY DEF CallMoves, AccountTyped, AccountInv
<1>2. OneCall' /\ crossed' \in BOOLEAN /\ (~crossed' => ~crossed /\ \A k \in Clients \ {h} : call'[k].pc = "idle")
  BY CallMovesAlone DEF AccountInv
<1>3. \A k \in Clients \ {h} : call'[k].pc = "idle" => CallInOrder(call[k])'
  BY DEF CallInOrder
<1>4. CallInOrder(c)' => CallInOrder(call[h])'
  BY <1>1 DEF CallInOrder
<1> QED BY <1>1, <1>2, <1>3, <1>4 DEF AccountInv, AccountTyped

LEMMA BeginMoves ==
  ASSUME NEW h \in Clients, NEW c, Begin(h, c)
  PROVE  CallMoves(h, c) /\ call[h].pc = "idle"
BY DEF Begin, Calling, CallMoves

LEMMA GoesOnMoves ==
  ASSUME NEW h \in Clients, NEW c, GoOn(h, c), call[h].pc # "idle"
  PROVE  CallMoves(h, c)
BY DEF GoOn, CallMoves

LEMMA EndOfMoves ==
  ASSUME NEW h \in Clients, EndOf(h), call[h].pc # "idle"
  PROVE  CallMoves(h, NoCall) /\ NoCall \in AccountCall /\ NoCall.pc = "idle" /\ CallInOrder(NoCall)'
BY GoesOnMoves, NoCallTyped DEF EndOf, CallInOrder

LEMMA InsertInOrder ==
  ASSUME AccountTypeOK, RowsInOrder, NEW m \in Method, Insert(m), UNCHANGED <<rail, asked>>,
         m.kind # "none", m.active, m.kind \in {"stripe", "airwallex"} => NoneConnected /\ m.kind = rail,
         m.default => \A i \in MethodIds : ~method[i].default
  PROVE  RowsInOrder'
<1>1. NextId \in MethodIds /\ method[NextId].kind = "none"
  BY DEF Insert, HasRoom, NextId
<1>2. PICK n \in MethodIds : method[n].kind = "none" /\ method' = [method EXCEPT ![n] = m]
  BY <1>1 DEF Insert
<1>3. method'[n] = m /\ \A i \in MethodIds \ {n} : method'[i] = method[i]
  BY <1>2 DEF AccountTypeOK
<1>4. ~method[n].active /\ ~method[n].default /\ n \notin asked
  BY <1>2 DEF RowsInOrder
<1>5. \A i \in MethodIds : Connected(i)' => method'[i].kind = rail /\ (\A j \in MethodIds : Connected(j)' => i = j)
  BY <1>3 DEF RowsInOrder, Connected, NoneConnected
<1>6. \A i, j \in MethodIds : method'[i].default /\ method'[j].default => i = j
  BY <1>3 DEF RowsInOrder
<1>7. \A i \in asked : i \in MethodIds \ {n}
  BY <1>4 DEF AccountTypeOK
<1> QED BY <1>3, <1>5, <1>6, <1>7 DEF RowsInOrder

LEMMA InsertTyped ==
  ASSUME AccountTypeOK, NEW m \in Method, Insert(m), UNCHANGED <<rail, account, notices, asked>>
  PROVE  AccountTypeOK'
BY DEF AccountTypeOK, Insert

\* Rows that stay as they were.
LEMMA RowsStay == ASSUME RowsInOrder, UNCHANGED <<rail, method, asked>> PROVE RowsInOrder'
BY DEF RowsInOrder, Connected

LEMMA TypesStay == ASSUME AccountTypeOK, UNCHANGED <<rail, method, account, notices, asked>> PROVE AccountTypeOK'
BY DEF AccountTypeOK

LEMMA CallsStay ==
  ASSUME AccountInv, AccountTypeOK', UNCHANGED <<rail, method, asked, call, crossed>>
  PROVE  AccountInv'
<1>1. AccountTyped' /\ OneCall'
  BY DEF AccountInv, AccountTyped, OneCall
<1>2. ~crossed => RowsInOrder' /\ \A h \in Clients : CallInOrder(call[h])'
  BY RowsStay DEF AccountInv, CallInOrder, NoneConnected, Connected
<1> QED BY <1>1, <1>2 DEF AccountInv

LEMMA NoneActive ==
  /\ Active("stripe") \union Active("airwallex") = {} <=> NoneConnected
  /\ \A kind \in {"stripe", "airwallex"} : RowsInOrder /\ rail = kind /\ Active(kind) = {} => NoneConnected
BY DEF Active, NoneConnected, Connected, RowsInOrder

LEMMA StripeCalls ==
  ASSUME AccountInv, NEW h \in Clients,
         StripeOnboardingLink(h) \/ CreateConnectedAccount(h) \/ SaveConnectedAccount(h) \/ SyncStripeAccount(h) \/ RetrieveAccount(h)
  PROVE  AccountInv'
<1>t. /\ AccountTypeOK /\ call[h] \in AccountCall /\ (~crossed => RowsInOrder /\ CallInOrder(call[h]))
      /\ \A i \in MethodIds : method[i] \in Method
  BY DEF AccountInv, AccountTyped, AccountTypeOK
<1>1. CASE StripeOnboardingLink(h)
  <2>1. PICK c \in AccountCall : c.pc = "createAccount" /\ CallMoves(h, c)
    <3>1. [NoCall EXCEPT !.pc = "createAccount"] \in AccountCall /\ [NoCall EXCEPT !.pc = "createAccount"].pc = "createAccount"
      BY NoCallTyped DEF NoCall, AccountCall, CallSteps
    <3> QED BY <1>1, <3>1, BeginMoves DEF StripeOnboardingLink
  <2>2. rail = "stripe" /\ Active("stripe") = {} /\ UNCHANGED <<rail, method, account, notices, asked>>
    BY <1>1 DEF StripeOnboardingLink
  <2>3. ~crossed => RowsInOrder' /\ CallInOrder(c)'
    BY <1>t, <2>1, <2>2, NoneActive, RowsStay DEF CallInOrder, NoneConnected, Connected
  <2> QED BY <1>t, <2>1, <2>2, <2>3, TypesStay, CallMovesInOrder
<1>2. CASE CreateConnectedAccount(h)
  <2>1. call[h].pc = "createAccount" /\ UNCHANGED <<rail, method, notices, asked>>
    BY <1>2 DEF CreateConnectedAccount, Calling
  <2>2. account' \in [Accounts -> {"none", "started", "enabled"}] /\ AccountTypeOK'
    BY <1>2, <1>t, <2>1 DEF CreateConnectedAccount, AccountTypeOK
  <2>3. CASE EndOf(h)
    BY <1>t, <2>1, <2>2, <2>3, EndOfMoves, RowsStay, CallMovesInOrder
  <2>4. ASSUME NEW a \in Accounts, GoOn(h, [NoCall EXCEPT !.pc = "saveAccount", !.account = a]) PROVE AccountInv'
    <3>1. LET c == [NoCall EXCEPT !.pc = "saveAccount", !.account = a] IN c \in AccountCall /\ c.pc = "saveAccount"
      BY NoCallTyped DEF NoCall, AccountCall, CallSteps
    <3>2. PICK c \in AccountCall : c.pc = "saveAccount" /\ CallMoves(h, c)
      BY <2>1, <2>4, <3>1, GoesOnMoves
    <3>3. ~crossed => RowsInOrder' /\ CallInOrder(c)'
      BY <1>t, <2>1, <3>2, RowsStay DEF CallInOrder, NoneConnected, Connected
    <3> QED BY <2>2, <3>2, <3>3, CallMovesInOrder
  <2> QED BY <1>2, <2>3, <2>4 DEF CreateConnectedAccount
<1>3. CASE SaveConnectedAccount(h)
  <2>1. call[h].pc = "saveAccount" /\ EndOf(h) /\ UNCHANGED <<rail, account, notices, asked>>
    BY <1>3 DEF SaveConnectedAccount, Calling
  <2>2. PICK m \in Method : Insert(m) /\ m.kind = "stripe" /\ m.active /\ ~m.default
    <3>1. LET m == [NoMethod EXCEPT !.kind = "stripe", !.active = TRUE, !.account = call[h].account]
          IN m \in Method /\ m.kind = "stripe" /\ m.active /\ ~m.default
      BY <1>t, NoCallTyped DEF NoMethod, Method, AccountCall
    <3> QED BY <1>3, <3>1 DEF SaveConnectedAccount
  <2>3. ~crossed => RowsInOrder'
    BY <1>t, <2>1, <2>2, InsertInOrder DEF CallInOrder
  <2> QED BY <1>t, <2>1, <2>2, <2>3, InsertTyped, EndOfMoves, CallMovesInOrder
<1>4. CASE SyncStripeAccount(h)
  <2>1. UNCHANGED <<rail, method, account, notices, asked>>
    BY <1>4 DEF SyncStripeAccount
  <2>2. PICK i \in Active("stripe") : Begin(h, [NoCall EXCEPT !.pc = "retrieve", !.id = i, !.account = method[i].account, !.was = method[i]])
    BY <1>4 DEF SyncStripeAccount
  <2>3. i \in MethodIds /\ method[i] \in Method /\ method[i].kind = "stripe" /\ method[i].account \in Accounts \union {0}
    BY <1>t DEF Active, Method
  <2>4. LET c == [NoCall EXCEPT !.pc = "retrieve", !.id = i, !.account = method[i].account, !.was = method[i]]
        IN c \in AccountCall /\ c.pc = "retrieve" /\ c.id = i /\ c.was = method[i]
    BY <2>3, NoCallTyped DEF NoCall, AccountCall, CallSteps
  <2>5. PICK c \in AccountCall : c.pc = "retrieve" /\ c.id = i /\ c.was = method[i] /\ CallMoves(h, c)
    BY <2>2, <2>4, BeginMoves
  <2>6. ~crossed => RowsInOrder' /\ CallInOrder(c)'
    BY <1>t, <2>1, <2>3, <2>5, RowsStay DEF CallInOrder
  <2> QED BY <1>t, <2>1, <2>5, <2>6, TypesStay, CallMovesInOrder
<1>5. CASE RetrieveAccount(h)
  <2>1. UNCHANGED <<rail, method, account, notices, asked>> /\ call[h].pc = "retrieve"
    BY <1>5 DEF RetrieveAccount, Calling
  <2>2. PICK b \in BOOLEAN : GoOn(h, [call[h] EXCEPT !.pc = "apply", !.enabled = b])
    BY <1>5 DEF RetrieveAccount
  <2>3. LET c == [call[h] EXCEPT !.pc = "apply", !.enabled = b]
        IN c \in AccountCall /\ c.pc = "apply" /\ c.id = call[h].id /\ c.was = call[h].was
    BY <1>t DEF AccountCall, CallSteps
  <2>4. PICK c \in AccountCall : c.pc = "apply" /\ c.id = call[h].id /\ c.was = call[h].was /\ CallMoves(h, c)
    BY <2>1, <2>2, <2>3, GoesOnMoves
  <2>5. ~crossed => RowsInOrder' /\ CallInOrder(c)'
    BY <1>t, <2>1, <2>4, RowsStay DEF CallInOrder
  <2> QED BY <1>t, <2>1, <2>4, <2>5, TypesStay, CallMovesInOrder
<1> QED BY <1>1, <1>2, <1>3, <1>4, <1>5

LEMMA StripeEvents ==
  ASSUME AccountInv, NEW h \in Clients, AccountUpdated(h) \/ ApplyStripeAccount(h)
  PROVE  AccountInv'
<1>t. /\ AccountTypeOK /\ call[h] \in AccountCall /\ (~crossed => RowsInOrder /\ CallInOrder(call[h]))
      /\ method \in [MethodIds -> Method]
  BY DEF AccountInv, AccountTyped, AccountTypeOK
<1>1. CASE AccountUpdated(h)
  <2>0. UNCHANGED <<rail, method, account, asked>> /\ notices' \subseteq Accounts \X BOOLEAN
    BY <1>1, <1>t DEF AccountUpdated, AccountTypeOK
  <2>1. CASE UNCHANGED <<call, crossed>>
    <3>1. AccountTypeOK'
      BY <1>t, <2>0 DEF AccountTypeOK
    <3>2. UNCHANGED <<rail, method, asked, call, crossed>>
      BY <2>0, <2>1
    <3> QED BY <3>1, <3>2, CallsStay
  <2>2. ASSUME NEW n \in notices, NEW i \in Active("stripe"),
               Begin(h, [NoCall EXCEPT !.pc = "apply", !.id = i, !.account = n[1], !.enabled = n[2], !.was = method[i]])
        PROVE AccountInv'
    <3>1. i \in MethodIds /\ method[i] \in Method /\ method[i].kind = "stripe" /\ n[1] \in Accounts /\ n[2] \in BOOLEAN
      BY <1>t DEF Active, AccountTypeOK
    <3>2. LET c == [NoCall EXCEPT !.pc = "apply", !.id = i, !.account = n[1], !.enabled = n[2], !.was = method[i]]
          IN c \in AccountCall /\ c.pc = "apply" /\ c.id = i /\ c.was = method[i]
      BY <3>1, NoCallTyped DEF NoCall, AccountCall, CallSteps
    <3>3. PICK c \in AccountCall : c.pc = "apply" /\ c.id = i /\ c.was = method[i] /\ CallMoves(h, c)
      BY <2>2, <3>2, BeginMoves
    <3>4. ~crossed => RowsInOrder' /\ CallInOrder(c)'
      BY <1>t, <2>0, <3>1, <3>3, RowsStay DEF CallInOrder
    <3>5. AccountTypeOK'
      BY <1>t, <2>0 DEF AccountTypeOK
    <3> QED BY <3>3, <3>4, <3>5, CallMovesInOrder
  <2> QED BY <1>1, <2>1, <2>2 DEF AccountUpdated
<1>2. CASE ApplyStripeAccount(h)
  <2> DEFINE c == call[h]
  <2>1. c.pc = "apply" /\ EndOf(h) /\ UNCHANGED <<rail, account, notices, asked>>
    BY <1>2 DEF ApplyStripeAccount, Calling
  <2>2. PICK own \in Currencies \union {NoCurrency} :
          method' = [method EXCEPT ![c.id].enabled = c.enabled,
                                   ![c.id].currency = IF c.was.currency # NoCurrency THEN c.was.currency
                                                      ELSE IF c.enabled THEN own ELSE NoCurrency]
    BY <1>2 DEF ApplyStripeAccount
  <2>3. c.enabled \in BOOLEAN /\ c.was.currency \in Currencies \union {NoCurrency}
    BY <1>t DEF AccountCall, Method
  <2>4. PICK now \in Currencies \union {NoCurrency} :
          /\ method' = [method EXCEPT ![c.id].enabled = c.enabled, ![c.id].currency = now]
          /\ c.was.currency # NoCurrency => now = c.was.currency
    BY <2>2, <2>3
  <2>5. method' \in [MethodIds -> Method]
    BY <1>t, <2>3, <2>4 DEF Method
  <2>6. \A i \in MethodIds : /\ method'[i].kind = method[i].kind /\ method'[i].active = method[i].active
                             /\ method'[i].default = method[i].default
                             /\ (i # c.id => method'[i].currency = method[i].currency)
                             /\ (i = c.id => method'[i].currency = now)
    BY <1>t, <2>4 DEF Method
  <2>7. ASSUME ~crossed PROVE RowsInOrder'
    <3>1. c.id \in MethodIds /\ method[c.id].currency = c.was.currency /\ RowsInOrder
      BY <1>t, <2>1, <2>7 DEF CallInOrder
    <3>2. asked \subseteq MethodIds
      BY <1>t DEF AccountTypeOK
    <3>3. \A i \in asked : method'[i].active /\ method'[i].currency # NoCurrency
      <4>1. TAKE i \in asked
      <4>2. i \in MethodIds /\ method[i].active /\ method[i].currency # NoCurrency
        BY <3>1, <3>2 DEF RowsInOrder
      <4>3. method'[i].active
        BY <2>6, <4>2
      <4>4. CASE i = c.id
        BY <2>4, <2>6, <3>1, <4>2, <4>3, <4>4
      <4>5. CASE i # c.id
        BY <2>6, <4>2, <4>3, <4>5
      <4> QED BY <4>4, <4>5
    <3> QED BY <2>1, <2>6, <3>1, <3>3 DEF RowsInOrder, Connected
  <2>8. AccountTypeOK'
    BY <1>t, <2>1, <2>5 DEF AccountTypeOK
  <2> QED BY <2>1, <2>7, <2>8, EndOfMoves, CallMovesInOrder
<1> QED BY <1>1, <1>2

LEMMA BankCalls ==
  ASSUME AccountInv, NEW h \in Clients, ConnectAirwallex(h) \/ CreateBeneficiary(h) \/ AddBankAccount(h) \/ SaveBankAccount(h)
  PROVE  AccountInv'
<1>t. /\ AccountTypeOK /\ call[h] \in AccountCall /\ (~crossed => RowsInOrder /\ CallInOrder(call[h]))
      /\ method \in [MethodIds -> Method]
  BY DEF AccountInv, AccountTyped, AccountTypeOK
<1>1. CASE ConnectAirwallex(h)
  <2>1. PICK c \in AccountCall : c.pc = "beneficiary" /\ CallMoves(h, c)
    <3>1. [NoCall EXCEPT !.pc = "beneficiary"] \in AccountCall /\ [NoCall EXCEPT !.pc = "beneficiary"].pc = "beneficiary"
      BY NoCallTyped DEF NoCall, AccountCall, CallSteps
    <3> QED BY <1>1, <3>1, BeginMoves DEF ConnectAirwallex
  <2>2. rail = "airwallex" /\ Active("airwallex") = {} /\ UNCHANGED <<rail, method, account, notices, asked>>
    BY <1>1 DEF ConnectAirwallex
  <2>3. ~crossed => RowsInOrder' /\ CallInOrder(c)'
    BY <1>t, <2>1, <2>2, NoneActive, RowsStay DEF CallInOrder, NoneConnected, Connected
  <2> QED BY <1>t, <2>1, <2>2, <2>3, TypesStay, CallMovesInOrder
<1>2. CASE CreateBeneficiary(h)
  <2>1. call[h].pc = "beneficiary" /\ EndOf(h) /\ UNCHANGED <<rail, account, notices, asked>>
    BY <1>2 DEF CreateBeneficiary, Calling
  <2>2. CASE UNCHANGED method
    BY <1>t, <2>1, <2>2, TypesStay, RowsStay, EndOfMoves, CallMovesInOrder
  <2>3. ASSUME NEW own \in Currencies, Insert([NoMethod EXCEPT !.kind = "airwallex", !.active = TRUE, !.currency = own]) PROVE AccountInv'
    <3>1. LET m == [NoMethod EXCEPT !.kind = "airwallex", !.active = TRUE, !.currency = own]
          IN m \in Method /\ m.kind = "airwallex" /\ m.active /\ ~m.default
      BY NoCallTyped DEF NoMethod, Method
    <3>2. PICK m \in Method : Insert(m) /\ m.kind = "airwallex" /\ m.active /\ ~m.default
      BY <2>3, <3>1
    <3>3. ~crossed => RowsInOrder'
      BY <1>t, <2>1, <3>2, InsertInOrder DEF CallInOrder
    <3> QED BY <1>t, <2>1, <3>2, <3>3, InsertTyped, EndOfMoves, CallMovesInOrder
  <2> QED BY <1>2, <2>2, <2>3 DEF CreateBeneficiary
<1>3. CASE AddBankAccount(h)
  <2>1. PICK default \in BOOLEAN :
          /\ Begin(h, [NoCall EXCEPT !.pc = "addBank", !.enabled = default])
          /\ method' = IF default THEN [i \in MethodIds |-> [method[i] EXCEPT !.default = FALSE]] ELSE method
    BY <1>3 DEF AddBankAccount
  <2>2. PICK c \in AccountCall : c.pc = "addBank" /\ c.enabled = default /\ CallMoves(h, c)
    <3>1. LET c == [NoCall EXCEPT !.pc = "addBank", !.enabled = default] IN c \in AccountCall /\ c.pc = "addBank" /\ c.enabled = default
      BY NoCallTyped DEF NoCall, AccountCall, CallSteps
    <3> QED BY <2>1, <3>1, BeginMoves
  <2>3. UNCHANGED <<rail, account, notices, asked>>
    BY <1>3 DEF AddBankAccount
  <2>4. method' \in [MethodIds -> Method] /\ \A i \in MethodIds :
             /\ method'[i].kind = method[i].kind /\ method'[i].active = method[i].active /\ method'[i].currency = method[i].currency
             /\ (method'[i].default => method[i].default) /\ (default => ~method'[i].default)
    BY <1>t, <2>1 DEF Method
  <2>5. AccountTypeOK' /\ asked \subseteq MethodIds
    BY <1>t, <2>3, <2>4 DEF AccountTypeOK
  <2>6. ~crossed => RowsInOrder'
    BY <1>t, <2>3, <2>4, <2>5 DEF RowsInOrder, Connected
  <2>7. CallInOrder(c)'
    BY <2>2, <2>4 DEF CallInOrder
  <2> QED BY <2>2, <2>5, <2>6, <2>7, CallMovesInOrder
<1>4. CASE SaveBankAccount(h)
  <2>1. call[h].pc = "addBank" /\ EndOf(h) /\ UNCHANGED <<rail, account, notices, asked>> /\ call[h].enabled \in BOOLEAN
    BY <1>4, <1>t DEF SaveBankAccount, Calling, AccountCall
  <2>2. PICK own \in Currencies :
          Insert([NoMethod EXCEPT !.kind = "bank", !.active = TRUE, !.default = call[h].enabled, !.currency = own])
    BY <1>4 DEF SaveBankAccount
  <2>3. LET m == [NoMethod EXCEPT !.kind = "bank", !.active = TRUE, !.default = call[h].enabled, !.currency = own]
        IN m \in Method /\ m.kind = "bank" /\ m.active /\ m.default = call[h].enabled
    BY <2>1, NoCallTyped DEF NoMethod, Method
  <2>4. PICK m \in Method : Insert(m) /\ m.kind = "bank" /\ m.active /\ m.default = call[h].enabled
    BY <2>2, <2>3
  <2>5. ~crossed => RowsInOrder'
    BY <1>t, <2>1, <2>4, InsertInOrder DEF CallInOrder
  <2> QED BY <1>t, <2>1, <2>4, <2>5, InsertTyped, EndOfMoves, CallMovesInOrder
<1> QED BY <1>1, <1>2, <1>3, <1>4

LEMMA MethodCalls ==
  ASSUME AccountInv, NEW h \in Clients, SetDefaultMethod(h) \/ SaveDefault(h) \/ RemoveMethod(h) \/ SaveRemoval(h)
  PROVE  AccountInv'
<1>t. /\ AccountTypeOK /\ call[h] \in AccountCall /\ (~crossed => RowsInOrder /\ CallInOrder(call[h]))
      /\ method \in [MethodIds -> Method] /\ asked \subseteq MethodIds
  BY DEF AccountInv, AccountTyped, AccountTypeOK
<1>1. CASE SetDefaultMethod(h)
  <2>1. PICK i \in AllActive :
          /\ Begin(h, [NoCall EXCEPT !.pc = "setDefault", !.id = i])
          /\ method' = [j \in MethodIds |-> [method[j] EXCEPT !.default = FALSE]]
    BY <1>1 DEF SetDefaultMethod
  <2>2. i \in MethodIds /\ method[i].active
    BY DEF AllActive
  <2>3. PICK c \in AccountCall : c.pc = "setDefault" /\ c.id = i /\ CallMoves(h, c)
    <3>1. LET c == [NoCall EXCEPT !.pc = "setDefault", !.id = i] IN c \in AccountCall /\ c.pc = "setDefault" /\ c.id = i
      BY <2>2, NoCallTyped DEF NoCall, AccountCall, CallSteps
    <3> QED BY <2>1, <3>1, BeginMoves
  <2>4. UNCHANGED <<rail, account, notices, asked>>
    BY <1>1 DEF SetDefaultMethod
  <2>5. method' \in [MethodIds -> Method] /\ \A j \in MethodIds :
             /\ method'[j].kind = method[j].kind /\ method'[j].active = method[j].active /\ method'[j].currency = method[j].currency
             /\ ~method'[j].default
    BY <1>t, <2>1 DEF Method
  <2>6. AccountTypeOK'
    BY <1>t, <2>4, <2>5 DEF AccountTypeOK
  <2>7. ~crossed => RowsInOrder'
    BY <1>t, <2>4, <2>5 DEF RowsInOrder, Connected
  <2>8. ~crossed => CallInOrder(c)'
    BY <1>t, <2>2, <2>3, <2>5 DEF CallInOrder, RowsInOrder
  <2> QED BY <2>3, <2>6, <2>7, <2>8, CallMovesInOrder
<1>2. CASE SaveDefault(h)
  <2>1. /\ call[h].pc = "setDefault" /\ EndOf(h) /\ UNCHANGED <<rail, account, notices, asked>>
        /\ method' = [method EXCEPT ![call[h].id].default = TRUE]
    BY <1>2 DEF SaveDefault, Calling
  <2>2. method' \in [MethodIds -> Method] /\ \A j \in MethodIds :
             /\ method'[j].kind = method[j].kind /\ method'[j].active = method[j].active /\ method'[j].currency = method[j].currency
             /\ (j # call[h].id => method'[j].default = method[j].default)
    BY <1>t, <2>1 DEF Method
  <2>3. AccountTypeOK'
    BY <1>t, <2>1, <2>2 DEF AccountTypeOK
  <2>4. ASSUME ~crossed PROVE RowsInOrder'
    <3>1. RowsInOrder /\ call[h].id \in MethodIds /\ method[call[h].id].kind # "none" /\ \A i \in MethodIds : ~method[i].default
      BY <1>t, <2>1, <2>4 DEF CallInOrder
    <3>2. \A i \in MethodIds : method'[i].default => i = call[h].id
      BY <2>2, <3>1
    <3> QED BY <1>t, <2>1, <2>2, <3>1, <3>2 DEF RowsInOrder, Connected
  <2> QED BY <2>1, <2>3, <2>4, EndOfMoves, CallMovesInOrder
<1>3. CASE RemoveMethod(h)
  <2>1. PICK i \in AllActive \ asked : Begin(h, [NoCall EXCEPT !.pc = "remove", !.id = i])
    BY <1>3 DEF RemoveMethod
  <2>2. i \in MethodIds \ asked
    BY DEF AllActive
  <2>3. PICK c \in AccountCall : c.pc = "remove" /\ c.id = i /\ CallMoves(h, c)
    <3>1. LET c == [NoCall EXCEPT !.pc = "remove", !.id = i] IN c \in AccountCall /\ c.pc = "remove" /\ c.id = i
      BY <2>2, NoCallTyped DEF NoCall, AccountCall, CallSteps
    <3> QED BY <2>1, <3>1, BeginMoves
  <2>4. UNCHANGED <<rail, method, account, notices, asked>>
    BY <1>3 DEF RemoveMethod
  <2>5. CallInOrder(c)'
    BY <2>2, <2>3, <2>4 DEF CallInOrder
  <2> QED BY <1>t, <2>3, <2>4, <2>5, TypesStay, RowsStay, CallMovesInOrder
<1>4. CASE SaveRemoval(h)
  <2>1. /\ call[h].pc = "remove" /\ EndOf(h) /\ UNCHANGED <<rail, account, notices, asked>>
        /\ method' = [method EXCEPT ![call[h].id].active = FALSE, ![call[h].id].default = FALSE]
    BY <1>4 DEF SaveRemoval, Calling
  <2>2. method' \in [MethodIds -> Method] /\ \A j \in MethodIds :
             /\ method'[j].kind = method[j].kind /\ method'[j].currency = method[j].currency
             /\ (method'[j].active => method[j].active) /\ (method'[j].default => method[j].default)
             /\ (j # call[h].id => method'[j].active = method[j].active)
    <3>1. \A j \in MethodIds : method'[j] = IF j = call[h].id THEN [method[j] EXCEPT !.active = FALSE, !.default = FALSE] ELSE method[j]
      BY <1>t, <2>1
    <3>2. \A m \in Method : LET n == [m EXCEPT !.active = FALSE, !.default = FALSE]
                           IN n \in Method /\ n.kind = m.kind /\ n.currency = m.currency /\ ~n.active /\ ~n.default
      BY DEF Method
    <3>3. \A j \in MethodIds : method[j] \in Method
      BY <1>t
    <3>4. DOMAIN method' = MethodIds /\ method' = [j \in MethodIds |-> method'[j]]
      BY <1>t, <2>1
    <3>5. \A j \in MethodIds : method'[j] \in Method
      BY <3>1, <3>2, <3>3
    <3>6. method' \in [MethodIds -> Method]
      BY <3>4, <3>5
    <3>7. ASSUME NEW j \in MethodIds
          PROVE /\ method'[j].kind = method[j].kind /\ method'[j].currency = method[j].currency
                /\ (method'[j].active => method[j].active) /\ (method'[j].default => method[j].default)
                /\ (j # call[h].id => method'[j].active = method[j].active)
      BY <3>1, <3>2, <3>3
    <3> QED BY <3>6, <3>7
  <2>3. AccountTypeOK'
    BY <1>t, <2>1, <2>2 DEF AccountTypeOK
  <2>4. ASSUME ~crossed PROVE RowsInOrder'
    <3>1. RowsInOrder /\ call[h].id \notin asked
      BY <1>t, <2>1, <2>4 DEF CallInOrder
    <3> QED BY <1>t, <2>1, <2>2, <3>1 DEF RowsInOrder, Connected
  <2> QED BY <2>1, <2>3, <2>4, EndOfMoves, CallMovesInOrder
<1> QED BY <1>1, <1>2, <1>3, <1>4

LEMMA PayoutCalls ==
  ASSUME AccountInv, NEW h \in Clients, RequestPayout(h) \/ StillTheSame(h) \/ SaveRequest(h) \/ ChangeCountry(h) \/ SaveLocation(h)
  PROVE  AccountInv'
<1>t. /\ AccountTypeOK /\ call[h] \in AccountCall /\ (~crossed => RowsInOrder /\ CallInOrder(call[h]))
      /\ method \in [MethodIds -> Method] /\ asked \subseteq MethodIds
  BY DEF AccountInv, AccountTyped, AccountTypeOK
<1>1. CASE RequestPayout(h)
  <2>1. PICK i \in AllActive \ asked : Usable(method[i]) /\ Begin(h, [NoCall EXCEPT !.pc = "convert", !.id = i, !.was = method[i]])
    BY <1>1 DEF RequestPayout
  <2>2. i \in MethodIds /\ method[i] \in Method /\ method[i].active /\ method[i].currency # NoCurrency
    BY <1>t, <2>1 DEF AllActive, Usable
  <2>3. PICK c \in AccountCall : c.pc = "convert" /\ c.id = i /\ CallMoves(h, c)
    <3>1. LET c == [NoCall EXCEPT !.pc = "convert", !.id = i, !.was = method[i]] IN c \in AccountCall /\ c.pc = "convert" /\ c.id = i
      BY <2>2, NoCallTyped DEF NoCall, AccountCall, CallSteps
    <3> QED BY <2>1, <3>1, BeginMoves
  <2>4. UNCHANGED <<rail, method, account, notices, asked>>
    BY <1>1 DEF RequestPayout
  <2>5. CallInOrder(c)'
    BY <2>2, <2>3, <2>4 DEF CallInOrder
  <2> QED BY <1>t, <2>3, <2>4, <2>5, TypesStay, RowsStay, CallMovesInOrder
<1>2. CASE StillTheSame(h)
  <2>1. call[h].pc = "convert" /\ UNCHANGED <<rail, method, account, notices, asked>>
    BY <1>2 DEF StillTheSame, Calling
  <2>2. CASE EndOf(h)
    BY <1>t, <2>1, <2>2, TypesStay, RowsStay, EndOfMoves, CallMovesInOrder
  <2>3. CASE GoOn(h, [call[h] EXCEPT !.pc = "saveRequest"])
    <3>1. LET c == [call[h] EXCEPT !.pc = "saveRequest"] IN c \in AccountCall /\ c.pc = "saveRequest" /\ c.id = call[h].id
      BY <1>t, <2>1, SMTT(30) DEF AccountCall, CallSteps
    <3>2. PICK c \in AccountCall : c.pc = "saveRequest" /\ c.id = call[h].id /\ CallMoves(h, c)
      BY <2>1, <2>3, <3>1, GoesOnMoves
    <3>3. ~crossed => CallInOrder(c)'
      BY <1>t, <2>1, <3>2 DEF CallInOrder
    <3> QED BY <1>t, <2>1, <3>2, <3>3, TypesStay, RowsStay, CallMovesInOrder
  <2> QED BY <1>2, <2>2, <2>3 DEF StillTheSame
<1>3. CASE SaveRequest(h)
  <2>1. /\ call[h].pc = "saveRequest" /\ EndOf(h) /\ UNCHANGED <<rail, method, account, notices>>
        /\ asked' = asked \union {call[h].id}
    BY <1>3 DEF SaveRequest, Calling
  <2>2. ~crossed => RowsInOrder'
    BY <1>t, <2>1 DEF RowsInOrder, Connected, CallInOrder
  <2>3. call[h].id \in MethodIds
    BY <1>t, <2>1 DEF AccountCall
  <2>4. AccountTypeOK'
    BY <1>t, <2>1, <2>3 DEF AccountTypeOK
  <2> QED BY <2>1, <2>2, <2>4, EndOfMoves, CallMovesInOrder
<1>4. CASE ChangeCountry(h)
  <2>1. PICK to \in {"stripe", "airwallex"} : Begin(h, [NoCall EXCEPT !.pc = "lookUp", !.to = to])
    BY <1>4 DEF ChangeCountry
  <2>2. PICK c \in AccountCall : c.pc = "lookUp" /\ c.to = to /\ CallMoves(h, c)
    <3>1. LET c == [NoCall EXCEPT !.pc = "lookUp", !.to = to] IN c \in AccountCall /\ c.pc = "lookUp" /\ c.to = to
      BY NoCallTyped DEF NoCall, AccountCall, CallSteps
    <3> QED BY <2>1, <3>1, BeginMoves
  <2>3. NoneConnected /\ UNCHANGED <<rail, method, account, notices, asked>>
    BY <1>4, NoneActive DEF ChangeCountry
  <2>4. CallInOrder(c)'
    BY <2>2, <2>3 DEF CallInOrder, NoneConnected, Connected
  <2> QED BY <1>t, <2>2, <2>3, <2>4, TypesStay, RowsStay, CallMovesInOrder
<1>5. CASE SaveLocation(h)
  <2>1. call[h].pc = "lookUp" /\ EndOf(h) /\ UNCHANGED <<method, account, notices, asked>> /\ rail' = call[h].to
    BY <1>5 DEF SaveLocation, Calling
  <2>2. ~crossed => RowsInOrder'
    BY <1>t, <2>1 DEF RowsInOrder, Connected, NoneConnected, CallInOrder
  <2>3. AccountTypeOK'
    BY <1>t, <2>1 DEF AccountTypeOK, AccountCall
  <2> QED BY <2>1, <2>2, <2>3, EndOfMoves, CallMovesInOrder
<1> QED BY <1>1, <1>2, <1>3, <1>4, <1>5

\* What happens on its own: Stripe decides, a payout ends, a currency is set.
LEMMA AccountsAside ==
  ASSUME AccountInv, StripeDecides \/ SetPayoutCurrency \/ PayoutOver \/ UNCHANGED accountVars
  PROVE  AccountInv'
<1>t. AccountTypeOK /\ method \in [MethodIds -> Method] /\ asked \subseteq MethodIds
  BY DEF AccountInv, AccountTyped, AccountTypeOK
<1>1. CASE UNCHANGED accountVars
  BY <1>t, <1>1, TypesStay, CallsStay DEF accountVars
<1>2. CASE StripeDecides
  <2>1. UNCHANGED <<rail, method, asked, call, crossed>>
    BY <1>2 DEF StripeDecides
  <2>2. PICK a \in Accounts : /\ account' = [account EXCEPT ![a] = IF account[a] = "started" THEN "enabled" ELSE "started"]
                              /\ notices' = notices \union {<<a, account[a] = "started">>}
    BY <1>2 DEF StripeDecides
  <2>3. account' \in [Accounts -> {"none", "started", "enabled"}]
    BY <1>t, <2>2 DEF AccountTypeOK
  <2>b. (account[a] = "started") \in BOOLEAN
    OBVIOUS
  <2>n. notices' \subseteq Accounts \X BOOLEAN
    <3>1. PICK b \in BOOLEAN : notices' = notices \union {<<a, b>>}
      BY <2>2, <2>b
    <3> QED BY <1>t, <3>1 DEF AccountTypeOK
  <2>4. AccountTypeOK'
    BY <1>t, <2>1, <2>3, <2>n DEF AccountTypeOK
  <2> QED BY <2>1, <2>4, CallsStay
<1>3. CASE SetPayoutCurrency
  <2>1. PICK i \in Active("bank"), own \in Currencies : method' = [method EXCEPT ![i].currency = own]
    BY <1>3 DEF SetPayoutCurrency
  <2>2. UNCHANGED <<rail, account, notices, asked, call, crossed>>
    BY <1>3 DEF SetPayoutCurrency
  <2>3. i \in MethodIds /\ method[i].kind = "bank" /\ own # NoCurrency
    BY AccountAssumptions DEF Active
  <2>4. method' \in [MethodIds -> Method] /\ \A j \in MethodIds :
             /\ method'[j].kind = method[j].kind /\ method'[j].active = method[j].active /\ method'[j].default = method[j].default
             /\ (j # i => method'[j].currency = method[j].currency) /\ (j = i => method'[j].currency = own)
    BY <1>t, <2>1 DEF Method
  <2>5. AccountTypeOK'
    BY <1>t, <2>2, <2>4 DEF AccountTypeOK
  <2>6. RowsInOrder => RowsInOrder'
    BY <1>t, <2>2, <2>3, <2>4 DEF RowsInOrder, Connected
  <2>7. \A h \in Clients : CallInOrder(call[h]) => CallInOrder(call[h])'
    BY <2>2, <2>3, <2>4 DEF CallInOrder, NoneConnected, Connected
  <2> QED BY <2>2, <2>5, <2>6, <2>7 DEF AccountInv, AccountTyped, OneCall
<1>4. CASE PayoutOver
  <2>1. UNCHANGED <<rail, method, account, notices, call, crossed>> /\ asked' \subseteq asked
    BY <1>4 DEF PayoutOver
  <2>2. AccountTypeOK'
    BY <1>t, <2>1 DEF AccountTypeOK
  <2>3. RowsInOrder => RowsInOrder'
    BY <2>1 DEF RowsInOrder, Connected
  <2>4. \A h \in Clients : CallInOrder(call[h]) => CallInOrder(call[h])'
    BY <2>1 DEF CallInOrder, NoneConnected, Connected
  <2> QED BY <2>1, <2>2, <2>3, <2>4 DEF AccountInv, AccountTyped, OneCall
<1> QED BY <1>1, <1>2, <1>3, <1>4

\* While calls come one at a time, a salon has one connected account, of the
\* rail of its country, at most one default, and its withdrawals are on their
\* way to accounts it has, in a currency (payoutConnect.ts, payoutMethods.ts,
\* businessProfile.ts).
THEOREM AccountsStayInOrder == OfficeSpec => []PayoutAccountsInOrder
<1>1. OfficeInit => AccountInv
  <2> SUFFICES ASSUME OfficeInit PROVE AccountInv
    OBVIOUS
  <2>1. AccountInit
    BY DEF OfficeInit
  <2>2. AccountTypeOK
    BY <2>1, NoCallTyped DEF AccountInit, AccountTypeOK
  <2>3. \A h \in Clients : call[h] = NoCall
    BY <2>1 DEF AccountInit
  <2>4. AccountTyped /\ OneCall
    BY <2>1, <2>2, <2>3, NoCallTyped DEF AccountInit, AccountTyped, OneCall
  <2>5. \A h \in Clients : CallInOrder(call[h])
    BY <2>3, NoCallTyped, IdleInOrder
  <2>6. RowsInOrder
    <3>1. \A i \in MethodIds : method[i].kind = "none" /\ ~method[i].active /\ ~method[i].default
      BY <2>1 DEF AccountInit, NoMethod
    <3>2. asked = {}
      BY <2>1 DEF AccountInit
    <3> QED BY <3>1, <3>2 DEF RowsInOrder, Connected
  <2> QED BY <2>4, <2>5, <2>6 DEF AccountInv
<1>2. AccountInv /\ [OfficeNext]_officeVars => AccountInv'
  <2> SUFFICES ASSUME AccountInv, [AccountNext]_accountVars PROVE AccountInv'
    BY AccountsTakeTheirSteps
  <2>1. ASSUME NEW h \in Clients, StripeOnboardingLink(h) \/ CreateConnectedAccount(h) \/ SaveConnectedAccount(h) \/ SyncStripeAccount(h) \/ RetrieveAccount(h)
        PROVE AccountInv'
    BY <2>1, StripeCalls
  <2>2. ASSUME NEW h \in Clients, AccountUpdated(h) \/ ApplyStripeAccount(h) PROVE AccountInv'
    BY <2>2, StripeEvents
  <2>3. ASSUME NEW h \in Clients, ConnectAirwallex(h) \/ CreateBeneficiary(h) \/ AddBankAccount(h) \/ SaveBankAccount(h) PROVE AccountInv'
    BY <2>3, BankCalls
  <2>4. ASSUME NEW h \in Clients, SetDefaultMethod(h) \/ SaveDefault(h) \/ RemoveMethod(h) \/ SaveRemoval(h) PROVE AccountInv'
    BY <2>4, MethodCalls
  <2>5. ASSUME NEW h \in Clients, RequestPayout(h) \/ StillTheSame(h) \/ SaveRequest(h) \/ ChangeCountry(h) \/ SaveLocation(h) PROVE AccountInv'
    BY <2>5, PayoutCalls
  <2>6. CASE StripeDecides \/ SetPayoutCurrency \/ PayoutOver \/ UNCHANGED accountVars
    BY <2>6, AccountsAside
  <2> QED BY <2>1, <2>2, <2>3, <2>4, <2>5, <2>6 DEF AccountNext
<1>3. AccountInv => PayoutAccountsInOrder
  <2> SUFFICES ASSUME AccountInv, ~crossed PROVE PayoutAccountsInOrder
    BY DEF PayoutAccountsInOrder
  <2>1. RowsInOrder /\ asked \subseteq MethodIds
    BY DEF AccountInv, AccountTyped, AccountTypeOK
  <2>2. \A S : (\A i, j \in S : i = j) => Cardinality(S) <= 1
    <3> SUFFICES ASSUME NEW S, \A i, j \in S : i = j PROVE Cardinality(S) <= 1
      OBVIOUS
    <3>1. CASE S = {}
      BY <3>1, FS_EmptySet
    <3>2. ASSUME NEW i \in S PROVE Cardinality(S) <= 1
      <4>1. S = {i}
        OBVIOUS
      <4>2. Cardinality({i}) = 1
        BY FS_Singleton
      <4> QED BY <4>1, <4>2
    <3> QED BY <3>1, <3>2
  <2>3. \A i \in Active("stripe") \union Active("airwallex") : i \in MethodIds /\ Connected(i)
    BY DEF Active, Connected
  <2>4. Cardinality(Active("stripe") \union Active("airwallex")) <= 1
    BY <2>1, <2>2, <2>3 DEF RowsInOrder
  <2>5. Cardinality({i \in MethodIds : method[i].default}) <= 1
    BY <2>1, <2>2 DEF RowsInOrder
  <2>6. OfItsCountry
    BY <2>1, <2>3 DEF RowsInOrder, OfItsCountry
  <2>7. asked \subseteq AllActive /\ \A i \in asked : method[i].currency # NoCurrency
    BY <2>1 DEF RowsInOrder, AllActive
  <2> QED BY <2>4, <2>5, <2>6, <2>7 DEF PayoutAccountsInOrder
<1> QED BY <1>1, <1>2, <1>3, PTL DEF OfficeSpec

-----------------------------------------------------------------------------
(* A booking and the app that follows it. *)

LEMMA SyncTakesItsSteps == [OfficeNext]_officeVars => [SyncNext]_syncVars
BY DEF OfficeNext, ChatStep, LiveStep, AppStep, SyncStep, AccountStep, DeskStep, FeedbackStep, officeVars

SyncPc == {"idle", "load", "lock", "update", "make", "keep", "pay", "remove", "clear"}
SyncOrder == [pc : SyncPc, kind : Kinds, status : Statuses, at : Nat, paid : BOOLEAN, email : BOOLEAN, doc : Nat]

SyncTyped ==
  /\ sync \in [Syncs -> SyncOrder]
  /\ booking \in [status : Statuses, at : Nat, paid : BOOLEAN, email : BOOLEAN]
  /\ doc \in Nat /\ made \in Nat
  /\ invoice \in [1..MaxDocs -> {"none", "unpaid", "paid", "void"}]
  /\ told \in BOOLEAN /\ again \in BOOLEAN /\ overlap \in BOOLEAN /\ touched \in BOOLEAN /\ failures \in Nat

NoEvent == doc = 0 /\ calendar = {}
EventAt(at) == doc # 0 /\ calendar = {[id |-> doc, at |-> at]}
EventGone == doc # 0 /\ calendar = {} /\ touched
OneEvent == NoEvent \/ EventGone \/ \E at \in Nat : EventAt(at)
EventRecorded == NoEvent \/ EventGone \/ EventAt(booking.at)

\* Google Calendar, as a sync that is at c leaves it; c is idle when none is under way.
CalendarFollows(c) ==
  /\ c.pc = "idle" => /\ booking.status = "Cancelled" => NoEvent
                      /\ booking.status = "Pending" => EventRecorded
                      /\ IsOnCalendar(booking.status) => EventRecorded /\ ~NoEvent
  /\ c.pc = "load" => /\ c.kind = "confirmed" => (booking.status \in {"Confirmed", "Completed"} /\ OneEvent)
                      /\ c.kind = "rescheduled" => booking.status \in {"Pending", "Rescheduled", "Completed"} /\ OneEvent
                      /\ c.kind = "cancelled" => booking.status \in {"Cancelled", "Pending"} /\ EventRecorded
  /\ c.pc \in {"lock", "update", "make", "keep"} => booking.status # "Cancelled" /\ c.at = booking.at
  /\ c.pc = "lock" => c.doc = doc /\ OneEvent
  /\ c.pc = "update" => c.doc = doc /\ OneEvent /\ ~NoEvent
  /\ c.pc = "make" => calendar = {}
  /\ c.pc = "keep" => c.doc # 0 /\ (calendar = {[id |-> c.doc, at |-> c.at]} \/ (calendar = {} /\ touched))
  /\ c.pc \in {"remove", "clear"} => booking.status \in {"Cancelled", "Pending"} /\ c.doc = doc
  /\ c.pc = "remove" => EventRecorded /\ ~NoEvent
  /\ c.pc = "clear" => calendar = {}
  /\ c.pc # "pay"

NoInvoice == doc = 0 /\ Standing = {}
Invoiced == doc # 0 /\ Standing = {doc}
PaidAsBooked == (invoice[doc] = "paid") <=> booking.paid
InvoicedAsBooked == (booking.email /\ Invoiced /\ PaidAsBooked) \/ (~booking.email /\ NoInvoice)

\* And ZohoBooks, of a booking that was not brought back.
BooksFollow(c) ==
  /\ c.pc = "idle" => /\ booking.status = "Cancelled" => Standing = {} \/ (Standing = {doc} /\ told)
                      /\ booking.status = "Pending" => NoInvoice
                      /\ IsOnCalendar(booking.status) => InvoicedAsBooked
  /\ c.pc = "load" => /\ c.kind = "confirmed" => booking.status \in {"Confirmed", "Completed"} /\ NoInvoice
                      /\ c.kind = "rescheduled" => \/ (booking.status = "Pending" /\ NoInvoice)
                                                  \/ (booking.status = "Rescheduled" /\ InvoicedAsBooked)
                                                  \/ booking.status = "Completed"
                      /\ c.kind = "cancelled" => booking.status = "Cancelled" /\ (NoInvoice \/ Invoiced)
  /\ c.pc \in {"lock", "make", "keep", "pay"} => booking.status \in {"Confirmed", "Completed"} /\ c.paid = booking.paid /\ c.email = booking.email
  /\ c.pc \in {"lock", "make"} => NoInvoice
  /\ c.pc \in {"keep", "pay"} => booking.email
  /\ c.pc = "keep" => doc = 0 /\ c.doc \in 1..MaxDocs /\ Standing = {c.doc} /\ invoice[c.doc] = "unpaid"
  /\ c.pc = "pay" => c.doc = doc /\ Invoiced /\ c.paid
  /\ c.pc = "remove" => booking.status = "Cancelled" /\ c.doc = doc /\ Invoiced
  /\ c.pc \notin {"update", "clear"}

Follows(c) ==
  /\ app = "google" => CalendarFollows(c)
  /\ app = "zoho" /\ ~again => BooksFollow(c)
  /\ c.pc \in {"idle", "load", "lock", "remove", "clear"} => locked = Free

SyncInv ==
  /\ SyncTyped
  /\ ~overlap /\ failures = 0 =>
       /\ \A s, r \in Syncs : sync[s].pc # "idle" /\ sync[r].pc # "idle" => s = r
       /\ Quiet => Follows(NoSync)
       /\ \A s \in Syncs : sync[s].pc # "idle" => Follows(sync[s])

LEMMA NoSyncTyped == NoSync \in SyncOrder /\ NoSync.pc = "idle"
BY DEF NoSync, SyncOrder, SyncPc, Kinds, Statuses

LEMMA IdleFollows == ASSUME NEW c, NEW d, c.pc = "idle", d.pc = "idle", Follows(c) PROVE Follows(d)
BY DEF Follows, CalendarFollows, BooksFollow

LEMMA SyncMoves ==
  ASSUME SyncTyped, SyncTyped', NEW s \in Syncs, NEW c \in SyncOrder, sync' = [sync EXCEPT ![s] = c],
         ~overlap' /\ failures' = 0 => Follows(c)' /\ \A r \in Syncs \ {s} : sync[r].pc = "idle"
  PROVE  SyncInv'
<1>1. sync'[s] = c /\ \A r \in Syncs \ {s} : sync'[r] = sync[r]
  BY DEF SyncTyped
<1>2. Follows(c)' => Follows(sync[s])'
  BY <1>1 DEF Follows, CalendarFollows, BooksFollow
<1>3. c.pc = "idle" /\ Follows(c)' => Follows(NoSync)'
  BY NoSyncTyped DEF Follows, CalendarFollows, BooksFollow
<1> QED BY <1>1, <1>2, <1>3 DEF SyncInv, Quiet

LEMMA SyncGoesOn ==
  ASSUME SyncInv, SyncTyped', NEW s \in Syncs, NEW c \in SyncOrder, sync' = [sync EXCEPT ![s] = c], sync[s].pc # "idle",
         UNCHANGED <<overlap, failures>>, Follows(sync[s]) => Follows(c)'
  PROVE  SyncInv'
BY SyncMoves DEF SyncInv

LEMMA SyncAside ==
  ASSUME SyncInv, SyncTyped', UNCHANGED <<sync, overlap, failures>>, \A c \in SyncOrder : Follows(c) => Follows(c)'
  PROVE  SyncInv'
<1>1. ASSUME ~overlap', failures' = 0
      PROVE  /\ \A s, r \in Syncs : sync'[s].pc # "idle" /\ sync'[r].pc # "idle" => s = r
             /\ Quiet' => Follows(NoSync)'
             /\ \A s \in Syncs : sync'[s].pc # "idle" => Follows(sync[s])'
  <2>1. \A s \in Syncs : sync[s] \in SyncOrder
    BY DEF SyncInv, SyncTyped
  <2>2. \A s, r \in Syncs : sync'[s].pc # "idle" /\ sync'[r].pc # "idle" => s = r
    BY <1>1 DEF SyncInv
  <2>3. Quiet' => Follows(NoSync)'
    BY <1>1, NoSyncTyped DEF SyncInv, Quiet
  <2>4. ASSUME NEW s \in Syncs, sync'[s].pc # "idle" PROVE Follows(sync[s])'
    <3>1. PICK c \in SyncOrder : c = sync[s]
      BY <2>1
    <3>2. Follows(c)'
      BY <1>1, <2>4, <3>1 DEF SyncInv
    <3> QED BY <3>1, <3>2 DEF Follows, CalendarFollows, BooksFollow
  <2> QED BY <2>2, <2>3, <2>4
<1> QED BY <1>1 DEF SyncInv

LEMMA StartMoves ==
  ASSUME SyncInv, NEW kind \in Kinds, Start(kind), failures' = failures, SyncTyped',
         \A c \in SyncOrder : c.pc = "load" /\ c.kind = kind /\ Follows(NoSync) => Follows(c)'
  PROVE  SyncInv'
<1>1. PICK s \in Syncs : /\ sync[s].pc = "idle"
                         /\ sync' = [sync EXCEPT ![s] = [NoSync EXCEPT !.pc = "load", !.kind = kind]]
  BY DEF Start, AtSync
<1>2. LET c == [NoSync EXCEPT !.pc = "load", !.kind = kind] IN c \in SyncOrder /\ c.pc = "load" /\ c.kind = kind
  BY DEF NoSync, SyncOrder, SyncPc, Statuses
<1>3. PICK c \in SyncOrder : c.pc = "load" /\ c.kind = kind /\ sync' = [sync EXCEPT ![s] = c]
  BY <1>1, <1>2
<1>4. ~overlap' => ~overlap /\ Quiet
  BY DEF Start
<1> QED BY <1>1, <1>3, <1>4, SyncMoves DEF SyncInv, Quiet

LEMMA SyncStarts ==
  ASSUME SyncInv, BookingConfirmed \/ BookingMoved \/ BookingCancelled
  PROVE  SyncInv'
<1>t. SyncTyped /\ booking.at \in Nat /\ booking.status \in Statuses
  BY DEF SyncInv, SyncTyped
<1>s. ASSUME NEW kind, Start(kind), NEW b \in [status : Statuses, at : Nat, paid : BOOLEAN, email : BOOLEAN], booking' = b,
             UNCHANGED <<doc, made, invoice, told, again, failures, touched>>, kind \in Kinds
      PROVE SyncTyped'
  <2>1. PICK s \in Syncs : sync' = [sync EXCEPT ![s] = [NoSync EXCEPT !.pc = "load", !.kind = kind]]
    BY <1>s DEF Start
  <2>2. [NoSync EXCEPT !.pc = "load", !.kind = kind] \in SyncOrder
    BY <1>s DEF NoSync, SyncOrder, SyncPc, Statuses
  <2>3. sync' \in [Syncs -> SyncOrder]
    BY <1>t, <2>1, <2>2 DEF SyncTyped
  <2>4. overlap' \in BOOLEAN
    BY <1>s DEF Start
  <2> QED BY <1>t, <1>s, <2>3, <2>4 DEF SyncTyped
<1>1. CASE BookingConfirmed
  <2>1. PICK b \in [status : Statuses, at : Nat, paid : BOOLEAN, email : BOOLEAN] : booking' = b /\ b.status = "Confirmed" /\ b.at = booking.at
    BY <1>1, <1>t DEF BookingConfirmed, SyncTyped, Statuses
  <2>2. UNCHANGED <<app, doc, made, calendar, invoice, told, again, failures, touched, locked>> /\ Start("confirmed") /\ booking.status = "Pending"
    BY <1>1 DEF BookingConfirmed, atApps
  <2>3. SyncTyped'
    BY <1>s, <2>1, <2>2 DEF Kinds
  <2>4. ASSUME NEW c \in SyncOrder, c.pc = "load", c.kind = "confirmed", Follows(NoSync) PROVE Follows(c)'
    <3>1. app = "google" => CalendarFollows(c)'
      BY <1>t, <2>1, <2>2, <2>4, NoSyncTyped DEF Follows, CalendarFollows, OneEvent, EventRecorded, NoEvent, EventGone, EventAt
    <3>2. app = "zoho" /\ ~again => BooksFollow(c)'
      BY <2>1, <2>2, <2>4, NoSyncTyped DEF Follows, BooksFollow, NoInvoice, Standing
    <3> QED BY <2>2, <2>4, <3>1, <3>2, NoSyncTyped DEF Follows
  <2> QED BY <2>2, <2>3, <2>4, StartMoves DEF Kinds
<1>2. CASE BookingMoved
  <2>1. PICK b \in [status : Statuses, at : Nat, paid : BOOLEAN, email : BOOLEAN] :
           /\ booking' = b /\ b.paid = booking.paid /\ b.email = booking.email
           /\ booking.status = "Pending" => b.status = "Pending"
           /\ booking.status # "Pending" => b.status = "Rescheduled"
    <3>1. booking' = [booking EXCEPT !.status = IF booking.status = "Pending" THEN booking.status ELSE "Rescheduled", !.at = booking.at + 1]
      BY <1>2 DEF BookingMoved
    <3>2. booking \in [status : Statuses, at : Nat, paid : BOOLEAN, email : BOOLEAN]
      BY <1>t DEF SyncTyped
    <3>3. booking' = [status |-> IF booking.status = "Pending" THEN "Pending" ELSE "Rescheduled", at |-> booking.at + 1, paid |-> booking.paid, email |-> booking.email]
      BY <3>1, <3>2
    <3>4. booking' \in [status : Statuses, at : Nat, paid : BOOLEAN, email : BOOLEAN]
      BY <3>2, <3>3 DEF Statuses
    <3> QED BY <3>3, <3>4
  <2>2. /\ UNCHANGED <<app, doc, made, calendar, invoice, told, again, failures, touched, locked>> /\ Start("rescheduled")
        /\ booking.status = "Pending" \/ IsOnCalendar(booking.status)
    BY <1>2 DEF BookingMoved, atApps, IsOnCalendar
  <2>3. SyncTyped'
    BY <1>s, <2>1, <2>2 DEF Kinds
  <2>4. ASSUME NEW c \in SyncOrder, c.pc = "load", c.kind = "rescheduled", Follows(NoSync) PROVE Follows(c)'
    <3>1. app = "google" => CalendarFollows(c)'
      BY <1>t, <2>1, <2>2, <2>4, NoSyncTyped DEF Follows, CalendarFollows, OneEvent, EventRecorded, NoEvent, EventGone, EventAt
    <3>2. app = "zoho" /\ ~again => BooksFollow(c)'
      BY <2>1, <2>2, <2>4, NoSyncTyped DEF Follows, BooksFollow, NoInvoice, Invoiced, PaidAsBooked, InvoicedAsBooked, Standing, IsOnCalendar
    <3> QED BY <2>2, <2>4, <3>1, <3>2, NoSyncTyped DEF Follows
  <2> QED BY <2>2, <2>3, <2>4, StartMoves DEF Kinds
<1>3. CASE BookingCancelled
  <2>1. PICK b \in [status : Statuses, at : Nat, paid : BOOLEAN, email : BOOLEAN] : booking' = b /\ b.status = "Cancelled" /\ b.at = booking.at
    BY <1>3, <1>t DEF BookingCancelled, SyncTyped, Statuses
  <2>2. /\ UNCHANGED <<app, doc, made, calendar, invoice, told, again, failures, touched, locked>> /\ Start("cancelled")
        /\ booking.status = "Pending" \/ IsOnCalendar(booking.status)
    BY <1>3 DEF BookingCancelled, atApps
  <2>3. SyncTyped'
    BY <1>s, <2>1, <2>2 DEF Kinds
  <2>4. ASSUME NEW c \in SyncOrder, c.pc = "load", c.kind = "cancelled", Follows(NoSync) PROVE Follows(c)'
    <3>1. app = "google" => CalendarFollows(c)'
      BY <1>t, <2>1, <2>2, <2>4, NoSyncTyped DEF Follows, CalendarFollows, OneEvent, EventRecorded, NoEvent, EventGone, EventAt
    <3>2. app = "zoho" /\ ~again => BooksFollow(c)'
      BY <2>1, <2>2, <2>4, NoSyncTyped DEF Follows, BooksFollow, NoInvoice, Invoiced, InvoicedAsBooked, Standing
    <3> QED BY <2>2, <2>4, <3>1, <3>2, NoSyncTyped DEF Follows
  <2> QED BY <2>2, <2>3, <2>4, StartMoves DEF Kinds
<1> QED BY <1>1, <1>2, <1>3

\* What happens while a sync may be under way.
LEMMA SyncOthers ==
  ASSUME SyncInv, BookingRestored \/ BookingCompleted \/ LockExpires \/ OwnerDeletesEvent \/ UNCHANGED syncVars
  PROVE  SyncInv'
<1>t. SyncTyped
  BY DEF SyncInv
<1>1. CASE BookingRestored
  <2>1. PICK b \in [status : Statuses, at : Nat, paid : BOOLEAN, email : BOOLEAN] : booking' = b /\ b.status = "Pending" /\ b.at = booking.at
    <3>1. booking' = [booking EXCEPT !.status = "Pending", !.paid = FALSE] /\ booking \in [status : Statuses, at : Nat, paid : BOOLEAN, email : BOOLEAN]
      BY <1>1, <1>t DEF BookingRestored, SyncTyped
    <3>2. booking' = [status |-> "Pending", at |-> booking.at, paid |-> FALSE, email |-> booking.email]
      BY <3>1
    <3>3. booking' \in [status : Statuses, at : Nat, paid : BOOLEAN, email : BOOLEAN]
      BY <3>1, <3>2 DEF Statuses
    <3> QED BY <3>2, <3>3
  <2>2. /\ UNCHANGED <<app, doc, made, calendar, invoice, sync, locked, told, overlap, failures, touched>>
        /\ booking.status = "Cancelled" /\ again' = TRUE
    BY <1>1 DEF BookingRestored, atApps
  <2>3. SyncTyped'
    BY <1>t, <2>1, <2>2 DEF SyncTyped
  <2>4. ASSUME NEW c \in SyncOrder, Follows(c) PROVE Follows(c)'
    <3>1. app = "google" => CalendarFollows(c)'
      BY <2>1, <2>2, <2>4 DEF Follows, CalendarFollows, OneEvent, EventRecorded, NoEvent, EventGone, EventAt, IsOnCalendar
    <3> QED BY <2>2, <2>4, <3>1 DEF Follows
  <2> QED BY <2>2, <2>3, <2>4, SyncAside
<1>2. CASE BookingCompleted
  <2>1. PICK b \in [status : Statuses, at : Nat, paid : BOOLEAN, email : BOOLEAN] : booking' = b /\ b.status = "Completed" /\ b.at = booking.at /\ b.paid = booking.paid /\ b.email = booking.email
    BY <1>2, <1>t DEF BookingCompleted, SyncTyped, Statuses
  <2>2. /\ UNCHANGED <<app, doc, made, calendar, invoice, sync, locked, told, overlap, failures, touched, again>>
        /\ IsOnCalendar(booking.status)
    BY <1>2 DEF BookingCompleted, atApps, history
  <2>3. SyncTyped'
    BY <1>t, <2>1, <2>2 DEF SyncTyped
  <2>4. ASSUME NEW c \in SyncOrder, Follows(c) PROVE Follows(c)'
    <3>1. app = "google" => CalendarFollows(c)'
      BY <2>1, <2>2, <2>4 DEF Follows, CalendarFollows, OneEvent, EventRecorded, NoEvent, EventGone, EventAt, IsOnCalendar
    <3>2. app = "zoho" /\ ~again => BooksFollow(c)'
      BY <2>1, <2>2, <2>4 DEF Follows, BooksFollow, NoInvoice, Invoiced, PaidAsBooked, InvoicedAsBooked, Standing, IsOnCalendar
    <3> QED BY <2>2, <2>4, <3>1, <3>2 DEF Follows
  <2> QED BY <2>2, <2>3, <2>4, SyncAside
<1>3. ASSUME locked' = Free \/ locked' = locked, UNCHANGED <<app, booking, doc, made, calendar, invoice, sync, told, overlap, failures, touched, again>>
      PROVE SyncInv'
  <2>1. SyncTyped'
    BY <1>t, <1>3 DEF SyncTyped
  <2>2. ASSUME NEW c \in SyncOrder, Follows(c) PROVE Follows(c)'
    <3>1. app = "google" => CalendarFollows(c)'
      BY <1>3, <2>2 DEF Follows, CalendarFollows, OneEvent, EventRecorded, NoEvent, EventGone, EventAt
    <3>2. app = "zoho" /\ ~again => BooksFollow(c)'
      BY <1>3, <2>2 DEF Follows, BooksFollow, NoInvoice, Invoiced, PaidAsBooked, InvoicedAsBooked, Standing
    <3> QED BY <1>3, <2>2, <3>1, <3>2 DEF Follows
  <2> QED BY <1>3, <2>1, <2>2, SyncAside
<1>4. CASE LockExpires \/ UNCHANGED syncVars
  BY <1>3, <1>4 DEF LockExpires, syncVars, atApps, history
<1>5. CASE OwnerDeletesEvent
  <2>1. /\ UNCHANGED <<app, booking, doc, made, invoice, sync, locked, told, overlap, failures, again>> /\ touched' = TRUE
        /\ calendar # {} /\ \E e \in calendar : calendar' = calendar \ {e}
    BY <1>5 DEF OwnerDeletesEvent
  <2>2. SyncTyped'
    BY <1>t, <2>1 DEF SyncTyped
  <2>3. \A x : calendar = {x} => calendar' = {}
    BY <2>1
  <2>4. ASSUME NEW c \in SyncOrder, Follows(c) PROVE Follows(c)'
    <3>1. ASSUME app = "google" PROVE CalendarFollows(c)'
      <4>1. CalendarFollows(c) /\ ~NoEvent /\ ~EventGone
        BY <2>1, <2>4, <3>1 DEF Follows, NoEvent, EventGone
      <4>2. OneEvent \/ EventRecorded => (doc # 0 /\ calendar' = {})
        BY <2>3, <4>1 DEF OneEvent, EventRecorded, EventAt
      <4>3. OneEvent \/ EventRecorded => OneEvent' /\ EventRecorded' /\ ~NoEvent'
        BY <2>1, <4>2 DEF OneEvent, EventRecorded, EventGone, NoEvent
      <4>4. c.pc = "keep" => calendar' = {} /\ touched'
        BY <2>1, <2>3, <4>1 DEF CalendarFollows
      <4> QED BY <2>1, <4>1, <4>3, <4>4 DEF CalendarFollows
    <3>2. app = "zoho" /\ ~again => BooksFollow(c)'
      BY <2>1, <2>4 DEF Follows, BooksFollow, NoInvoice, Invoiced, PaidAsBooked, InvoicedAsBooked, Standing
    <3> QED BY <2>1, <2>4, <3>1, <3>2 DEF Follows
  <2> QED BY <2>1, <2>2, <2>4, SyncAside
<1> QED BY <1>1, <1>2, <1>4, <1>5

LEMMA CallsThatFail ==
  ASSUME SyncInv, NEW s \in Syncs, CallFails(s) \/ SyncKilled(s)
  PROVE  SyncInv'
<1>1. /\ UNCHANGED <<booking, doc, made, invoice, told, again, overlap, touched>>
      /\ failures' = failures + 1 /\ sync' = [sync EXCEPT ![s] = NoSync] /\ failures \in Nat
  BY DEF CallFails, SyncKilled, EndSync, atApps, SyncInv, SyncTyped
<1>2. SyncTyped'
  BY <1>1, NoSyncTyped DEF SyncInv, SyncTyped
<1> QED BY <1>1, <1>2 DEF SyncInv

LEMMA SyncLoads ==
  ASSUME SyncInv, NEW s \in Syncs, LoadSyncOrder(s)
  PROVE  SyncInv'
<1> DEFINE step == StepAfterLoad(sync[s].kind)
<1>t. SyncTyped /\ sync[s] \in SyncOrder /\ sync[s].kind \in Kinds /\ booking.at \in Nat /\ booking.status \in Statuses /\ booking.paid \in BOOLEAN /\ booking.email \in BOOLEAN /\ doc \in Nat
  BY DEF SyncInv, SyncTyped, SyncOrder
<1>1. sync[s].pc = "load" /\ UNCHANGED <<app, booking, doc, made, calendar, invoice, locked, told, again, overlap, failures, touched>>
  BY DEF LoadSyncOrder, AtSync, atApps, history
<1>2. ASSUME Follows(sync[s]), app = "google"
      PROVE /\ step = "idle" => /\ booking.status = "Cancelled" => NoEvent
                                /\ booking.status = "Pending" => EventRecorded
                                /\ IsOnCalendar(booking.status) => EventRecorded /\ ~NoEvent
            /\ step = "lock" => booking.status # "Cancelled" /\ OneEvent
            /\ step = "remove" => booking.status \in {"Cancelled", "Pending"} /\ EventRecorded /\ ~NoEvent
  BY <1>t, <1>1, <1>2 DEF Follows, CalendarFollows, StepAfterLoad, IsOnCalendar, Kinds, OneEvent, EventRecorded, NoEvent, EventAt, EventGone
<1>3. ASSUME Follows(sync[s]), app = "zoho", ~again
      PROVE /\ step = "idle" => /\ booking.status = "Cancelled" => Standing = {}
                                /\ booking.status = "Pending" => NoInvoice
                                /\ IsOnCalendar(booking.status) => InvoicedAsBooked
            /\ step = "lock" => booking.status \in {"Confirmed", "Completed"} /\ NoInvoice
            /\ step = "remove" => booking.status = "Cancelled" /\ Invoiced
  BY <1>t, <1>1, <1>3 DEF Follows, BooksFollow, StepAfterLoad, IsOnCalendar, Kinds, NoInvoice, Invoiced, InvoicedAsBooked
<1>4. step \in {"idle", "lock", "remove"}
  BY DEF StepAfterLoad
<1>5. CASE step = "idle"
  <2>1. sync' = [sync EXCEPT ![s] = NoSync]
    BY <1>5 DEF LoadSyncOrder, EndSync
  <2>2. SyncTyped'
    BY <1>t, <1>1, <2>1, NoSyncTyped DEF SyncTyped
  <2>3. ASSUME Follows(sync[s]) PROVE Follows(NoSync)'
    <3>1. app = "google" => CalendarFollows(NoSync)'
      BY <1>1, <1>2, <1>5, <2>3, NoSyncTyped DEF CalendarFollows, EventRecorded, NoEvent, EventAt, EventGone
    <3>2. app = "zoho" /\ ~again => BooksFollow(NoSync)'
      BY <1>1, <1>3, <1>5, <2>3, NoSyncTyped DEF BooksFollow, NoInvoice, Invoiced, PaidAsBooked, InvoicedAsBooked, Standing
    <3> QED BY <1>1, <2>3, <3>1, <3>2, NoSyncTyped DEF Follows
  <2> QED BY <1>1, <2>1, <2>2, <2>3, NoSyncTyped, SyncGoesOn
<1>6. CASE step # "idle"
  <2>1. PICK c : /\ sync' = [sync EXCEPT ![s] = c]
                 /\ c = [pc |-> step, kind |-> sync[s].kind, status |-> booking.status, at |-> booking.at, paid |-> booking.paid, email |-> booking.email, doc |-> doc]
    BY <1>6 DEF LoadSyncOrder
  <2>2. c \in SyncOrder /\ c.pc = step /\ c.at = booking.at /\ c.paid = booking.paid /\ c.email = booking.email /\ c.doc = doc
    BY <1>t, <1>4, <2>1 DEF SyncOrder, SyncPc
  <2>3. SyncTyped'
    BY <1>t, <1>1, <2>1, <2>2 DEF SyncTyped
  <2> HIDE DEF step
  <2>4. ASSUME Follows(sync[s]) PROVE Follows(c)'
    <3>1. app = "google" => CalendarFollows(c)'
      BY <1>1, <1>2, <1>4, <1>6, <2>2, <2>4 DEF CalendarFollows, OneEvent, EventRecorded, NoEvent, EventAt, EventGone
    <3>2. app = "zoho" /\ ~again => BooksFollow(c)'
      BY <1>1, <1>3, <1>4, <1>6, <2>2, <2>4 DEF BooksFollow, NoInvoice, Invoiced, Standing
    <3> QED BY <1>1, <2>4, <3>1, <3>2 DEF Follows
  <2> QED BY <1>1, <2>1, <2>2, <2>3, <2>4, SyncGoesOn
<1> QED BY <1>5, <1>6

LEMMA SyncLocks ==
  ASSUME SyncInv, NEW s \in Syncs, TakeLock(s)
  PROVE  SyncInv'
<1>t. SyncTyped /\ sync[s] \in SyncOrder
  BY DEF SyncInv, SyncTyped
<1>1. sync[s].pc = "lock" /\ UNCHANGED <<app, booking, doc, made, calendar, invoice, told, again, overlap, failures, touched>>
  BY DEF TakeLock, AtSync, atApps, history
<1>2. CASE locked # Free
  <2>1. sync' = [sync EXCEPT ![s] = NoSync]
    BY <1>2 DEF TakeLock, EndSync
  <2>2. SyncTyped'
    BY <1>t, <1>1, <2>1, NoSyncTyped DEF SyncTyped
  <2> QED BY <1>1, <1>2, <2>1, <2>2, NoSyncTyped, SyncGoesOn DEF Follows
<1>3. CASE locked = Free
  <2>1. PICK step \in {"update", "make"} : sync' = [sync EXCEPT ![s].pc = step] /\ (step = "update" <=> app = "google" /\ sync[s].doc # 0)
    BY <1>3 DEF TakeLock, Onward
  <2>2. PICK c \in SyncOrder : /\ sync' = [sync EXCEPT ![s] = c]
                               /\ c.pc = step /\ c.at = sync[s].at /\ c.paid = sync[s].paid /\ c.email = sync[s].email /\ c.doc = sync[s].doc
    <3>1. LET c == [sync[s] EXCEPT !.pc = step]
          IN c \in SyncOrder /\ c.pc = step /\ c.at = sync[s].at /\ c.paid = sync[s].paid /\ c.email = sync[s].email /\ c.doc = sync[s].doc
      BY <1>t DEF SyncOrder, SyncPc
    <3> QED BY <2>1, <3>1
  <2>3. SyncTyped'
    BY <1>t, <1>1, <2>2 DEF SyncTyped
  <2>4. ASSUME Follows(sync[s]) PROVE Follows(c)'
    <3>1. app = "google" => CalendarFollows(c)'
      BY <1>1, <2>1, <2>2, <2>4 DEF Follows, CalendarFollows, OneEvent, NoEvent, EventAt, EventGone
    <3>2. app = "zoho" /\ ~again => BooksFollow(c)'
      BY <1>1, <2>1, <2>2, <2>4 DEF Follows, BooksFollow, NoInvoice, Standing
    <3> QED BY <1>1, <2>1, <2>2, <3>1, <3>2 DEF Follows
  <2> QED BY <1>1, <2>2, <2>3, <2>4, SyncGoesOn
<1> QED BY <1>2, <1>3

\* A sync that goes on has what it loaded still.
LEMMA OnwardMoves ==
  ASSUME SyncTyped, NEW s \in Syncs, NEW step \in SyncPc, Onward(s, step)
  PROVE  \E c \in SyncOrder : /\ sync' = [sync EXCEPT ![s] = c]
                              /\ c.pc = step /\ c.at = sync[s].at /\ c.paid = sync[s].paid /\ c.email = sync[s].email /\ c.doc = sync[s].doc
<1>1. LET c == [sync[s] EXCEPT !.pc = step]
      IN c \in SyncOrder /\ c.pc = step /\ c.at = sync[s].at /\ c.paid = sync[s].paid /\ c.email = sync[s].email /\ c.doc = sync[s].doc
  BY DEF SyncOrder, SyncTyped
<1> QED BY <1>1 DEF Onward

LEMMA SyncUpdates ==
  ASSUME SyncInv, NEW s \in Syncs, UpdateEvent(s)
  PROVE  SyncInv'
<1>t. SyncTyped /\ sync[s] \in SyncOrder
  BY DEF SyncInv, SyncTyped
<1>1. sync[s].pc = "update" /\ UNCHANGED <<app, booking, doc, made, invoice, told, again, overlap, failures, touched>>
  BY DEF UpdateEvent, AtSync, history
<1>2. CASE \E e \in calendar : e.id = sync[s].doc
  <2>1. /\ calendar' = {IF e.id = sync[s].doc THEN [e EXCEPT !.at = sync[s].at] ELSE e : e \in calendar}
        /\ sync' = [sync EXCEPT ![s] = NoSync] /\ locked' = Free
    BY <1>2 DEF UpdateEvent, Release, EndSync
  <2>2. SyncTyped'
    BY <1>t, <1>1, <2>1, NoSyncTyped DEF SyncTyped
  <2>3. ASSUME Follows(sync[s]) PROVE Follows(NoSync)'
    <3>1. ASSUME app = "google" PROVE CalendarFollows(NoSync)'
      <4>1. sync[s].doc = doc /\ sync[s].at = booking.at /\ booking.status # "Cancelled" /\ OneEvent /\ ~NoEvent
        BY <1>1, <2>3, <3>1 DEF Follows, CalendarFollows
      <4>2. PICK at \in Nat : doc # 0 /\ calendar = {[id |-> doc, at |-> at]}
        BY <1>2, <4>1 DEF OneEvent, EventAt, EventGone
      <4>3. calendar' = {[[id |-> doc, at |-> at] EXCEPT !.at = sync[s].at]}
        BY <2>1, <4>1, <4>2
      <4>4. [[id |-> doc, at |-> at] EXCEPT !.at = sync[s].at] = [id |-> doc, at |-> sync[s].at]
        OBVIOUS
      <4>5. EventAt(booking.at)'
        BY <1>1, <4>1, <4>2, <4>3, <4>4 DEF EventAt
      <4> QED BY <1>1, <4>1, <4>5, NoSyncTyped DEF CalendarFollows, EventRecorded, NoEvent, EventAt
    <3>2. app = "zoho" /\ ~again => BooksFollow(NoSync)'
      BY <1>1, <2>3 DEF Follows, BooksFollow
    <3> QED BY <1>1, <2>1, <3>1, <3>2 DEF Follows
  <2> QED BY <1>1, <2>1, <2>2, <2>3, NoSyncTyped, SyncGoesOn
<1>3. CASE ~\E e \in calendar : e.id = sync[s].doc
  <2>1. Onward(s, "make") /\ calendar' = calendar
    BY <1>3 DEF UpdateEvent
  <2>2. PICK c \in SyncOrder : /\ sync' = [sync EXCEPT ![s] = c]
                               /\ c.pc = "make" /\ c.at = sync[s].at /\ c.doc = sync[s].doc
    BY <1>t, <2>1, OnwardMoves DEF SyncPc
  <2>3. SyncTyped'
    BY <1>t, <1>1, <2>2 DEF SyncTyped
  <2>4. ASSUME Follows(sync[s]) PROVE Follows(c)'
    <3>1. ASSUME app = "google" PROVE CalendarFollows(c)'
      <4>1. sync[s].doc = doc /\ sync[s].at = booking.at /\ booking.status # "Cancelled" /\ OneEvent /\ ~NoEvent
        BY <1>1, <2>4, <3>1 DEF Follows, CalendarFollows
      <4>2. calendar = {}
        BY <1>3, <4>1 DEF OneEvent, EventAt, EventGone
      <4> QED BY <1>1, <2>1, <2>2, <4>1, <4>2 DEF CalendarFollows
    <3>2. app = "zoho" /\ ~again => BooksFollow(c)'
      BY <1>1, <2>4 DEF Follows, BooksFollow
    <3> QED BY <1>1, <2>2, <3>1, <3>2 DEF Follows
  <2> QED BY <1>1, <2>2, <2>3, <2>4, SyncGoesOn
<1> QED BY <1>2, <1>3

LEMMA SyncMakes ==
  ASSUME SyncInv, NEW s \in Syncs, MakeDoc(s)
  PROVE  SyncInv'
<1> USE SyncAssumptions
<1>t. SyncTyped /\ sync[s] \in SyncOrder /\ made \in Nat /\ made + 1 \in 1..MaxDocs
  BY DEF SyncInv, SyncTyped, MakeDoc
<1>1. /\ sync[s].pc = "make" /\ UNCHANGED <<app, booking, doc, locked, told, again, overlap, failures, touched>> /\ made' = made + 1
      /\ app = "google" => calendar' = calendar \union {[id |-> made + 1, at |-> sync[s].at]} /\ invoice' = invoice
      /\ app # "google" => /\ sync[s].email \/ (again /\ failures > 0)
                           /\ invoice' = [invoice EXCEPT ![made + 1] = "unpaid"] /\ calendar' = calendar
  BY DEF MakeDoc, ContactFor, AtSync, history
<1>2. PICK c \in SyncOrder : /\ sync' = [sync EXCEPT ![s] = c]
                             /\ c.pc = "keep" /\ c.at = sync[s].at /\ c.paid = sync[s].paid /\ c.email = sync[s].email /\ c.doc = made + 1
  <2>1. sync' = [sync EXCEPT ![s] = [[sync[s] EXCEPT !.pc = "keep"] EXCEPT !.doc = made + 1]]
    BY <1>t DEF MakeDoc, SyncTyped
  <2>2. LET c == [[sync[s] EXCEPT !.pc = "keep"] EXCEPT !.doc = made + 1]
        IN c \in SyncOrder /\ c.pc = "keep" /\ c.at = sync[s].at /\ c.paid = sync[s].paid /\ c.email = sync[s].email /\ c.doc = made + 1
    <3>1. \A d \in SyncOrder : LET c == [d EXCEPT !.pc = "keep"] IN c \in SyncOrder /\ c.pc = "keep" /\ c.at = d.at /\ c.paid = d.paid /\ c.email = d.email
      BY DEF SyncOrder, SyncPc
    <3>2. \A d \in SyncOrder, n \in Nat : LET c == [d EXCEPT !.doc = n]
                                        IN c \in SyncOrder /\ c.pc = d.pc /\ c.at = d.at /\ c.paid = d.paid /\ c.email = d.email /\ c.doc = n
      BY DEF SyncOrder
    <3>3. PICK d \in SyncOrder : d = [sync[s] EXCEPT !.pc = "keep"] /\ d.pc = "keep" /\ d.at = sync[s].at /\ d.paid = sync[s].paid /\ d.email = sync[s].email
      BY <1>t, <3>1
    <3>4. LET c == [d EXCEPT !.doc = made + 1]
          IN c \in SyncOrder /\ c.pc = d.pc /\ c.at = d.at /\ c.paid = d.paid /\ c.email = d.email /\ c.doc = made + 1
      BY <1>t, <3>2
    <3> QED BY <3>3, <3>4
  <2> QED BY <2>1, <2>2
<1>3. SyncTyped'
  BY <1>t, <1>1, <1>2 DEF SyncTyped
<1>4. ASSUME Follows(sync[s]) PROVE Follows(c)'
  <2>1. app = "google" => CalendarFollows(c)'
    BY <1>t, <1>1, <1>2, <1>4 DEF Follows, CalendarFollows
  <2>2. ASSUME app = "zoho", ~again PROVE BooksFollow(c)'
    <3>1. /\ booking.status \in {"Confirmed", "Completed"} /\ sync[s].paid = booking.paid /\ doc = 0 /\ Standing = {}
          /\ sync[s].email /\ sync[s].email = booking.email
      BY <1>1, <1>4, <2>2 DEF Follows, BooksFollow, NoInvoice
    <3>2. invoice'[made + 1] = "unpaid" /\ \A i \in 1..MaxDocs \ {made + 1} : invoice'[i] = invoice[i]
      BY <1>t, <1>1, <2>2 DEF SyncTyped
    <3>3. Standing' = {made + 1}
      BY <1>t, <3>1, <3>2 DEF Standing
    <3> QED BY <1>t, <1>1, <1>2, <3>1, <3>2, <3>3 DEF BooksFollow
  <2> QED BY <1>1, <1>2, <2>1, <2>2 DEF Follows
<1> QED BY <1>1, <1>2, <1>3, <1>4, SyncGoesOn

\* No invoice for a client without an email.
LEMMA SyncSkips ==
  ASSUME SyncInv, NEW s \in Syncs, SkipInvoice(s)
  PROVE  SyncInv'
<1>t. SyncTyped /\ sync[s] \in SyncOrder
  BY DEF SyncInv, SyncTyped
<1>1. /\ sync[s].pc = "make" /\ app = "zoho" /\ ~sync[s].email /\ sync' = [sync EXCEPT ![s] = NoSync] /\ locked' = Free
      /\ UNCHANGED <<app, booking, doc, made, calendar, invoice, told, again, overlap, failures, touched>>
  BY DEF SkipInvoice, Release, EndSync, AtSync, atApps, history
<1>2. SyncTyped'
  BY <1>t, <1>1, NoSyncTyped DEF SyncTyped
<1>3. ASSUME Follows(sync[s]) PROVE Follows(NoSync)'
  <2>1. ASSUME ~again PROVE BooksFollow(NoSync)'
    <3>1. booking.status \in {"Confirmed", "Completed"} /\ ~booking.email /\ NoInvoice
      BY <1>1, <1>3, <2>1 DEF Follows, BooksFollow
    <3>2. NoInvoice'
      BY <1>1, <3>1 DEF NoInvoice, Standing
    <3> QED BY <1>1, <3>1, <3>2, NoSyncTyped DEF BooksFollow, InvoicedAsBooked, IsOnCalendar
  <2> QED BY <1>1, <2>1 DEF Follows
<1> QED BY <1>1, <1>2, <1>3, NoSyncTyped, SyncGoesOn

LEMMA SyncKeeps ==
  ASSUME SyncInv, NEW s \in Syncs, KeepDocId(s)
  PROVE  SyncInv'
<1>t. SyncTyped /\ sync[s] \in SyncOrder /\ sync[s].doc \in Nat
  BY DEF SyncInv, SyncTyped, SyncOrder
<1>1. /\ sync[s].pc = "keep" /\ UNCHANGED <<app, booking, made, calendar, invoice, told, again, overlap, failures, touched>>
      /\ doc' = IF app = "google" \/ doc = 0 THEN sync[s].doc ELSE doc
  BY DEF KeepDocId, AtSync, atApps, history
<1>2. CASE app = "zoho" /\ sync[s].paid
  <2>1. Onward(s, "pay") /\ locked' = locked
    BY <1>2 DEF KeepDocId
  <2>2. PICK c \in SyncOrder : /\ sync' = [sync EXCEPT ![s] = c]
                               /\ c.pc = "pay" /\ c.paid = sync[s].paid /\ c.email = sync[s].email /\ c.doc = sync[s].doc
    BY <1>t, <2>1, OnwardMoves DEF SyncPc
  <2>3. SyncTyped'
    BY <1>t, <1>1, <2>2 DEF SyncTyped
  <2>4. ASSUME Follows(sync[s]) PROVE Follows(c)'
    <3>1. ASSUME ~again PROVE BooksFollow(c)'
      <4>1. /\ booking.status \in {"Confirmed", "Completed"} /\ sync[s].paid = booking.paid
            /\ doc = 0 /\ sync[s].doc # 0 /\ Standing = {sync[s].doc} /\ booking.email /\ sync[s].email = booking.email
        <5>1. BooksFollow(sync[s])
          BY <1>2, <2>4, <3>1 DEF Follows
        <5>2. sync[s].pc = "keep"
          BY <1>1
        <5> QED BY <5>1, <5>2 DEF BooksFollow
      <4>2. doc' = sync[s].doc /\ Standing' = Standing
        BY <1>1, <4>1 DEF Standing
      <4> QED BY <1>1, <1>2, <2>2, <4>1, <4>2 DEF BooksFollow, Invoiced
    <3> QED BY <1>1, <1>2, <2>2, <3>1 DEF Follows
  <2> QED BY <1>1, <2>2, <2>3, <2>4, SyncGoesOn
<1>3. CASE ~(app = "zoho" /\ sync[s].paid)
  <2>1. sync' = [sync EXCEPT ![s] = NoSync] /\ locked' = Free
    BY <1>3 DEF KeepDocId, Release, EndSync
  <2>2. SyncTyped'
    BY <1>t, <1>1, <2>1, NoSyncTyped DEF SyncTyped
  <2>3. ASSUME Follows(sync[s]) PROVE Follows(NoSync)'
    <3>1. app = "google" => CalendarFollows(NoSync)'
      BY <1>1, <2>3, NoSyncTyped DEF Follows, CalendarFollows, EventRecorded, NoEvent, EventAt, EventGone
    <3>2. app = "zoho" /\ ~again => BooksFollow(NoSync)'
      BY <1>1, <1>3, <2>3, NoSyncTyped DEF Follows, BooksFollow, Invoiced, PaidAsBooked, InvoicedAsBooked, Standing
    <3> QED BY <1>1, <2>1, <3>1, <3>2 DEF Follows
  <2> QED BY <1>1, <2>1, <2>2, <2>3, NoSyncTyped, SyncGoesOn
<1> QED BY <1>2, <1>3

LEMMA SyncPays ==
  ASSUME SyncInv, NEW s \in Syncs, RecordPayment(s)
  PROVE  SyncInv'
<1>t. SyncTyped /\ invoice \in [1..MaxDocs -> {"none", "unpaid", "paid", "void"}]
  BY DEF SyncInv, SyncTyped
<1>1. /\ sync[s].pc = "pay" /\ UNCHANGED <<app, booking, doc, made, calendar, told, again, overlap, failures, touched>>
      /\ invoice' = [invoice EXCEPT ![sync[s].doc] = "paid"] /\ sync' = [sync EXCEPT ![s] = NoSync] /\ locked' = Free
  BY DEF RecordPayment, Release, EndSync, AtSync, history
<1>2. SyncTyped'
  BY <1>t, <1>1, NoSyncTyped DEF SyncTyped
<1>3. ASSUME Follows(sync[s]) PROVE Follows(NoSync)'
  <2>1. app # "google"
    BY <1>1, <1>3 DEF Follows, CalendarFollows
  <2>2. ASSUME app = "zoho", ~again PROVE BooksFollow(NoSync)'
    <3>1. booking.status \in {"Confirmed", "Completed"} /\ booking.paid = TRUE /\ booking.email /\ sync[s].doc = doc /\ doc # 0 /\ Standing = {doc}
      <4>1. sync[s].paid = booking.paid /\ sync[s].paid /\ booking.paid \in BOOLEAN
        BY <1>1, <1>3, <2>2, <1>t DEF Follows, BooksFollow, SyncTyped
      <4> QED BY <1>1, <1>3, <2>2, <4>1 DEF Follows, BooksFollow, Invoiced
    <3>2. doc \in 1..MaxDocs
      BY <3>1 DEF Standing
    <3>3. invoice'[doc] = "paid" /\ \A i \in 1..MaxDocs \ {doc} : invoice'[i] = invoice[i]
      BY <1>t, <1>1, <3>1, <3>2
    <3>4. Standing' = Standing
      BY <3>1, <3>2, <3>3 DEF Standing
    <3> QED BY <1>1, <3>1, <3>3, <3>4, NoSyncTyped DEF BooksFollow, Invoiced, PaidAsBooked, InvoicedAsBooked, IsOnCalendar
  <2> QED BY <1>1, <2>1, <2>2 DEF Follows
<1> QED BY <1>1, <1>2, <1>3, NoSyncTyped, SyncGoesOn

LEMMA SyncRemoves ==
  ASSUME SyncInv, NEW s \in Syncs, DeleteEvent(s) \/ ClearEventId(s) \/ VoidInvoice(s)
  PROVE  SyncInv'
<1>t. SyncTyped /\ invoice \in [1..MaxDocs -> {"none", "unpaid", "paid", "void"}]
  BY DEF SyncInv, SyncTyped
<1>1. CASE DeleteEvent(s)
  <2>1. /\ sync[s].pc = "remove" /\ app = "google" /\ calendar' = {e \in calendar : e.id # sync[s].doc} /\ Onward(s, "clear")
        /\ UNCHANGED <<app, booking, doc, invoice, made, locked, told, again, overlap, failures, touched>>
    BY <1>1 DEF DeleteEvent, AtSync, history
  <2>2. PICK c \in SyncOrder : sync' = [sync EXCEPT ![s] = c] /\ c.pc = "clear" /\ c.doc = sync[s].doc
    BY <1>t, <2>1, OnwardMoves DEF SyncPc
  <2>3. SyncTyped'
    BY <1>t, <2>1, <2>2 DEF SyncTyped
  <2>4. ASSUME Follows(sync[s]) PROVE Follows(c)'
    <3>1. booking.status \in {"Cancelled", "Pending"} /\ sync[s].doc = doc /\ EventRecorded /\ ~NoEvent
      BY <2>1, <2>4 DEF Follows, CalendarFollows
    <3>2. calendar' = {}
      BY <2>1, <3>1 DEF EventRecorded, EventAt, EventGone
    <3> QED BY <2>1, <2>2, <2>4, <3>1, <3>2 DEF Follows, CalendarFollows
  <2> QED BY <2>1, <2>2, <2>3, <2>4, SyncGoesOn
<1>2. CASE ClearEventId(s)
  <2>1. /\ sync[s].pc = "clear" /\ doc' = (IF doc = sync[s].doc THEN 0 ELSE doc) /\ sync' = [sync EXCEPT ![s] = NoSync]
        /\ UNCHANGED <<app, booking, made, calendar, invoice, locked, told, again, overlap, failures, touched>>
    BY <1>2 DEF ClearEventId, EndSync, AtSync, atApps, history
  <2>2. SyncTyped'
    BY <1>t, <2>1, NoSyncTyped DEF SyncTyped
  <2>3. ASSUME Follows(sync[s]) PROVE Follows(NoSync)'
    <3>1. app = "google" => CalendarFollows(NoSync)'
      BY <2>1, <2>3, NoSyncTyped DEF Follows, CalendarFollows, EventRecorded, NoEvent, IsOnCalendar
    <3>2. ~(app = "zoho" /\ ~again)
      BY <2>1, <2>3 DEF Follows, BooksFollow
    <3> QED BY <2>1, <2>3, <3>1, <3>2 DEF Follows
  <2> QED BY <2>1, <2>2, <2>3, NoSyncTyped, SyncGoesOn
<1>3. CASE VoidInvoice(s)
  <2>1. /\ sync[s].pc = "remove" /\ app = "zoho" /\ sync' = [sync EXCEPT ![s] = NoSync]
        /\ invoice' = [invoice EXCEPT ![sync[s].doc] = IF invoice[sync[s].doc] = "unpaid" THEN "void" ELSE invoice[sync[s].doc]]
        /\ told' = (told \/ invoice[sync[s].doc] = "paid")
        /\ UNCHANGED <<app, booking, doc, calendar, made, locked, again, overlap, failures, touched>>
    BY <1>3 DEF VoidInvoice, EndSync, AtSync, history
  <2>2. SyncTyped'
    BY <1>t, <2>1, NoSyncTyped DEF SyncTyped
  <2>3. ASSUME Follows(sync[s]) PROVE Follows(NoSync)'
    <3>1. ASSUME ~again PROVE BooksFollow(NoSync)'
      <4>1. booking.status = "Cancelled" /\ sync[s].doc = doc /\ Standing = {doc}
        BY <2>1, <2>3, <3>1 DEF Follows, BooksFollow, Invoiced
      <4>2. doc \in 1..MaxDocs /\ invoice[doc] \in {"unpaid", "paid"}
        BY <4>1 DEF Standing
      <4>3. \A i \in 1..MaxDocs \ {doc} : invoice'[i] = invoice[i]
        BY <1>t, <2>1, <4>1, <4>2
      <4>4. CASE invoice[doc] = "unpaid"
        <5>1. invoice'[doc] = "void"
          BY <1>t, <2>1, <4>1, <4>2, <4>4
        <5>2. Standing' = {}
          BY <4>1, <4>2, <4>3, <5>1 DEF Standing
        <5> QED BY <2>1, <4>1, <5>2, NoSyncTyped DEF BooksFollow, IsOnCalendar
      <4>5. CASE invoice[doc] = "paid"
        <5>1. invoice'[doc] = "paid" /\ told'
          BY <1>t, <2>1, <4>1, <4>2, <4>5
        <5>2. Standing' = {doc}
          BY <4>1, <4>2, <4>3, <5>1 DEF Standing
        <5> QED BY <2>1, <4>1, <5>1, <5>2, NoSyncTyped DEF BooksFollow, IsOnCalendar
      <4> QED BY <4>2, <4>4, <4>5
    <3> QED BY <2>1, <2>3, <3>1 DEF Follows
  <2> QED BY <2>1, <2>2, <2>3, NoSyncTyped, SyncGoesOn
<1> QED BY <1>1, <1>2, <1>3

\* While a booking changes one change at a time and no call fails, the app
\* follows it: its one event at its time, or its one invoice, paid if it is, and
\* none for a client without an email; none once cancelled, unless a payment is on it (calendarSync.ts,
\* booksSync.ts).
THEOREM AppsFollowBookings == OfficeSpec => []AppFollowsBooking
<1>1. OfficeInit => SyncInv
  <2> SUFFICES ASSUME OfficeInit PROVE SyncInv
    OBVIOUS
  <2>1. /\ SyncInit /\ booking.status = "Pending" /\ doc = 0 /\ calendar = {} /\ locked = Free
        /\ \A s \in Syncs : sync[s] = NoSync
    BY DEF OfficeInit, SyncInit
  <2>2. Standing = {}
    BY <2>1 DEF SyncInit, Standing
  <2>3. SyncTyped
    <3>1. booking = [status |-> "Pending", at |-> 0, paid |-> FALSE, email |-> FALSE]
      BY DEF OfficeInit, SyncInit
    <3>2. booking \in [status : Statuses, at : Nat, paid : BOOLEAN, email : BOOLEAN]
      BY <3>1 DEF Statuses
    <3>3. sync \in [Syncs -> SyncOrder] /\ invoice \in [1..MaxDocs -> {"none", "unpaid", "paid", "void"}]
      BY <2>1, NoSyncTyped DEF SyncInit
    <3> QED BY <2>1, <3>2, <3>3 DEF SyncInit, SyncTyped
  <2>4. Follows(NoSync)
    BY <2>1, <2>2, NoSyncTyped DEF Follows, CalendarFollows, BooksFollow, EventRecorded, NoEvent, NoInvoice, IsOnCalendar
  <2> QED BY <2>1, <2>3, <2>4, NoSyncTyped DEF SyncInv
<1>2. SyncInv /\ [OfficeNext]_officeVars => SyncInv'
  <2> SUFFICES ASSUME SyncInv, [SyncNext]_syncVars PROVE SyncInv'
    BY SyncTakesItsSteps
  <2>1. CASE BookingConfirmed \/ BookingMoved \/ BookingCancelled
    BY <2>1, SyncStarts
  <2>2. CASE BookingRestored \/ BookingCompleted \/ LockExpires \/ OwnerDeletesEvent \/ UNCHANGED syncVars
    BY <2>2, SyncOthers
  <2>3. ASSUME NEW s \in Syncs, LoadSyncOrder(s) \/ TakeLock(s) PROVE SyncInv'
    BY <2>3, SyncLoads, SyncLocks
  <2>4. ASSUME NEW s \in Syncs, UpdateEvent(s) \/ SkipInvoice(s) \/ MakeDoc(s) PROVE SyncInv'
    BY <2>4, SyncUpdates, SyncSkips, SyncMakes
  <2>5. ASSUME NEW s \in Syncs, KeepDocId(s) \/ RecordPayment(s) PROVE SyncInv'
    BY <2>5, SyncKeeps, SyncPays
  <2>6. ASSUME NEW s \in Syncs, DeleteEvent(s) \/ ClearEventId(s) \/ VoidInvoice(s) PROVE SyncInv'
    BY <2>6, SyncRemoves
  <2>7. ASSUME NEW s \in Syncs, CallFails(s) \/ SyncKilled(s) PROVE SyncInv'
    BY <2>7, CallsThatFail
  <2> QED BY <2>1, <2>2, <2>3, <2>4, <2>5, <2>6, <2>7 DEF SyncNext
<1>3. SyncInv => AppFollowsBooking
  <2> SUFFICES ASSUME SyncInv, ~overlap, failures = 0, Quiet PROVE AppFollowsBooking
    BY DEF AppFollowsBooking
  <2>1. Follows(NoSync)
    BY DEF SyncInv
  <2>2. app = "google" => /\ IsOnCalendar(booking.status) => calendar = OneEventAtItsTime \/ (touched /\ calendar = {})
                          /\ booking.status = "Cancelled" => calendar = {} /\ doc = 0
    BY <2>1, NoSyncTyped DEF Follows, CalendarFollows, EventRecorded, NoEvent, EventAt, EventGone, OneEventAtItsTime
  <2>3. app = "zoho" /\ ~again => /\ IsOnCalendar(booking.status) =>
                                       IF booking.email THEN Standing = {doc} /\ (invoice[doc] = "paid" <=> booking.paid)
                                       ELSE Standing = {} /\ doc = 0
                                  /\ booking.status = "Cancelled" => Standing = {} \/ (Standing = {doc} /\ told)
    BY <2>1, NoSyncTyped DEF Follows, BooksFollow, NoInvoice, Invoiced, PaidAsBooked, InvoicedAsBooked
  <2> QED BY <2>2, <2>3 DEF AppFollowsBooking
<1> QED BY <1>1, <1>2, <1>3, PTL DEF OfficeSpec
=============================================================================
