-------------------------------- MODULE Payouts --------------------------------
(***************************************************************************)
(* Paying a salon's withdrawal out.  A request waits for KHS; once it is   *)
(* approved the salon sends it to its own connected account, or KHS pays   *)
(* it by hand.  A Stripe transfer is final at once; an Airwallex one is    *)
(* accepted first and its outcome is read back later, by the salon's       *)
(* refresh or after Airwallex's webhook.                                   *)
(*                                                                         *)
(* A handler is a request or a webhook delivery being served; what it read *)
(* before a provider's answer is what it acts on afterwards.               *)
(***************************************************************************)
EXTENDS Naturals

CONSTANTS
  Withdrawals,
  Kind,          \* each withdrawal's payout account: "stripe", "airwallex" or "bank"
  Transfers,     \* transfers the providers may make
  NoTransfer,    \* an empty payoutReference
  Handlers,
  MaxCrashes     \* server crashes considered (a bound of the model)

ASSUME PayoutAssumptions ==
  /\ Withdrawals # {}
  /\ Kind \in [Withdrawals -> {"stripe", "airwallex", "bank"}]
  /\ NoTransfer \notin Transfers
  /\ MaxCrashes \in Nat

VARIABLES
  status,     \* of each withdrawal
  ref,        \* its payoutReference
  ledger,     \* withdrawals whose ledger row is completed
  byHand,     \* withdrawals KHS paid by hand (known to KHS)
  transfer,   \* each transfer, at its provider
  forgotten,  \* transfers whose idempotency key has expired
  events,     \* transfers whose outcome Airwallex has still to deliver
  job,        \* what each handler is doing
  crashes     \* crashes so far

vars == <<status, ref, ledger, byHand, transfer, forgotten, events, job, crashes>>
provider == <<transfer, forgotten>>

WithdrawalStatus == {"None", "Pending", "Processing", "Submitted", "Completed", "Cancelled", "Rejected"}
TransferState == {"none", "open", "paid", "failed"}
References == Transfers \union {NoTransfer}

Transfer == [state : TransferState, of : Withdrawals, retryOf : References]

\* What a handler is at, the withdrawal and payoutReference it read or the
\* transfer it was given, and the webhook event it will acknowledge.
Job == [pc : {"idle", "send", "record", "ledger", "ask", "apply"}, of : Withdrawals, ref : References, event : SUBSET Transfers]

SomeWithdrawal == CHOOSE w \in Withdrawals : TRUE
IdleJob == [pc |-> "idle", of |-> SomeWithdrawal, ref |-> NoTransfer, event |-> {}]

TypeOK ==
  /\ status \in [Withdrawals -> WithdrawalStatus]
  /\ ref \in [Withdrawals -> References]
  /\ ledger \subseteq Withdrawals
  /\ byHand \subseteq Withdrawals
  /\ transfer \in [Transfers -> Transfer]
  /\ forgotten \subseteq Transfers
  /\ events \subseteq Transfers
  /\ job \in [Handlers -> Job]
  /\ crashes \in 0..MaxCrashes

Init ==
  /\ status = [w \in Withdrawals |-> "None"]
  /\ ref = [w \in Withdrawals |-> NoTransfer]
  /\ ledger = {}
  /\ byHand = {}
  /\ transfer = [t \in Transfers |-> [state |-> "none", of |-> SomeWithdrawal, retryOf |-> NoTransfer]]
  /\ forgotten = {}
  /\ events = {}
  /\ job = [h \in Handlers |-> IdleJob]
  /\ crashes = 0

Continue(h, j) == job' = [job EXCEPT ![h] = j]
Done(h) == Continue(h, IdleJob)
At(h, step) == job[h].pc = step

-----------------------------------------------------------------------------
(* The request, and KHS's review of it (the balance is SalonWallet's). *)

RequestWithdrawal(w) ==
  /\ status[w] = "None"
  /\ status' = [status EXCEPT ![w] = "Pending"]
  /\ UNCHANGED <<ref, ledger, byHand, provider, events, job, crashes>>

\* Mutant: a request that was approved meanwhile is taken back as well.
CancelAnyOpen(w) ==
  /\ status[w] \in {"Pending", "Processing"}
  /\ status' = [status EXCEPT ![w] = "Cancelled"]
  /\ UNCHANGED <<ref, ledger, byHand, provider, events, job, crashes>>

CancelWithdrawal(w) ==
  /\ status[w] = "Pending"
  /\ status' = [status EXCEPT ![w] = "Cancelled"]
  /\ UNCHANGED <<ref, ledger, byHand, provider, events, job, crashes>>

\* KHS approves or rejects it (external: the staff backend).
ReviewWithdrawal(w) ==
  /\ status[w] = "Pending"
  /\ \E answer \in {"Processing", "Rejected"} : status' = [status EXCEPT ![w] = answer]
  /\ UNCHANGED <<ref, ledger, byHand, provider, events, job, crashes>>

\* KHS pays an approved withdrawal by hand, whatever its account, and marks it
\* (external).  It cannot see a transfer the salon is having made.
PayByHand(w) ==
  /\ status[w] = "Processing"
  /\ status' = [status EXCEPT ![w] = "Completed"]
  /\ ledger' = ledger \union {w}
  /\ byHand' = byHand \union {w}
  /\ UNCHANGED <<ref, provider, events, job, crashes>>

-----------------------------------------------------------------------------
(* claimWithdrawal: read, send, record. *)

\* The idempotency key is the withdrawal's id; an Airwallex retry adds the
\* transfer the last attempt left behind.  A bank account, and one whose rail is
\* not available, is refused and left to KHS.
ClaimWithdrawal(h, w) ==
  /\ At(h, "idle")
  /\ status[w] = "Processing"
  /\ Kind[w] # "bank"
  /\ Continue(h, [IdleJob EXCEPT !.pc = "send", !.of = w, !.ref = IF Kind[w] = "airwallex" THEN ref[w] ELSE NoTransfer])
  /\ UNCHANGED <<status, ref, ledger, byHand, provider, events, crashes>>

\* The transfer a provider already made for a key it still remembers.
Made(w, retryOf) ==
  {t \in Transfers \ forgotten : transfer[t].state # "none" /\ transfer[t].of = w /\ transfer[t].retryOf = retryOf}

\* Mutant: no idempotency key, so every call makes a transfer.
SendAlways(h, t) ==
  /\ At(h, "send")
  /\ transfer[t].state = "none"
  /\ transfer' = [transfer EXCEPT ![t] = [state |-> IF Kind[job[h].of] = "stripe" THEN "paid" ELSE "open", of |-> job[h].of, retryOf |-> job[h].ref]]
  /\ \/ Continue(h, [job[h] EXCEPT !.pc = "record", !.ref = t])
     \/ Done(h)
  /\ UNCHANGED <<status, ref, ledger, byHand, forgotten, events, crashes>>

\* The provider makes the transfer, or answers with the one it made for this
\* key.  Its answer may be lost (a timeout): the request then ends with an error.
SendTransfer(h, t) ==
  /\ At(h, "send")
  /\ LET w == job[h].of
         made == Made(w, job[h].ref) IN
     \/ t \in made /\ UNCHANGED transfer
     \/ /\ made = {}
        /\ transfer[t].state = "none"
        /\ transfer' = [transfer EXCEPT ![t] = [state |-> IF Kind[w] = "stripe" THEN "paid" ELSE "open", of |-> w, retryOf |-> job[h].ref]]
  /\ \/ Continue(h, [job[h] EXCEPT !.pc = "record", !.ref = t])
     \/ Done(h)
  /\ UNCHANGED <<status, ref, ledger, byHand, forgotten, events, crashes>>

\* Recorded only if the withdrawal is still to be sent.
RecordTransfer(h) ==
  /\ At(h, "record")
  /\ LET w == job[h].of IN
     IF status[w] # "Processing"
     THEN UNCHANGED <<status, ref>> /\ Done(h)
     ELSE /\ status' = [status EXCEPT ![w] = IF Kind[w] = "stripe" THEN "Completed" ELSE "Submitted"]
          /\ ref' = [ref EXCEPT ![w] = job[h].ref]
          /\ IF Kind[w] = "stripe" THEN Continue(h, [job[h] EXCEPT !.pc = "ledger"]) ELSE Done(h)
  /\ UNCHANGED <<ledger, byHand, provider, events, crashes>>

\* markLedgerCompleted, a statement of its own; the salon is then told.
CompleteLedger(h) ==
  /\ At(h, "ledger")
  /\ ledger' = ledger \union {job[h].of}
  /\ Done(h)
  /\ UNCHANGED <<status, ref, byHand, provider, events, crashes>>

-----------------------------------------------------------------------------
(* Finding out what became of an Airwallex transfer. *)

Recorded(w, t) == Kind[w] = "airwallex" /\ status[w] = "Submitted" /\ ref[w] = t

RefreshPayoutStatus(h, w) ==
  /\ At(h, "idle")
  /\ ref[w] # NoTransfer
  /\ Recorded(w, ref[w])
  /\ Continue(h, [IdleJob EXCEPT !.pc = "ask", !.of = w, !.ref = ref[w]])
  /\ UNCHANGED <<status, ref, ledger, byHand, provider, events, crashes>>

\* The webhook: a transfer that is no Submitted payout here is acknowledged and
\* forgotten.  Otherwise the event is acknowledged when the handler ends well.
DeliverEvent(h, t) ==
  /\ At(h, "idle")
  /\ t \in events
  /\ events' = events \ {t}
  /\ \/ \E w \in Withdrawals : Recorded(w, t) /\ Continue(h, [pc |-> "ask", of |-> w, ref |-> t, event |-> {t}])
     \/ (\A w \in Withdrawals : ~Recorded(w, t)) /\ UNCHANGED job
  /\ UNCHANGED <<status, ref, ledger, byHand, provider, crashes>>

\* The status is read back from Airwallex; nothing is done about one under way.
RetrieveTransfer(h) ==
  /\ At(h, "ask")
  /\ IF transfer[job[h].ref].state = "open" THEN Done(h) ELSE Continue(h, [job[h] EXCEPT !.pc = "apply"])
  /\ UNCHANGED <<status, ref, ledger, byHand, provider, events, crashes>>

\* Mutant: a failed transfer is taken for a sent one.
ApplyAsPaid(h) ==
  /\ At(h, "apply")
  /\ LET w == job[h].of IN
     IF status[w] # "Submitted"
     THEN UNCHANGED status /\ Done(h)
     ELSE status' = [status EXCEPT ![w] = "Completed"] /\ Continue(h, [job[h] EXCEPT !.pc = "ledger"])
  /\ UNCHANGED <<ref, ledger, byHand, provider, events, crashes>>

\* applyTransferStatus: sent or paid completes the withdrawal, failed puts it
\* back to be sent again.  Only from Submitted; which transfer is recorded by
\* now is not looked at.
ApplyTransferStatus(h) ==
  /\ At(h, "apply")
  /\ LET w == job[h].of IN
     IF status[w] # "Submitted"
     THEN UNCHANGED status /\ Done(h)
     ELSE IF transfer[job[h].ref].state = "paid"
     THEN status' = [status EXCEPT ![w] = "Completed"] /\ Continue(h, [job[h] EXCEPT !.pc = "ledger"])
     ELSE status' = [status EXCEPT ![w] = "Processing"] /\ Done(h)
  /\ UNCHANGED <<ref, ledger, byHand, provider, events, crashes>>

-----------------------------------------------------------------------------
(* The providers (external), and what goes wrong. *)

TransferEnds(t) ==
  /\ transfer[t].state = "open"
  /\ \E s \in {"paid", "failed"} : transfer' = [transfer EXCEPT ![t].state = s]
  /\ events' = events \union {t}
  /\ UNCHANGED <<status, ref, ledger, byHand, forgotten, job, crashes>>

\* Stripe keeps a key for 24 hours (lib/stripe), far longer than any request.
KeyExpires(t) ==
  /\ transfer[t].state # "none"
  /\ t \notin forgotten
  /\ \A h \in Handlers : At(h, "idle")
  /\ forgotten' = forgotten \union {t}
  /\ UNCHANGED <<status, ref, ledger, byHand, transfer, events, job, crashes>>

\* The provider refuses or can't be reached; a webhook answered 500 is delivered again.
ProviderFails(h) ==
  /\ job[h].pc \in {"send", "ask"}
  /\ events' = events \union job[h].event
  /\ Done(h)
  /\ UNCHANGED <<status, ref, ledger, byHand, provider, crashes>>

Crash(h) ==
  /\ crashes < MaxCrashes
  /\ ~At(h, "idle")
  /\ crashes' = crashes + 1
  /\ events' = events \union job[h].event
  /\ Done(h)
  /\ UNCHANGED <<status, ref, ledger, byHand, provider>>

HandlerStep(h) ==
  \/ \E t \in Transfers : SendTransfer(h, t)
  \/ RecordTransfer(h) \/ CompleteLedger(h) \/ RetrieveTransfer(h) \/ ApplyTransferStatus(h) \/ ProviderFails(h)

Next ==
  \/ \E w \in Withdrawals :
       \/ RequestWithdrawal(w) \/ CancelWithdrawal(w) \/ ReviewWithdrawal(w) \/ PayByHand(w)
       \/ \E h \in Handlers : ClaimWithdrawal(h, w) \/ RefreshPayoutStatus(h, w)
  \/ \E h \in Handlers : HandlerStep(h) \/ Crash(h) \/ \E t \in Transfers : DeliverEvent(h, t)
  \/ \E t \in Transfers : TransferEnds(t) \/ KeyExpires(t)

Spec == Init /\ [][Next]_vars

\* A handler goes on, and Airwallex delivers an event until it is acknowledged.
Fairness ==
  /\ \A h \in Handlers : WF_vars(HandlerStep(h))
  /\ \A t \in Transfers : WF_vars(\E h \in Handlers : DeliverEvent(h, t))

FairSpec == Spec /\ Fairness

-----------------------------------------------------------------------------
(* What holds. *)

\* The transfers that pay a withdrawal, or still may.
Paying(w) == {t \in Transfers : transfer[t].of = w /\ transfer[t].state \in {"open", "paid"}}

\* A withdrawal to a Stripe account is sent once, whatever clicks, timeouts and
\* crashes there are; a second transfer is only possible after Stripe has
\* forgotten the first one's key (claimWithdrawal, keyed by the withdrawal).
StripePaidOnce ==
  \A w \in Withdrawals : Kind[w] = "stripe" => \A s, t \in Paying(w) \ forgotten : s = t

\* A withdrawal shown as Completed was paid, by KHS or by a transfer of its own, and
\* what KHS paid stays Completed: no status check of an earlier transfer, however
\* late, puts it back to be sent again (applyTransferStatus only acts on a Submitted one).
CompletedIsPaid ==
  \A w \in Withdrawals :
    /\ status[w] = "Completed" => w \in byHand \/ \E t \in Paying(w) : transfer[t].state = "paid"
    /\ w \in byHand => status[w] = "Completed"

\* Money that went back to the salon's balance was never sent as well: a request
\* taken back or rejected has no transfer, and none on its way.
TakenBackNotSent ==
  \A w \in Withdrawals : status[w] \in {"Pending", "Cancelled", "Rejected"} =>
    /\ Paying(w) = {}
    /\ \A h \in Handlers : job[h].pc \in {"send", "record"} => job[h].of # w

\* The salon's ledger shows a payout only for a withdrawal that is Completed
\* (only the call that changed the status completes the row).
LedgerFollows == \A w \in ledger : status[w] = "Completed"

-----------------------------------------------------------------------------
(* What the comments and documents say that the code does not keep. *)

\* "Repeated or simultaneous clicks can't pay twice" (withdrawalPayout), of
\* transfers whose keys Airwallex still knows.
SimultaneousPaidOnce ==
  \A w \in Withdrawals : \A s, t \in Paying(w) \ forgotten : s = t

\* Nor by the two ways there are (withdrawals: KHS "pays by hand, or the salon sends
\* it"): what KHS paid is not sent as well.
PaidOneWay == \A w \in byHand : Paying(w) = {}

\* "The transfer's status is read back from Airwallex and applied to the
\* salon's Submitted withdrawal" (the webhook).
OutcomeApplied == \A w \in Withdrawals, t \in Transfers :
  Recorded(w, t) /\ transfer[t].state \in {"paid", "failed"} ~> ~Recorded(w, t)
=============================================================================
