---------------------------- MODULE MerchantBilling ----------------------------
(***************************************************************************)
(* A salon's plan: the first payment at sign-up, the business it lets the  *)
(* merchant create, choosing a plan later, changing its card, Stripe's     *)
(* subscription webhooks and the daily billing sweep.                      *)
(*                                                                         *)
(* A handler is one request, webhook or sweep; each SQL statement,         *)
(* transaction, Redis command or Stripe call is one step.                  *)
(***************************************************************************)
EXTENDS Naturals, FiniteSets

CONSTANTS
  Plans,        \* Stripe subscriptions
  NoPlan,
  Cards,        \* saved cards a plan is chosen with
  Handlers,
  NoJob,
  MaxInvoices,  \* renewals Stripe collects or fails to (a bound of the model)
  MaxCrashes    \* requests and sweeps cut off, and saves that fail (a bound of the model)

VARIABLES
  stripe,     \* Stripe's subscriptions
  events,     \* webhooks Stripe has yet to deliver
  invoices,   \* renewals so far
  row,        \* the merchant_subscriptions row
  store,      \* businesses.status ("none" before setup)
  byKhs,      \* history: KHS suspended the storefront
  created,    \* history: businesses created
  lock,       \* merchant-billing-lock: who took it
  doubt,      \* history: what may have let two requests through, if anything
  crashes,
  job

outside == <<stripe, events, invoices>>
ours == <<row, store, byKhs, created>>
vars == <<outside, ours, lock, doubt, crashes, job>>

\* by: who made it: sign-up, or the card it was chosen with (the idempotency key).
Subscription == [status : {"none", "trialing", "active", "past_due", "canceled"}, by : {"nobody", "signup"} \union Cards]
Event == [kind : {"deleted", "failed", "succeeded"}, plan : Plans]

\* trial: trialEndsAt; grace: pastDueSince and the days since, while past due.
Row == [status : {"none", "trialing", "active", "past_due", "canceled"}, plan : Plans \union {NoPlan},
        reason : {"none", "trial_expired", "grace_exceeded", "stripe_canceled"},
        trial : {"none", "running", "over"}, grace : {"none", "running", "over"}]
NoRow == [status |-> "none", plan |-> NoPlan, reason |-> "none", trial |-> "none", grace |-> "none"]

ChargeJob == [kind : {"charge"}, pc : {"list", "create"}]
SetupJob == [kind : {"setup"}, pc : {"look", "resolve", "write"}, option : {"trial", "reveal"} \union Plans]
PlanJob == [kind : {"plan"}, pc : {"lock", "read", "create", "save", "unlock"}, card : Cards, store : {"review", "approved", "suspended"},
            saw : {"none", "running", "trial_expired", "grace_exceeded", "stripe_canceled"}, plan : Plans \union {NoPlan}]
CardJob == [kind : {"card"}, pc : {"lock", "read", "pay", "save", "unlock"}, plan : Plans \union {NoPlan}]
WebhookJob == [kind : {"webhook"}, pc : {"find", "move", "suspend"}, event : Event]
SweepJob == [kind : {"trials", "grace"}, pc : {"read", "claim", "cancel", "suspend"}, plan : Plans \union {NoPlan}]
Work == ChargeJob \union SetupJob \union PlanJob \union CardJob \union WebhookJob \union SweepJob
Job == Work \union {NoJob}

ASSUME BillingAssumptions ==
  /\ NoPlan \notin Plans
  /\ {"nobody", "signup"} \intersect Cards = {}
  /\ NoJob \notin Handlers /\ NoJob \notin Work
  /\ MaxInvoices \in Nat /\ MaxCrashes \in Nat

TypeOK ==
  /\ stripe \in [Plans -> Subscription]
  /\ events \subseteq Event
  /\ invoices \in 0..MaxInvoices
  /\ row \in Row
  /\ (row.status = "past_due") = (row.grace # "none")
  /\ row.status = "active" => row.plan # NoPlan
  /\ store \in {"none", "review", "approved", "suspended"}
  /\ byKhs \in BOOLEAN
  /\ created \in Nat
  /\ lock \in Handlers \union {NoJob}
  /\ doubt \in {"none", "lock", "save", "stripe"}
  /\ crashes \in 0..MaxCrashes
  /\ \A h \in Handlers : job[h] \in Job

Init ==
  /\ stripe = [p \in Plans |-> [status |-> "none", by |-> "nobody"]]
  /\ events = {} /\ invoices = 0
  /\ row = NoRow
  /\ store = "none" /\ byKhs = FALSE
  /\ created = 0
  /\ lock = NoJob /\ doubt = "none" /\ crashes = 0
  /\ job = [h \in Handlers |-> NoJob]

At(h, kind, step) == job[h] # NoJob /\ job[h].kind = kind /\ job[h].pc = step
Begin(h, j) == job[h] = NoJob /\ job' = [job EXCEPT ![h] = j]
Goto(h, step) == job' = [job EXCEPT ![h].pc = step]
Done(h) == job' = [job EXCEPT ![h] = NoJob]
Doubt(cause) == doubt' = IF doubt = "none" THEN cause ELSE doubt

Live(p) == p # NoPlan /\ stripe[p].status \in {"active", "trialing", "past_due"}
Paying(p) == p # NoPlan /\ stripe[p].status \in {"active", "trialing"}

\* A new subscription in Stripe.
Create(status, by) == \E p \in Plans : stripe[p].status = "none" /\ stripe' = [stripe EXCEPT ![p] = [status |-> status, by |-> by]]

-----------------------------------------------------------------------------
(* Business setup. *)

\* subscribeAtSignup: the first month, unless it was charged already.
BeginCharge(h) ==
  /\ store = "none"
  /\ Begin(h, [kind |-> "charge", pc |-> "list"])
  /\ UNCHANGED <<outside, ours, lock, doubt, crashes>>

ListSubscriptions(h) ==
  /\ At(h, "charge", "list")
  /\ IF \E p \in Plans : stripe[p].by = "signup" /\ Paying(p) THEN Done(h) ELSE Goto(h, "create")
  /\ UNCHANGED <<outside, ours, lock, doubt, crashes>>

ChargeFirstMonth(h) ==
  /\ At(h, "charge", "create")
  /\ Create("active", "signup") \/ UNCHANGED stripe      \* or the card is declined
  /\ Done(h)
  /\ UNCHANGED <<events, invoices, ours, lock, doubt, crashes>>

BeginSetup(h, option) ==
  /\ created < 2
  /\ option \in Plans => stripe[option].status # "none"
  /\ Begin(h, [kind |-> "setup", pc |-> "look", option |-> option])
  /\ UNCHANGED <<outside, ours, lock, doubt, crashes>>

LookForBusiness(h) ==
  /\ At(h, "setup", "look")
  /\ IF store = "none" THEN Goto(h, "resolve") ELSE Done(h)
  /\ UNCHANGED <<outside, ours, lock, doubt, crashes>>

\* "No payment, no merchant": a paid choice names an active, unused subscription
\* of sign-up.
ResolveSignup(h) ==
  /\ At(h, "setup", "resolve")
  /\ LET p == job[h].option IN
     IF p \in Plans => Paying(p) /\ stripe[p].by = "signup" /\ row.plan # p THEN Goto(h, "write") ELSE Done(h)
  /\ UNCHANGED <<outside, ours, lock, doubt, crashes>>

\* recordSignup: a Trial is recorded when KHS approves the business.
SignupRow(option) ==
  IF option \in Plans THEN [NoRow EXCEPT !.status = "active", !.plan = option]
  ELSE IF option = "reveal" THEN [NoRow EXCEPT !.status = "trialing", !.trial = "running"]
  ELSE NoRow

\* Under the advisory lock of the merchant's setup.
CreateBusiness(h) ==
  /\ At(h, "setup", "write")
  /\ IF store = "none"
       THEN store' = "review" /\ created' = created + 1 /\ row' = SignupRow(job[h].option)
       ELSE UNCHANGED <<store, created, row>>
  /\ Done(h)
  /\ UNCHANGED <<outside, byKhs, lock, doubt, crashes>>

\* KHS approves a business, whose Trial starts then, or suspends one.
Approve ==
  /\ store = "review" /\ row.status # "canceled"
  /\ store' = "approved"
  /\ row' = IF row.status = "none" THEN [row EXCEPT !.status = "trialing", !.trial = "running"] ELSE row
  /\ UNCHANGED <<outside, byKhs, created, lock, doubt, crashes, job>>

KhsSuspends ==
  /\ store = "approved"
  /\ store' = "suspended" /\ byKhs' = TRUE
  /\ UNCHANGED <<outside, row, created, lock, doubt, crashes, job>>

-----------------------------------------------------------------------------
(* The billing page. *)

TakeLock(h, kind) ==
  /\ At(h, kind, "lock")
  /\ IF lock = NoJob THEN lock' = h /\ Goto(h, "read") ELSE Done(h) /\ UNCHANGED lock
  /\ UNCHANGED <<outside, ours, doubt, crashes>>

\* Mutant: requests are not serialised.
WithBusinessLockless(h) ==
  \E kind \in {"plan", "card"} :
    /\ At(h, kind, "lock")
    /\ Goto(h, "read")
    /\ UNCHANGED <<outside, ours, lock, doubt, crashes>>

WithBusinessLock(h) == TakeLock(h, "plan") \/ TakeLock(h, "card")

\* The key is deleted, whoever has set it by now.
ReleaseLock(h) ==
  /\ At(h, "plan", "unlock") \/ At(h, "card", "unlock")
  /\ lock' = NoJob
  /\ Done(h)
  /\ UNCHANGED <<outside, ours, doubt, crashes>>

\* 120 seconds pass.
LockExpires ==
  /\ lock # NoJob
  /\ lock' = NoJob /\ Doubt("lock")
  /\ UNCHANGED <<outside, ours, crashes, job>>

\* subscribeToPlan: the storefront's status is read before the lock.  A card is
\* offered twice only to retry a request that was cut off.
BeginPlan(h, card) ==
  /\ store # "none"
  /\ \A p \in Plans : stripe[p].by = card => Live(p) /\ row.plan # p
  /\ Begin(h, [kind |-> "plan", pc |-> "lock", card |-> card, store |-> store, saw |-> "none", plan |-> NoPlan])
  /\ UNCHANGED <<outside, ours, lock, doubt, crashes>>

\* billingRecord and liveSubscription, where a question Stripe does not answer
\* counts as no plan.
ReadForPlan(h) ==
  /\ At(h, "plan", "read")
  /\ \E answered \in BOOLEAN :
       /\ ~answered => row.plan # NoPlan
       /\ IF row.status = "none" \/ (answered /\ Live(row.plan))
            THEN Goto(h, "unlock")
            ELSE job' = [job EXCEPT ![h].pc = "create",
                                    ![h].saw = IF row.status = "trialing" /\ row.trial = "running" THEN "running" ELSE row.reason]
       /\ IF answered THEN UNCHANGED doubt ELSE Doubt("stripe")
  /\ UNCHANGED <<outside, ours, lock, crashes>>

\* Free until the trial ends, or charged now; the key returns the subscription a
\* cut-off attempt made; a declined card ends the request.
CreatePlanSubscription(h) ==
  /\ At(h, "plan", "create")
  /\ LET made == {p \in Plans : stripe[p].by = job[h].card} IN
     \/ /\ made = {}
        /\ \E p \in Plans :
             /\ stripe[p].status = "none"
             /\ stripe' = [stripe EXCEPT ![p] = [status |-> IF job[h].saw = "running" THEN "trialing" ELSE "active", by |-> job[h].card]]
             /\ job' = [job EXCEPT ![h].pc = "save", ![h].plan = p]
     \/ \E p \in made : job' = [job EXCEPT ![h].pc = "save", ![h].plan = p] /\ UNCHANGED stripe
     \/ Goto(h, "unlock") /\ UNCHANGED stripe
  /\ UNCHANGED <<events, invoices, ours, lock, doubt, crashes>>

\* One transaction, from what was read before: a storefront suspended with a
\* billing reason goes live again once paid.
SavePlan(h) ==
  /\ At(h, "plan", "save")
  /\ LET j == job[h]
         paid == j.saw # "running" IN
     /\ row' = [row EXCEPT !.status = IF paid THEN "active" ELSE "trialing", !.plan = j.plan, !.grace = "none", !.reason = "none"]
     /\ store' = IF paid /\ j.store = "suspended" /\ j.saw # "none" THEN "approved" ELSE store
  /\ Goto(h, "unlock")
  /\ UNCHANGED <<outside, byKhs, created, lock, doubt, crashes>>

\* That transaction fails: the request ends, the subscription was made.
PlanNotSaved(h) ==
  /\ At(h, "plan", "save") /\ crashes < MaxCrashes
  /\ crashes' = crashes + 1 /\ Doubt("save")
  /\ Goto(h, "unlock")
  /\ UNCHANGED <<outside, ours, lock>>

\* updateBillingCard.
BeginCard(h) ==
  /\ store # "none" /\ row.plan # NoPlan
  /\ Begin(h, [kind |-> "card", pc |-> "lock", plan |-> NoPlan])
  /\ UNCHANGED <<outside, ours, lock, doubt, crashes>>

ReadForCard(h) ==
  /\ At(h, "card", "read")
  /\ (Live(row.plan) /\ job' = [job EXCEPT ![h].pc = "pay", ![h].plan = row.plan]) \/ Goto(h, "unlock")
  /\ UNCHANGED <<outside, ours, lock, doubt, crashes>>

\* The open invoice is tried again on the new card.
PayOpenInvoice(h) ==
  /\ At(h, "card", "pay")
  /\ LET p == job[h].plan IN
     \/ /\ stripe[p].status = "past_due"
        /\ stripe' = [stripe EXCEPT ![p].status = "active"]
        /\ events' = events \union {[kind |-> "succeeded", plan |-> p]}
        /\ Goto(h, "save")
     \/ Goto(h, "unlock") /\ UNCHANGED <<stripe, events>>
  /\ UNCHANGED <<invoices, ours, lock, doubt, crashes>>

\* By id, whatever the row says by now.
SaveSettled(h) ==
  /\ At(h, "card", "save")
  /\ row' = [row EXCEPT !.status = "active", !.grace = "none"]
  /\ Goto(h, "unlock")
  /\ UNCHANGED <<outside, store, byKhs, created, lock, doubt, crashes>>

-----------------------------------------------------------------------------
(* Stripe: renewals, their retries, and the end of a subscription. *)

Emit(kind, p) == events' = events \union {[kind |-> kind, plan |-> p]}

Renewal(p) ==
  /\ Live(p) /\ invoices < MaxInvoices
  /\ invoices' = invoices + 1
  /\ \/ stripe' = [stripe EXCEPT ![p].status = "active"] /\ Emit("succeeded", p)
     \/ stripe' = [stripe EXCEPT ![p].status = "past_due"] /\ Emit("failed", p)
  /\ UNCHANGED <<ours, lock, doubt, crashes, job>>

StripeCancels(p) ==
  /\ Live(p) /\ invoices < MaxInvoices
  /\ invoices' = invoices + 1
  /\ stripe' = [stripe EXCEPT ![p].status = "canceled"]
  /\ Emit("deleted", p)
  /\ UNCHANGED <<ours, lock, doubt, crashes, job>>

\* Events are delivered in any order; the inbox handles each once.
BeginWebhook(h, e) ==
  /\ e \in events
  /\ Begin(h, [kind |-> "webhook", pc |-> "find", event |-> e])
  /\ events' = events \ {e}
  /\ UNCHANGED <<stripe, invoices, ours, lock, doubt, crashes>>

FindBySubscription(h) ==
  /\ At(h, "webhook", "find")
  /\ IF row.plan = job[h].event.plan THEN Goto(h, "move") ELSE Done(h)
  /\ UNCHANGED <<outside, ours, lock, doubt, crashes>>

Cancelled(reason) == row' = [row EXCEPT !.status = "canceled", !.reason = reason, !.grace = "none"]

\* Mutant: a storefront whose plan Stripe ended is left as it is.
OnSubscriptionDeletedQuietly(h) ==
  /\ At(h, "webhook", "move") /\ job[h].event.kind = "deleted"
  /\ IF row.status # "canceled" THEN Cancelled("stripe_canceled") /\ Done(h) ELSE UNCHANGED row /\ Done(h)
  /\ UNCHANGED <<outside, store, byKhs, created, lock, doubt, crashes>>

OnSubscriptionDeleted(h) ==
  /\ At(h, "webhook", "move") /\ job[h].event.kind = "deleted"
  /\ IF row.status # "canceled" THEN Cancelled("stripe_canceled") /\ Goto(h, "suspend") ELSE UNCHANGED row /\ Done(h)
  /\ UNCHANGED <<outside, store, byKhs, created, lock, doubt, crashes>>

\* Retries of one invoice don't restart the grace period.
OnPlanPaymentFailed(h) ==
  /\ At(h, "webhook", "move") /\ job[h].event.kind = "failed"
  /\ row' = IF row.status \in {"active", "trialing"} THEN [row EXCEPT !.status = "past_due", !.grace = "running"] ELSE row
  /\ Done(h)
  /\ UNCHANGED <<outside, store, byKhs, created, lock, doubt, crashes>>

OnPlanPaymentSucceeded(h) ==
  /\ At(h, "webhook", "move") /\ job[h].event.kind = "succeeded"
  /\ row' = IF row.status # "canceled" THEN [row EXCEPT !.status = "active", !.grace = "none"] ELSE row
  /\ Done(h)
  /\ UNCHANGED <<outside, store, byKhs, created, lock, doubt, crashes>>

\* suspendForBilling: only a storefront that is live.
SuspendForBilling(h) ==
  /\ job[h] # NoJob /\ job[h].pc = "suspend"
  /\ store' = IF store = "approved" THEN "suspended" ELSE store
  /\ Done(h)
  /\ UNCHANGED <<outside, row, byKhs, created, lock, doubt, crashes>>

-----------------------------------------------------------------------------
(* merchantBillingSweep; a job of each kind stands for that part of a sweep.
   The reminder before a trial ends is an email and left out. *)

TrialEnds ==
  /\ row.trial = "running"
  /\ row' = [row EXCEPT !.trial = "over"]
  /\ UNCHANGED <<outside, store, byKhs, created, lock, doubt, crashes, job>>

\* PAST_DUE_GRACE_DAYS pass.
GraceEnds ==
  /\ row.grace = "running"
  /\ row' = [row EXCEPT !.grace = "over"]
  /\ UNCHANGED <<outside, store, byKhs, created, lock, doubt, crashes, job>>

DueFor(kind) ==
  \/ kind = "trials" /\ row.status = "trialing" /\ row.plan = NoPlan /\ row.trial = "over"
  \/ kind = "grace" /\ row.status = "past_due" /\ row.grace = "over"

\* The rows that are due, read before any is claimed.
BeginSweep(h, kind) ==
  /\ DueFor(kind)
  /\ Begin(h, [kind |-> kind, pc |-> "claim", plan |-> row.plan])
  /\ UNCHANGED <<outside, ours, lock, doubt, crashes>>

\* A plan chosen since the read wins.
ClaimExpiredTrial(h) ==
  /\ At(h, "trials", "claim")
  /\ IF row.status = "trialing" /\ row.plan = NoPlan
       THEN Cancelled("trial_expired") /\ Goto(h, "suspend")
       ELSE UNCHANGED row /\ Done(h)
  /\ UNCHANGED <<outside, store, byKhs, created, lock, doubt, crashes>>

ClaimPastDue(h) ==
  /\ At(h, "grace", "claim")
  /\ IF row.status = "past_due"
       THEN Cancelled("grace_exceeded") /\ Goto(h, "cancel")
       ELSE UNCHANGED row /\ Done(h)
  /\ UNCHANGED <<outside, store, byKhs, created, lock, doubt, crashes>>

\* cancelSubscription; if Stripe refuses, KHS is told and the sweep goes on.
CancelInStripe(h) ==
  /\ At(h, "grace", "cancel")
  /\ \/ Live(job[h].plan) /\ stripe' = [stripe EXCEPT ![job[h].plan].status = "canceled"] /\ Emit("deleted", job[h].plan)
     \/ UNCHANGED <<stripe, events>>
  /\ Goto(h, "suspend")
  /\ UNCHANGED <<invoices, ours, lock, doubt, crashes>>

\* The server stops; Stripe delivers again an event that was not answered.
Crash(h) ==
  /\ job[h] # NoJob /\ crashes < MaxCrashes
  /\ crashes' = crashes + 1
  /\ IF lock = h THEN Doubt("lock") ELSE UNCHANGED doubt
  /\ events' = IF job[h].kind = "webhook" THEN events \union {job[h].event} ELSE events
  /\ Done(h)
  /\ UNCHANGED <<stripe, invoices, ours, lock>>

-----------------------------------------------------------------------------

HandlerStep(h) ==
  \/ ListSubscriptions(h) \/ ChargeFirstMonth(h) \/ LookForBusiness(h) \/ ResolveSignup(h) \/ CreateBusiness(h)
  \/ WithBusinessLock(h) \/ ReleaseLock(h)
  \/ ReadForPlan(h) \/ CreatePlanSubscription(h) \/ SavePlan(h) \/ ReadForCard(h) \/ PayOpenInvoice(h) \/ SaveSettled(h)
  \/ FindBySubscription(h) \/ OnSubscriptionDeleted(h) \/ OnPlanPaymentFailed(h) \/ OnPlanPaymentSucceeded(h)
  \/ SuspendForBilling(h) \/ ClaimExpiredTrial(h) \/ ClaimPastDue(h) \/ CancelInStripe(h)

Request(h) ==
  \/ BeginCharge(h) \/ BeginCard(h)
  \/ \E option \in {"trial", "reveal"} \union Plans : BeginSetup(h, option)
  \/ \E card \in Cards : BeginPlan(h, card)
  \/ \E e \in Event : BeginWebhook(h, e)
  \/ \E kind \in {"trials", "grace"} : BeginSweep(h, kind)

Next ==
  \/ \E h \in Handlers : HandlerStep(h) \/ Request(h) \/ PlanNotSaved(h) \/ Crash(h)
  \/ \E p \in Plans : Renewal(p) \/ StripeCancels(p)
  \/ Approve \/ KhsSuspends \/ LockExpires \/ TrialEnds \/ GraceEnds

Spec == Init /\ [][Next]_vars

-----------------------------------------------------------------------------
(* Properties. *)

\* businessSetupService.ts:15-16: a double click creates one business.
OneBusiness == created <= 1

Chosen == {p \in Plans : Live(p) /\ stripe[p].by \in Cards}

\* billingService.ts:16-18 "a live one is never duplicated, and simultaneous
\* requests are serialised", as long as no request outlives its lock or is cut
\* off, the plan is saved, and Stripe answers.
OneLivePlan == doubt = "none" => Cardinality(Chosen) <= 1

\* billingLifecycle.ts:75: once cancelled, only the merchant's own request starts
\* the plan again, never a webhook or the sweep.
RevivedByMerchantOnly ==
  [][row.status = "canceled" /\ row'.status # "canceled" =>
       \E h \in Handlers : (At(h, "plan", "save") \/ At(h, "card", "save")) /\ job'[h] # job[h]]_vars

\* Without a crash every cancelled plan takes its live storefront down.
CancelledIsTakenDown ==
  crashes = 0 /\ row.status = "canceled" /\ store = "approved" => \E h \in Handlers : job[h] # NoJob /\ job[h].pc \in {"cancel", "suspend"}

\* merchantBillingSweep.ts:51-55: a trial lapses only if no plan was chosen for it.
LapsedHadNoPlan == row.reason = "trial_expired" => row.plan = NoPlan \/ ~Live(row.plan)

\* billingService.ts:17 "a live one is never duplicated", also when Stripe is
\* slow or down as it is asked for the live one.
NeverDuplicated == doubt \in {"none", "stripe"} => Cardinality(Chosen) <= 1

\* merchantBillingSweep.ts:14 "so a payment landing mid-sweep wins".
PaymentMidSweepWins ==
  row.status = "active" /\ Paying(row.plan) /\ store = "suspended" => byKhs \/ \E h \in Handlers : job[h] # NoJob

\* billingLifecycle.ts:9-10 "a webhook redelivery, a sweep and a payment arriving
\* together can't undo each other": a plan that Stripe was paid for is not ended.
PaidNotEnded == [][row'.reason = "grace_exceeded" /\ row.reason # "grace_exceeded" => ~Paying(row.plan)]_vars

\* billingLifecycle.ts:9: a plan cancelled in Stripe and here does not come back.
EndedStaysEnded ==
  [][row.status = "canceled" /\ row.plan # NoPlan /\ ~Live(row.plan) /\ row'.plan = row.plan => row'.status = "canceled"]_vars

\* billingService.ts:22 "paying again lifts only these".
KhsSuspensionKept == byKhs => store = "suspended"

\* merchantBillingSweep.ts:10 "the storefront is suspended when the trial ends",
\* also by a sweep that was cut off and those after it.
LapsedIsSuspended ==
  row.status = "canceled" /\ store = "approved" => \E h \in Handlers : job[h] # NoJob /\ job[h].pc \in {"cancel", "suspend"}

\* signupPaymentService.ts:68-69: repeating the call "returns the subscription
\* already made instead of charging twice".
ChargedOnce == Cardinality({p \in Plans : stripe[p].by = "signup"}) <= 1
=============================================================================
