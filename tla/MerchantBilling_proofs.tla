------------------------- MODULE MerchantBilling_proofs -------------------------
(***************************************************************************)
(* Proofs about merchants' plans (MerchantBilling) and about the           *)
(* calculations (PricesAndTimes).                                          *)
(*                                                                         *)
(* Plans: Typed says what each request is; Started, what there is before   *)
(* the business and who has a plan; OneInv, that the request inside the    *)
(* lock is its holder and no plan is chosen but the one it is saving, or   *)
(* else the row's.                                                         *)
(*                                                                         *)
(* Calculations: one inductive invariant for each part (MoneyInv, SlotInv, *)
(* NoticeInv, OfferInv) and lemmas on the operators: rounding, quotes, the *)
(* wall clock, the minimum of a set of times, the months of the calendar.  *)
(* What needs induction over the natural numbers goes by the least-number  *)
(* principle: a counterexample has a least one.                            *)
(***************************************************************************)
EXTENDS MerchantBilling, PricesAndTimes, FiniteSetTheorems, WellFoundedInduction, TLAPS

-----------------------------------------------------------------------------
(* Plans: what a request is, and what one step does to it. *)

Typed == TypeOK /\ job \in [Handlers -> Job]

LEMMA JobKind ==
  ASSUME NEW j \in Job, j # NoJob
  PROVE  /\ j.kind = "charge" => j \in ChargeJob
         /\ j.kind = "setup" => j \in SetupJob
         /\ j.kind = "plan" => j \in PlanJob
         /\ j.kind = "card" => j \in CardJob
         /\ j.kind = "webhook" => j \in WebhookJob
         /\ j.kind \in {"trials", "grace"} => j \in SweepJob
BY DEF Job, Work, ChargeJob, SetupJob, PlanJob, CardJob, WebhookJob, SweepJob

LEMMA JobAt ==
  ASSUME Typed, NEW h \in Handlers, NEW step
  PROVE  /\ At(h, "charge", step) => job[h] \in ChargeJob
         /\ At(h, "setup", step) => job[h] \in SetupJob
         /\ At(h, "plan", step) => job[h] \in PlanJob
         /\ At(h, "card", step) => job[h] \in CardJob
         /\ At(h, "webhook", step) => job[h] \in WebhookJob
         /\ At(h, "trials", step) \/ At(h, "grace", step) => job[h] \in SweepJob
BY JobKind DEF Typed, At

\* What request h is about: a plan, a card...
KindOf(h) == IF job[h] = NoJob THEN "idle" ELSE job[h].kind

\* Request h has the business's lock, or had it until it was lost.
Holds(h) == KindOf(h) \in {"plan", "card"} /\ job[h].pc # "lock"

Others(h) == \A g \in Handlers : g # h => job'[g] = job[g]

\* Request h goes on or ends, not to a place the invariants speak of.
Aside(h) ==
  /\ job' \in [Handlers -> Job] /\ Others(h)
  /\ KindOf(h)' \in {"idle", KindOf(h)}
  /\ Holds(h)' => Holds(h)
  /\ ~At(h, "plan", "create")' /\ ~At(h, "plan", "save")' /\ ~At(h, "card", "pay")' /\ ~At(h, "webhook", "move")'

LEMMA AsideEnds ==
  ASSUME Typed, NEW h \in Handlers, Done(h)
  PROVE  Aside(h) /\ job'[h] = NoJob
<1>1. /\ job'[h] = NoJob
      /\ \A g \in Handlers : g # h => job'[g] = job[g]
      /\ job' \in [Handlers -> Job]
  BY DEF Typed, Done, Job
<1>2. KindOf(h)' = "idle"
  BY <1>1 DEF KindOf
<1> QED BY <1>1, <1>2 DEF Aside, Others, Holds, At

LEMMA Moving ==
  ASSUME Typed, NEW h \in Handlers, NEW step, Goto(h, step),
         \/ job[h] \in ChargeJob /\ step = "create"
         \/ job[h] \in SetupJob /\ step \in {"resolve", "write"}
         \/ job[h] \in PlanJob /\ step \in {"read", "unlock"}
         \/ job[h] \in CardJob /\ step \in {"read", "save", "unlock"}
         \/ job[h] \in WebhookJob /\ step \in {"move", "suspend"}
         \/ job[h] \in SweepJob /\ step \in {"cancel", "suspend"}
  PROVE  /\ job' \in [Handlers -> Job] /\ Others(h)
         /\ job[h] # NoJob /\ job'[h] # NoJob
         /\ job'[h].kind = job[h].kind /\ job'[h].pc = step
<1> DEFINE j == [job[h] EXCEPT !.pc = step]
<1>1. j \in Work /\ job[h] \in Work /\ j.kind = job[h].kind /\ j.pc = step
  <2>1. CASE job[h] \in ChargeJob /\ step = "create"
    BY <2>1 DEF ChargeJob, Work
  <2>2. CASE job[h] \in SetupJob /\ step \in {"resolve", "write"}
    BY <2>2 DEF SetupJob, Work
  <2>3. CASE job[h] \in PlanJob /\ step \in {"read", "unlock"}
    BY <2>3 DEF PlanJob, Work
  <2>4. CASE job[h] \in CardJob /\ step \in {"read", "save", "unlock"}
    BY <2>4 DEF CardJob, Work
  <2>5. CASE job[h] \in WebhookJob /\ step \in {"move", "suspend"}
    BY <2>5 DEF WebhookJob, Work
  <2>6. CASE job[h] \in SweepJob /\ step \in {"cancel", "suspend"}
    BY <2>6 DEF SweepJob, Work
  <2> QED BY <2>1, <2>2, <2>3, <2>4, <2>5, <2>6
<1>2. job' = [job EXCEPT ![h] = j] /\ job \in [Handlers -> Job]
  BY DEF Typed, Goto
<1> HIDE DEF j
<1> QED BY <1>1, <1>2, BillingAssumptions DEF Others, Job

LEMMA AsideMoves ==
  ASSUME Typed, NEW h \in Handlers, NEW step, Goto(h, step),
         \/ job[h] \in ChargeJob /\ step = "create"
         \/ job[h] \in SetupJob /\ step \in {"resolve", "write"}
         \/ job[h] \in PlanJob /\ step = "unlock" /\ job[h].pc # "lock"
         \/ job[h] \in CardJob /\ step \in {"save", "unlock"} /\ job[h].pc # "lock"
         \/ job[h] \in WebhookJob /\ step = "suspend"
         \/ job[h] \in SweepJob /\ step \in {"cancel", "suspend"}
  PROVE  Aside(h) /\ job'[h] # NoJob /\ job'[h].pc = step
<1>1. /\ job' \in [Handlers -> Job] /\ Others(h)
      /\ job[h] # NoJob /\ job'[h] # NoJob
      /\ job'[h].kind = job[h].kind /\ job'[h].pc = step
  BY Moving
<1>2. \/ job[h].kind \in {"charge", "setup", "trials", "grace"}
      \/ job[h].kind = "plan" /\ step = "unlock" /\ job[h].pc # "lock"
      \/ job[h].kind = "card" /\ step \in {"save", "unlock"} /\ job[h].pc # "lock"
      \/ job[h].kind = "webhook" /\ step = "suspend"
  BY DEF ChargeJob, SetupJob, PlanJob, CardJob, WebhookJob, SweepJob
<1>3. KindOf(h)' = KindOf(h) /\ KindOf(h) = job[h].kind
  BY <1>1 DEF KindOf
<1> QED BY <1>1, <1>2, <1>3 DEF Aside, Holds, At

LEMMA AsideSteps ==
  ASSUME Typed, NEW h \in Handlers,
         \/ ListSubscriptions(h) \/ ChargeFirstMonth(h) \/ LookForBusiness(h) \/ ResolveSignup(h) \/ CreateBusiness(h)
         \/ ReleaseLock(h) \/ SavePlan(h) \/ PayOpenInvoice(h) \/ SaveSettled(h)
         \/ OnSubscriptionDeleted(h) \/ OnPlanPaymentFailed(h) \/ OnPlanPaymentSucceeded(h)
         \/ SuspendForBilling(h) \/ ClaimExpiredTrial(h) \/ ClaimPastDue(h) \/ CancelInStripe(h) \/ Crash(h)
         \/ PlanNotSaved(h)
  PROVE  Aside(h)
<1> USE JobAt
<1>1. CASE \/ ChargeFirstMonth(h) \/ CreateBusiness(h) \/ ReleaseLock(h) \/ OnPlanPaymentFailed(h) \/ OnPlanPaymentSucceeded(h)
           \/ SuspendForBilling(h) \/ Crash(h)
  BY <1>1, AsideEnds DEF ChargeFirstMonth, CreateBusiness, ReleaseLock, OnPlanPaymentFailed, OnPlanPaymentSucceeded, SuspendForBilling, Crash
<1>2. CASE ListSubscriptions(h)
  BY <1>2, AsideEnds, AsideMoves DEF ListSubscriptions
<1>3. CASE LookForBusiness(h) \/ ResolveSignup(h)
  <2>1. job[h] \in SetupJob /\ (Done(h) \/ Goto(h, "resolve") \/ Goto(h, "write"))
    BY <1>3 DEF LookForBusiness, ResolveSignup
  <2> QED BY <2>1, AsideEnds, AsideMoves
<1>4. CASE SavePlan(h) \/ PlanNotSaved(h)
  <2>1. job[h] \in PlanJob /\ job[h].pc # "lock" /\ Goto(h, "unlock")
    BY <1>4 DEF SavePlan, PlanNotSaved, At
  <2> QED BY <2>1, AsideMoves
<1>5. CASE PayOpenInvoice(h) \/ SaveSettled(h)
  <2>1. job[h] \in CardJob /\ job[h].pc # "lock" /\ (Goto(h, "save") \/ Goto(h, "unlock"))
    BY <1>5 DEF PayOpenInvoice, SaveSettled, At
  <2> QED BY <2>1, AsideMoves
<1>6. CASE OnSubscriptionDeleted(h)
  <2>1. job[h] \in WebhookJob /\ (Done(h) \/ Goto(h, "suspend"))
    BY <1>6 DEF OnSubscriptionDeleted
  <2> QED BY <2>1, AsideEnds, AsideMoves
<1>7. CASE ClaimExpiredTrial(h) \/ ClaimPastDue(h) \/ CancelInStripe(h)
  <2>1. job[h] \in SweepJob /\ (Done(h) \/ Goto(h, "cancel") \/ Goto(h, "suspend"))
    BY <1>7 DEF ClaimExpiredTrial, ClaimPastDue, CancelInStripe
  <2> QED BY <2>1, AsideEnds, AsideMoves
<1> QED BY <1>1, <1>2, <1>3, <1>4, <1>5, <1>6, <1>7

\* The steps that take a request to one of those places.
LEMMA LockJob ==
  ASSUME Typed, NEW h \in Handlers, WithBusinessLock(h)
  PROVE  /\ job' \in [Handlers -> Job] /\ Others(h) /\ KindOf(h) \in {"plan", "card"}
         /\ KindOf(h)' \in {"idle", KindOf(h)}
         /\ lock # NoJob => ~Holds(h)'
         /\ ~At(h, "plan", "create")' /\ ~At(h, "plan", "save")' /\ ~At(h, "card", "pay")' /\ ~At(h, "webhook", "move")'
<1>1. KindOf(h) \in {"plan", "card"} /\ ~Holds(h) /\ (job[h] \in PlanJob \/ job[h] \in CardJob)
  BY JobAt DEF WithBusinessLock, TakeLock, KindOf, Holds, At
<1>2. CASE Done(h)
  BY <1>1, <1>2, AsideEnds DEF Aside
<1>3. CASE lock = NoJob /\ Goto(h, "read")
  <2>1. /\ job' \in [Handlers -> Job] /\ Others(h)
        /\ job[h] # NoJob /\ job'[h] # NoJob
        /\ job'[h].kind = job[h].kind /\ job'[h].pc = "read"
    BY <1>1, <1>3, Moving
  <2> QED BY <1>1, <1>3, <2>1 DEF KindOf, At
<1> QED BY <1>2, <1>3 DEF WithBusinessLock, TakeLock

LEMMA ReadForPlanJob ==
  ASSUME Typed, NEW h \in Handlers, ReadForPlan(h)
  PROVE  /\ job' \in [Handlers -> Job] /\ Others(h) /\ KindOf(h) = "plan" /\ Holds(h)
         /\ KindOf(h)' = "plan"
         /\ ~At(h, "plan", "save")' /\ ~At(h, "plan", "read")'
<1>1. job[h] \in PlanJob /\ job[h] # NoJob /\ job[h].kind = "plan" /\ job[h].pc = "read"
  BY JobAt DEF ReadForPlan, At
<1>2. CASE Goto(h, "unlock")
  BY <1>1, <1>2, Moving DEF KindOf, Holds, At
<1>3. ASSUME NEW saw \in {"none", "running", "trial_expired", "grace_exceeded", "stripe_canceled"},
             job' = [job EXCEPT ![h].pc = "create", ![h].saw = saw]
      PROVE  job' \in [Handlers -> Job] /\ Others(h) /\ job'[h] # NoJob /\ job'[h].kind = "plan" /\ job'[h].pc = "create"
  <2> DEFINE j == [job[h] EXCEPT !.pc = "create", !.saw = saw]
  <2>1. job' = [job EXCEPT ![h] = j] /\ job \in [Handlers -> Job]
    BY <1>3 DEF Typed
  <2>2. j \in PlanJob /\ j.kind = "plan" /\ j.pc = "create"
    BY <1>1 DEF PlanJob
  <2>3. j \in Work
    BY <2>2 DEF Work
  <2> HIDE DEF j
  <2> QED BY <2>1, <2>2, <2>3, BillingAssumptions DEF Others, Job
<1>4. row.reason \in {"none", "trial_expired", "grace_exceeded", "stripe_canceled"}
  BY DEF Typed, TypeOK, Row
<1>5. CASE \E saw \in {"none", "running", "trial_expired", "grace_exceeded", "stripe_canceled"} : job' = [job EXCEPT ![h].pc = "create", ![h].saw = saw]
  BY <1>1, <1>3, <1>5 DEF KindOf, Holds, At
<1> QED BY <1>2, <1>4, <1>5 DEF ReadForPlan

LEMMA CreatePlanJob ==
  ASSUME Typed, NEW h \in Handlers, CreatePlanSubscription(h)
  PROVE  /\ job' \in [Handlers -> Job] /\ Others(h) /\ KindOf(h) = "plan" /\ Holds(h) /\ KindOf(h)' = "plan"
         /\ job[h].card \in Cards
         /\ ~At(h, "plan", "create")'
         /\ At(h, "plan", "save")' =>
              /\ job'[h].plan \in Plans
              /\ \/ /\ stripe[job'[h].plan].status = "none"
                    /\ \E paid \in {"trialing", "active"} : stripe' = [stripe EXCEPT ![job'[h].plan] = [status |-> paid, by |-> job[h].card]]
                 \/ UNCHANGED stripe
         /\ ~At(h, "plan", "save")' => UNCHANGED stripe
<1>1. job[h] \in PlanJob /\ job[h] # NoJob /\ job[h].kind = "plan" /\ job[h].pc = "create" /\ job[h].card \in Cards
  BY JobAt DEF CreatePlanSubscription, At, PlanJob
<1>2. CASE Goto(h, "unlock") /\ UNCHANGED stripe
  BY <1>1, <1>2, Moving DEF KindOf, Holds, At
<1>3. ASSUME NEW p \in Plans, job' = [job EXCEPT ![h].pc = "save", ![h].plan = p]
      PROVE  job' \in [Handlers -> Job] /\ Others(h) /\ job'[h] # NoJob /\ job'[h].kind = "plan" /\ job'[h].pc = "save" /\ job'[h].plan = p
  <2> DEFINE j == [job[h] EXCEPT !.pc = "save", !.plan = p]
  <2>1. job' = [job EXCEPT ![h] = j] /\ job \in [Handlers -> Job]
    BY <1>3 DEF Typed
  <2>2. j \in PlanJob /\ j.kind = "plan" /\ j.pc = "save" /\ j.plan = p
    BY <1>1 DEF PlanJob
  <2>3. j \in Work
    BY <2>2 DEF Work
  <2> HIDE DEF j
  <2> QED BY <2>1, <2>2, <2>3, BillingAssumptions DEF Others, Job
<1>4. ASSUME NEW p \in Plans, job' = [job EXCEPT ![h].pc = "save", ![h].plan = p],
             \/ stripe[p].status = "none" /\ \E paid \in {"trialing", "active"} : stripe' = [stripe EXCEPT ![p] = [status |-> paid, by |-> job[h].card]]
             \/ UNCHANGED stripe
      PROVE  /\ job' \in [Handlers -> Job] /\ Others(h) /\ KindOf(h) = "plan" /\ Holds(h) /\ KindOf(h)' = "plan"
             /\ ~At(h, "plan", "create")' /\ At(h, "plan", "save")' /\ job'[h].plan = p
  BY <1>1, <1>3, <1>4 DEF KindOf, Holds, At
<1>5. \/ Goto(h, "unlock") /\ UNCHANGED stripe
      \/ \E p \in Plans :
           /\ job' = [job EXCEPT ![h].pc = "save", ![h].plan = p]
           /\ \/ stripe[p].status = "none" /\ \E paid \in {"trialing", "active"} : stripe' = [stripe EXCEPT ![p] = [status |-> paid, by |-> job[h].card]]
              \/ UNCHANGED stripe
  BY DEF CreatePlanSubscription
<1> QED BY <1>1, <1>2, <1>4, <1>5

LEMMA ReadForCardJob ==
  ASSUME Typed, NEW h \in Handlers, ReadForCard(h)
  PROVE  /\ job' \in [Handlers -> Job] /\ Others(h) /\ KindOf(h) = "card" /\ Holds(h) /\ KindOf(h)' = "card"
         /\ At(h, "card", "pay")' => job'[h].plan \in Plans
<1>1. job[h] \in CardJob /\ job[h] # NoJob /\ job[h].kind = "card" /\ job[h].pc = "read"
  BY JobAt DEF ReadForCard, At
<1>2. CASE Goto(h, "unlock")
  BY <1>1, <1>2, Moving DEF KindOf, Holds, At
<1>3. CASE Live(row.plan) /\ job' = [job EXCEPT ![h].pc = "pay", ![h].plan = row.plan]
  <2>1. row.plan \in Plans
    BY <1>3 DEF Typed, TypeOK, Row, Live
  <2> DEFINE j == [job[h] EXCEPT !.pc = "pay", !.plan = row.plan]
  <2>2. job' = [job EXCEPT ![h] = j] /\ job \in [Handlers -> Job]
    BY <1>3 DEF Typed
  <2>3. j \in CardJob /\ j.kind = "card" /\ j.plan = row.plan
    BY <1>1, <2>1 DEF CardJob
  <2>4. j \in Work
    BY <2>3 DEF Work
  <2> HIDE DEF j
  <2>5. job' \in [Handlers -> Job] /\ Others(h) /\ job'[h] = j /\ j # NoJob
    BY <2>2, <2>4, BillingAssumptions DEF Others, Job
  <2> QED BY <1>1, <2>1, <2>3, <2>5 DEF KindOf, Holds
<1> QED BY <1>2, <1>3 DEF ReadForCard

LEMMA FindJob ==
  ASSUME Typed, NEW h \in Handlers, FindBySubscription(h)
  PROVE  /\ job' \in [Handlers -> Job] /\ Others(h) /\ KindOf(h)' \in {"idle", "webhook"}
         /\ At(h, "webhook", "move")' => row.plan \in Plans
<1>1. job[h] \in WebhookJob /\ job[h] # NoJob /\ job[h].kind = "webhook" /\ job[h].event.plan \in Plans
  BY JobAt DEF FindBySubscription, At, WebhookJob, Event
<1>2. CASE Done(h)
  <2>1. Aside(h) /\ job'[h] = NoJob
    BY <1>2, AsideEnds
  <2> QED BY <2>1 DEF Aside, KindOf
<1>3. CASE row.plan = job[h].event.plan /\ Goto(h, "move")
  BY <1>1, <1>3, Moving DEF KindOf
<1> QED BY <1>2, <1>3 DEF FindBySubscription

LEMMA BeginJobs ==
  ASSUME Typed, NEW h \in Handlers, Request(h)
  PROVE  /\ job' \in [Handlers -> Job] /\ Others(h) /\ KindOf(h) = "idle" /\ ~Holds(h)'
         /\ KindOf(h)' \in {"plan", "card"} => store # "none"
         /\ KindOf(h)' = "card" => row.plan # NoPlan
         /\ ~At(h, "plan", "create")' /\ ~At(h, "plan", "save")' /\ ~At(h, "card", "pay")' /\ ~At(h, "webhook", "move")'
<1> DEFINE Good ==
      /\ job' \in [Handlers -> Job] /\ Others(h) /\ KindOf(h) = "idle" /\ ~Holds(h)'
      /\ KindOf(h)' \in {"plan", "card"} => store # "none"
      /\ KindOf(h)' = "card" => row.plan # NoPlan
      /\ ~At(h, "plan", "create")' /\ ~At(h, "plan", "save")' /\ ~At(h, "card", "pay")' /\ ~At(h, "webhook", "move")'
<1>1. ASSUME NEW j \in Work, Begin(h, j),
             j.pc \notin {"create", "save", "pay", "move"},
             j.kind \in {"plan", "card"} => store # "none" /\ j.pc = "lock",
             j.kind = "card" => row.plan # NoPlan
      PROVE  Good
  <2>1. job[h] = NoJob /\ job' = [job EXCEPT ![h] = j] /\ job \in [Handlers -> Job] /\ j # NoJob /\ j \in Job
    BY <1>1, BillingAssumptions DEF Begin, Typed, Job
  <2>2. job' \in [Handlers -> Job] /\ Others(h) /\ job'[h] = j
    BY <2>1 DEF Others
  <2> QED BY <1>1, <2>1, <2>2 DEF KindOf, Holds, At
<1> HIDE DEF Good
<1>2. ASSUME BeginCharge(h) PROVE Good
  <2> DEFINE j == [kind |-> "charge", pc |-> "list"]
  <2>1. j \in Work /\ j.pc = "list" /\ j.kind = "charge" /\ Begin(h, j)
    BY <1>2 DEF BeginCharge, Work, ChargeJob
  <2> HIDE DEF j
  <2> QED BY <1>1, <2>1
<1>3. ASSUME BeginCard(h) PROVE Good
  <2> DEFINE j == [kind |-> "card", pc |-> "lock", plan |-> NoPlan]
  <2>1. j \in Work /\ j.pc = "lock" /\ j.kind = "card" /\ Begin(h, j) /\ store # "none" /\ row.plan # NoPlan
    BY <1>3 DEF BeginCard, Work, CardJob
  <2> HIDE DEF j
  <2> QED BY <1>1, <2>1
<1>4. ASSUME NEW option \in {"trial", "reveal"} \union Plans, BeginSetup(h, option) PROVE Good
  <2> DEFINE j == [kind |-> "setup", pc |-> "look", option |-> option]
  <2>1. j \in Work /\ j.pc = "look" /\ j.kind = "setup" /\ Begin(h, j)
    BY <1>4 DEF BeginSetup, Work, SetupJob
  <2> HIDE DEF j
  <2> QED BY <1>1, <2>1
<1>5. ASSUME NEW card \in Cards, BeginPlan(h, card) PROVE Good
  <2> DEFINE j == [kind |-> "plan", pc |-> "lock", card |-> card, store |-> store, saw |-> "none", plan |-> NoPlan]
  <2>1. store # "none" /\ store \in {"review", "approved", "suspended"} /\ Begin(h, j)
    BY <1>5 DEF BeginPlan, Typed, TypeOK
  <2>2. j \in Work /\ j.pc = "lock" /\ j.kind = "plan"
    BY <2>1 DEF Work, PlanJob
  <2> HIDE DEF j
  <2> QED BY <1>1, <2>1, <2>2
<1>6. ASSUME NEW e \in Event, BeginWebhook(h, e) PROVE Good
  <2> DEFINE j == [kind |-> "webhook", pc |-> "find", event |-> e]
  <2>1. j \in Work /\ j.pc = "find" /\ j.kind = "webhook" /\ Begin(h, j)
    BY <1>6 DEF BeginWebhook, Work, WebhookJob
  <2> HIDE DEF j
  <2> QED BY <1>1, <2>1
<1>7. ASSUME NEW kind \in {"trials", "grace"}, BeginSweep(h, kind) PROVE Good
  <2> DEFINE j == [kind |-> kind, pc |-> "claim", plan |-> row.plan]
  <2>1. j \in Work /\ j.pc = "claim" /\ j.kind \notin {"plan", "card"} /\ Begin(h, j)
    BY <1>7 DEF BeginSweep, Work, SweepJob, Typed, TypeOK, Row
  <2> HIDE DEF j
  <2> QED BY <1>1, <2>1
<1>8. Good
  BY <1>2, <1>3, <1>4, <1>5, <1>6, <1>7 DEF Request
<1> QED BY <1>8 DEF Good

-----------------------------------------------------------------------------
(* What is kept is well formed. *)

\* Nothing is bought before there is a business; who asked for a plan's card to
\* be changed, or whose event was found, has a plan.
Started ==
  /\ store = "none" => row = NoRow /\ created = 0 /\ \A p \in Plans : stripe[p].by \notin Cards
  /\ created <= 1
  /\ \A h \in Handlers : KindOf(h) \in {"plan", "card"} => store # "none"
  /\ \A h \in Handlers : KindOf(h) = "card" \/ At(h, "webhook", "move") => row.plan # NoPlan
  /\ \A h \in Handlers : At(h, "card", "pay") \/ At(h, "plan", "save") => job[h].plan \in Plans

LEMMA StartedAside ==
  ASSUME Typed, Started, NEW h \in Handlers, Aside(h),
         store' = "none" => store = "none" /\ UNCHANGED <<row, created>> /\ \A p \in Plans : stripe'[p].by = stripe[p].by \/ stripe'[p].by = "signup",
         created' <= 1, row.plan # NoPlan => row'.plan # NoPlan
  PROVE  Started'
<1>1. \A g \in Handlers : g # h => job'[g] = job[g]
  BY DEF Aside, Others
<1>2. \A g \in Handlers : g # h => KindOf(g)' = KindOf(g)
  BY <1>1 DEF KindOf
<1>3. \A g \in Handlers : KindOf(g)' \in {"plan", "card"} => store' # "none"
  BY <1>2 DEF Started, Aside
<1>4. \A g \in Handlers : KindOf(g)' = "card" \/ At(g, "webhook", "move")' => row'.plan # NoPlan
  BY <1>1, <1>2 DEF Started, Aside, At
<1>5. \A g \in Handlers : At(g, "card", "pay")' \/ At(g, "plan", "save")' => job'[g].plan \in Plans
  BY <1>1 DEF Started, Aside, At
<1>6. store' = "none" => row' = NoRow /\ created' = 0 /\ \A p \in Plans : stripe'[p].by \notin Cards
  BY BillingAssumptions DEF Started
<1> QED BY <1>3, <1>4, <1>5, <1>6 DEF Started

\* A new row of the plan is well formed.
RowOK(r) == r \in Row /\ (r.status = "past_due") = (r.grace # "none") /\ (r.status = "active" => r.plan # NoPlan)

LEMMA StripeTyped ==
  ASSUME Typed, NEW p \in Plans, NEW how \in {"active", "past_due", "canceled"}, stripe' = [stripe EXCEPT ![p].status = how]
  PROVE  /\ stripe' \in [Plans -> Subscription]
         /\ \A q \in Plans : stripe'[q].by = stripe[q].by
         /\ stripe'[p].status = how
         /\ \A q \in Plans : q # p => stripe'[q] = stripe[q]
<1>1. stripe \in [Plans -> Subscription]
  BY DEF Typed, TypeOK
<1>2. [stripe[p] EXCEPT !.status = how] \in Subscription /\ [stripe[p] EXCEPT !.status = how].by = stripe[p].by
      /\ [stripe[p] EXCEPT !.status = how].status = how
  BY <1>1 DEF Subscription
<1>3. stripe' = [stripe EXCEPT ![p] = [stripe[p] EXCEPT !.status = how]]
  OBVIOUS
<1> QED BY <1>1, <1>2, <1>3

LEMMA CreatedTyped ==
  ASSUME Typed, NEW p \in Plans, NEW how \in {"trialing", "active"}, NEW who \in {"signup"} \union Cards, stripe' = [stripe EXCEPT ![p] = [status |-> how, by |-> who]]
  PROVE  /\ stripe' \in [Plans -> Subscription]
         /\ stripe'[p].by = who
         /\ \A q \in Plans : q # p => stripe'[q] = stripe[q]
<1>1. stripe \in [Plans -> Subscription] /\ [status |-> how, by |-> who] \in Subscription
  BY DEF Typed, TypeOK, Subscription
<1> QED BY <1>1

LEMMA TypedRow ==
  ASSUME Typed, Started, NEW h \in Handlers,
         \/ CreateBusiness(h) \/ SavePlan(h) \/ SaveSettled(h)
         \/ OnSubscriptionDeleted(h) \/ OnPlanPaymentFailed(h) \/ OnPlanPaymentSucceeded(h)
         \/ ClaimExpiredTrial(h) \/ ClaimPastDue(h)
  PROVE  /\ RowOK(row)' /\ (row.plan # NoPlan => row'.plan # NoPlan)
         /\ store' \in {"none", "review", "approved", "suspended"} /\ (store' = "none" => UNCHANGED <<store, row, created>>)
         /\ created' \in Nat /\ created' <= 1
         /\ UNCHANGED <<outside, byKhs, lock, doubt, crashes>>
<1>0. RowOK(row) /\ row \in Row /\ store \in {"none", "review", "approved", "suspended"} /\ created \in Nat /\ created <= 1
  BY DEF RowOK, Typed, TypeOK, Started
<1> USE DEF RowOK
<1>1. CASE CreateBusiness(h)
  <2>1. job[h] \in SetupJob
    BY <1>1, JobAt DEF CreateBusiness
  <2>2. RowOK(SignupRow(job[h].option))
    BY <2>1, BillingAssumptions DEF SetupJob, SignupRow, NoRow, Row
  <2>3. CASE store = "none"
    <3>1. row = NoRow /\ created = 0
      BY <2>3 DEF Started
    <3> QED BY <1>1, <2>2, <2>3, <3>1 DEF CreateBusiness, NoRow
  <2>4. CASE store # "none"
    BY <1>0, <1>1, <2>4 DEF CreateBusiness
  <2> QED BY <2>3, <2>4
<1>2. CASE SavePlan(h)
  <2>1. job[h].plan \in Plans /\ store # "none"
    BY <1>2 DEF Started, SavePlan, At, KindOf
  <2>2. \E how \in {"active", "trialing"} : row' = [row EXCEPT !.status = how, !.plan = job[h].plan, !.grace = "none", !.reason = "none"]
    BY <1>2 DEF SavePlan
  <2>3. RowOK(row)' /\ row'.plan # NoPlan
    BY <1>0, <2>1, <2>2, BillingAssumptions DEF Row
  <2> QED BY <1>0, <1>2, <2>1, <2>3 DEF SavePlan
<1>3. CASE SaveSettled(h)
  <2>1. row.plan # NoPlan /\ store # "none"
    BY <1>3 DEF Started, SaveSettled, At, KindOf
  <2>2. RowOK(row)' /\ row'.plan = row.plan
    BY <1>0, <1>3, <2>1 DEF SaveSettled, Row
  <2> QED BY <1>0, <1>3, <2>1, <2>2 DEF SaveSettled
<1>4. CASE OnPlanPaymentFailed(h) \/ OnPlanPaymentSucceeded(h)
  <2>1. row.plan # NoPlan
    BY <1>4 DEF Started, OnPlanPaymentFailed, OnPlanPaymentSucceeded
  <2>2. store # "none"
    BY <2>1 DEF Started, NoRow
  <2>3. RowOK(row)' /\ row'.plan = row.plan
    BY <1>0, <1>4, <2>1 DEF OnPlanPaymentFailed, OnPlanPaymentSucceeded, Row
  <2> QED BY <1>0, <1>4, <2>1, <2>2, <2>3 DEF OnPlanPaymentFailed, OnPlanPaymentSucceeded
<1>5. CASE OnSubscriptionDeleted(h) \/ ClaimExpiredTrial(h) \/ ClaimPastDue(h)
  <2>1. UNCHANGED row \/ (store # "none" /\ \E reason \in {"stripe_canceled", "trial_expired", "grace_exceeded"} : row' = [row EXCEPT !.status = "canceled", !.reason = reason, !.grace = "none"])
    <3>1. row.plan # NoPlan \/ row.status # "none" => store # "none"
      BY DEF Started, NoRow
    <3>2. OnSubscriptionDeleted(h) => row.plan # NoPlan
      BY DEF Started, OnSubscriptionDeleted
    <3> QED BY <1>5, <3>1, <3>2 DEF OnSubscriptionDeleted, ClaimExpiredTrial, ClaimPastDue, Cancelled
  <2>2. RowOK(row)' /\ row'.plan = row.plan
    BY <1>0, <2>1 DEF Row
  <2> QED BY <1>0, <1>5, <2>1, <2>2 DEF OnSubscriptionDeleted, ClaimExpiredTrial, ClaimPastDue
<1> QED BY <1>1, <1>2, <1>3, <1>4, <1>5

LEMMA TypedJob == ASSUME job' \in [Handlers -> Job] PROVE \A h \in Handlers : job'[h] \in Job
OBVIOUS

LEMMA TypedHandler ==
  ASSUME Typed, Started, NEW h \in Handlers, HandlerStep(h)
  PROVE  Typed' /\ Started'
<1> DEFINE Asides ==
      \/ ListSubscriptions(h) \/ ChargeFirstMonth(h) \/ LookForBusiness(h) \/ ResolveSignup(h)
      \/ ReleaseLock(h) \/ PayOpenInvoice(h) \/ SuspendForBilling(h) \/ CancelInStripe(h)
<1>1. ASSUME \/ CreateBusiness(h) \/ SavePlan(h) \/ SaveSettled(h)
             \/ OnSubscriptionDeleted(h) \/ OnPlanPaymentFailed(h) \/ OnPlanPaymentSucceeded(h)
             \/ ClaimExpiredTrial(h) \/ ClaimPastDue(h)
      PROVE  Typed' /\ Started'
  <2>1. Aside(h)
    BY <1>1, AsideSteps
  <2>2. /\ RowOK(row)' /\ (row.plan # NoPlan => row'.plan # NoPlan)
        /\ store' \in {"none", "review", "approved", "suspended"} /\ (store' = "none" => UNCHANGED <<store, row, created>>)
        /\ created' \in Nat /\ created' <= 1
        /\ UNCHANGED <<outside, byKhs, lock, doubt, crashes>>
    BY <1>1, TypedRow
  <2>3. UNCHANGED <<stripe, events, invoices, byKhs, lock, doubt, crashes>>
    BY <2>2 DEF outside
  <2>4. Started'
    BY <2>1, <2>2, <2>3, StartedAside
  <2>5. TypeOK'
    BY <2>1, <2>2, <2>3, TypedJob DEF Typed, TypeOK, Aside, RowOK
  <2> QED BY <2>1, <2>4, <2>5 DEF Typed, Aside
<1>2. ASSUME ListSubscriptions(h) \/ LookForBusiness(h) \/ ResolveSignup(h) \/ ReleaseLock(h) PROVE Typed' /\ Started'
  <2>1. Aside(h)
    BY <1>2, AsideSteps
  <2>2. UNCHANGED <<stripe, events, invoices, row, store, byKhs, created, doubt, crashes>> /\ lock' \in {lock, NoJob}
    BY <1>2 DEF ListSubscriptions, LookForBusiness, ResolveSignup, ReleaseLock, outside, ours
  <2>3. Started'
    BY <2>1, <2>2, StartedAside DEF Started
  <2>4. TypeOK'
    BY <2>1, <2>2, TypedJob DEF Typed, TypeOK, Aside
  <2> QED BY <2>1, <2>3, <2>4 DEF Typed, Aside
<1>3. ASSUME ChargeFirstMonth(h) PROVE Typed' /\ Started'
  <2>1. Aside(h) /\ UNCHANGED <<events, invoices, row, store, byKhs, created, lock, doubt, crashes>>
    BY <1>3, AsideSteps DEF ChargeFirstMonth, ours
  <2>2. /\ stripe' \in [Plans -> Subscription]
        /\ \A q \in Plans : stripe'[q].by = stripe[q].by \/ stripe'[q].by = "signup"
    <3>1. CASE UNCHANGED stripe
      BY <3>1 DEF Typed, TypeOK
    <3>2. CASE Create("active", "signup")
      <4>1. PICK p \in Plans : stripe' = [stripe EXCEPT ![p] = [status |-> "active", by |-> "signup"]]
        BY <3>2 DEF Create
      <4> QED BY <4>1, CreatedTyped
    <3> QED BY <1>3, <3>1, <3>2 DEF ChargeFirstMonth
  <2>3. Started'
    BY <2>1, <2>2, StartedAside DEF Started
  <2>4. TypeOK'
    BY <2>1, <2>2, TypedJob DEF Typed, TypeOK, Aside
  <2> QED BY <2>1, <2>3, <2>4 DEF Typed, Aside
<1>4. ASSUME PayOpenInvoice(h) PROVE Typed' /\ Started'
  <2>1. Aside(h) /\ UNCHANGED <<invoices, row, store, byKhs, created, lock, doubt, crashes>> /\ job[h].plan \in Plans
    BY <1>4, AsideSteps DEF PayOpenInvoice, ours, Started
  <2>2. /\ stripe' \in [Plans -> Subscription] /\ events' \subseteq Event
        /\ \A q \in Plans : stripe'[q].by = stripe[q].by
    BY <1>4, <2>1, StripeTyped DEF PayOpenInvoice, Typed, TypeOK, Event
  <2>3. Started'
    BY <2>1, <2>2, StartedAside DEF Started
  <2>4. TypeOK'
    BY <2>1, <2>2, TypedJob DEF Typed, TypeOK, Aside
  <2> QED BY <2>1, <2>3, <2>4 DEF Typed, Aside
<1>5. ASSUME CancelInStripe(h) PROVE Typed' /\ Started'
  <2>1. Aside(h) /\ UNCHANGED <<invoices, row, store, byKhs, created, lock, doubt, crashes>>
    BY <1>5, AsideSteps DEF CancelInStripe, ours
  <2>2. job[h] \in SweepJob
    BY <1>5, JobAt DEF CancelInStripe
  <2>3. Live(job[h].plan) => job[h].plan \in Plans
    BY <2>2 DEF SweepJob, Live
  <2>4. /\ stripe' \in [Plans -> Subscription] /\ events' \subseteq Event
        /\ \A q \in Plans : stripe'[q].by = stripe[q].by
    BY <1>5, <2>3, StripeTyped DEF CancelInStripe, Emit, Typed, TypeOK, Event
  <2>5. Started'
    BY <2>1, <2>4, StartedAside DEF Started
  <2>6. TypeOK'
    BY <2>1, <2>4, TypedJob DEF Typed, TypeOK, Aside
  <2> QED BY <2>1, <2>5, <2>6 DEF Typed, Aside
<1>6. ASSUME SuspendForBilling(h) PROVE Typed' /\ Started'
  <2>1. Aside(h) /\ UNCHANGED <<stripe, events, invoices, row, byKhs, created, lock, doubt, crashes>>
    BY <1>6, AsideSteps DEF SuspendForBilling, outside
  <2>2. store' = store \/ (store # "none" /\ store' = "suspended")
    BY <1>6 DEF SuspendForBilling
  <2>3. Started'
    BY <2>1, <2>2, StartedAside DEF Started
  <2>4. TypeOK'
    BY <2>1, <2>2, TypedJob DEF Typed, TypeOK, Aside
  <2> QED BY <2>1, <2>3, <2>4 DEF Typed, Aside
<1>7. ASSUME WithBusinessLock(h) \/ ReadForPlan(h) \/ ReadForCard(h) \/ FindBySubscription(h) PROVE Typed' /\ Started'
  <2>1. /\ job' \in [Handlers -> Job] /\ \A g \in Handlers : g # h => job'[g] = job[g] /\ KindOf(g)' = KindOf(g)
        /\ KindOf(h)' \in {"idle", "webhook", KindOf(h)}
        /\ At(h, "webhook", "move")' => row.plan \in Plans
        /\ ~At(h, "plan", "save")'
        /\ At(h, "card", "pay")' => job'[h].plan \in Plans
    BY <1>7, LockJob, ReadForPlanJob, ReadForCardJob, FindJob DEF Others, At, KindOf
  <2>2. /\ UNCHANGED <<stripe, events, invoices, row, store, byKhs, created, crashes>>
        /\ lock' \in {lock, h} /\ doubt' \in {doubt, "stripe"}
    BY <1>7 DEF WithBusinessLock, TakeLock, ReadForPlan, ReadForCard, FindBySubscription, outside, ours, Doubt
  <2>3. Started'
    BY <2>1, <2>2, BillingAssumptions DEF Started, At
  <2>4. TypeOK'
    BY <2>1, <2>2, TypedJob DEF Typed, TypeOK
  <2> QED BY <2>1, <2>3, <2>4 DEF Typed
<1>8. ASSUME CreatePlanSubscription(h) PROVE Typed' /\ Started'
  <2>1. /\ job' \in [Handlers -> Job] /\ \A g \in Handlers : g # h => job'[g] = job[g] /\ KindOf(g)' = KindOf(g)
        /\ KindOf(h)' = "plan" /\ KindOf(h) = "plan"
        /\ At(h, "plan", "save")' => job'[h].plan \in Plans
    BY <1>8, CreatePlanJob DEF Others, KindOf
  <2>2. UNCHANGED <<events, invoices, row, store, byKhs, created, lock, doubt, crashes>>
    BY <1>8 DEF CreatePlanSubscription, ours
  <2>3. stripe' \in [Plans -> Subscription]
    <3>1. CASE UNCHANGED stripe
      BY <3>1 DEF Typed, TypeOK
    <3>2. CASE ~UNCHANGED stripe
      <4>1. PICK p \in Plans, how \in {"trialing", "active"} : stripe' = [stripe EXCEPT ![p] = [status |-> how, by |-> job[h].card]]
        BY <1>8, <3>2, CreatePlanJob
      <4>2. job[h].card \in Cards
        BY <1>8, CreatePlanJob
      <4> QED BY <4>1, <4>2, CreatedTyped
    <3> QED BY <3>1, <3>2
  <2>4. store # "none"
    BY <2>1 DEF Started
  <2>5. Started'
    BY <2>1, <2>2, <2>4 DEF Started, At, KindOf
  <2>6. TypeOK'
    BY <2>1, <2>2, <2>3, TypedJob DEF Typed, TypeOK
  <2> QED BY <2>1, <2>5, <2>6 DEF Typed
<1> QED BY <1>1, <1>2, <1>3, <1>4, <1>5, <1>6, <1>7, <1>8 DEF HandlerStep

LEMMA TypedStep ==
  ASSUME Typed, Started, [Next]_vars
  PROVE  Typed' /\ Started'
<1>1. CASE UNCHANGED vars
  <2>1. UNCHANGED <<stripe, events, invoices, row, store, byKhs, created, lock, doubt, crashes, job>>
    BY <1>1 DEF vars, outside, ours
  <2> QED BY <2>1 DEF Typed, TypeOK, Started, At, KindOf
<1>2. ASSUME NEW h \in Handlers, Request(h) PROVE Typed' /\ Started'
  <2>1. /\ job' \in [Handlers -> Job] /\ \A g \in Handlers : g # h => job'[g] = job[g] /\ KindOf(g)' = KindOf(g)
        /\ KindOf(h)' \in {"plan", "card"} => store # "none"
        /\ KindOf(h)' = "card" => row.plan # NoPlan
        /\ ~At(h, "plan", "save")' /\ ~At(h, "card", "pay")' /\ ~At(h, "webhook", "move")'
    BY <1>2, BeginJobs DEF Others, KindOf
  <2>2. UNCHANGED <<stripe, invoices, row, store, byKhs, created, lock, doubt, crashes>> /\ events' \subseteq events
    BY <1>2 DEF Request, BeginCharge, BeginCard, BeginSetup, BeginPlan, BeginWebhook, BeginSweep, outside, ours
  <2>3. Started'
    BY <2>1, <2>2 DEF Started, At
  <2>4. TypeOK'
    BY <2>1, <2>2, TypedJob DEF Typed, TypeOK
  <2> QED BY <2>1, <2>3, <2>4 DEF Typed
<1>3. ASSUME NEW h \in Handlers, Crash(h) PROVE Typed' /\ Started'
  <2>1. Aside(h) /\ UNCHANGED <<stripe, invoices, row, store, byKhs, created, lock>>
    BY <1>3, AsideSteps DEF Crash, ours
  <2>2. doubt' \in {doubt, "lock"} /\ crashes' \in 0..MaxCrashes
    BY <1>3, BillingAssumptions DEF Crash, Doubt, Typed, TypeOK
  <2>3. events' \subseteq Event
    <3>1. job[h] # NoJob /\ job[h].kind = "webhook" => job[h].event \in Event
      BY JobKind DEF Typed, WebhookJob
    <3> QED BY <1>3, <3>1 DEF Crash, Typed, TypeOK
  <2>4. Started'
    BY <2>1, StartedAside DEF Started
  <2>5. TypeOK'
    BY <2>1, <2>2, <2>3, TypedJob DEF Typed, TypeOK, Aside
  <2> QED BY <2>1, <2>4, <2>5 DEF Typed, Aside
<1>3a. ASSUME NEW h \in Handlers, PlanNotSaved(h) PROVE Typed' /\ Started'
  <2>1. Aside(h) /\ UNCHANGED <<stripe, events, invoices, row, store, byKhs, created, lock>>
    BY <1>3a, AsideSteps DEF PlanNotSaved, outside, ours
  <2>2. doubt' \in {doubt, "save"} /\ crashes' \in 0..MaxCrashes
    BY <1>3a, BillingAssumptions DEF PlanNotSaved, Doubt, Typed, TypeOK
  <2>3. Started'
    BY <2>1, StartedAside DEF Started
  <2>4. TypeOK'
    BY <2>1, <2>2, TypedJob DEF Typed, TypeOK, Aside
  <2> QED BY <2>1, <2>3, <2>4 DEF Typed, Aside
<1>4. ASSUME NEW p \in Plans, Renewal(p) \/ StripeCancels(p) PROVE Typed' /\ Started'
  <2>1. UNCHANGED <<row, store, byKhs, created, lock, doubt, crashes, job>> /\ events' \subseteq Event /\ invoices' \in 0..MaxInvoices
    BY <1>4, BillingAssumptions DEF Renewal, StripeCancels, Emit, Event, ours, Typed, TypeOK
  <2>2. stripe' \in [Plans -> Subscription] /\ \A q \in Plans : stripe'[q].by = stripe[q].by
    BY <1>4, StripeTyped DEF Renewal, StripeCancels
  <2> QED BY <2>1, <2>2 DEF Typed, TypeOK, Started, At, KindOf
<1>5. ASSUME Approve \/ KhsSuspends \/ LockExpires \/ TrialEnds \/ GraceEnds PROVE Typed' /\ Started'
  <2>1. UNCHANGED <<stripe, events, invoices, created, crashes, job>>
    BY <1>5 DEF Approve, KhsSuspends, LockExpires, TrialEnds, GraceEnds, outside, ours
  <2>2. /\ lock' \in {lock, NoJob} /\ doubt' \in {doubt, "lock"} /\ byKhs' \in {byKhs, TRUE}
        /\ store' = store \/ (store # "none" /\ store' \in {"approved", "suspended"})
    BY <1>5 DEF Approve, KhsSuspends, LockExpires, TrialEnds, GraceEnds, Doubt, outside, ours
  <2>3. row' \in Row /\ row'.plan = row.plan /\ (row'.status = "past_due") = (row'.grace # "none") /\ (row'.status = "active" => row'.plan # NoPlan)
    BY <1>5 DEF Approve, KhsSuspends, LockExpires, TrialEnds, GraceEnds, outside, ours, Typed, TypeOK, Row
  <2>4. store' = "none" => row' = row
    <3>1. store = "none" => row = NoRow
      BY DEF Started
    <3> QED BY <1>5, <2>2, <3>1 DEF Approve, KhsSuspends, LockExpires, TrialEnds, GraceEnds, outside, ours, NoRow
  <2>5. TypeOK'
    BY <2>1, <2>2, <2>3 DEF Typed, TypeOK
  <2>6. Started'
    BY <2>1, <2>2, <2>3, <2>4 DEF Started, At, KindOf
  <2> QED BY <2>1, <2>5, <2>6 DEF Typed
<1> QED BY <1>1, <1>2, <1>3, <1>3a, <1>4, <1>5, TypedHandler DEF Next

LEMMA TypedInit ==
  ASSUME Init
  PROVE  Typed /\ Started
<1>1. job \in [Handlers -> Job] /\ \A h \in Handlers : job[h] = NoJob
  BY DEF Init, Job
<1>2. row \in Row /\ (row.status = "past_due") = (row.grace # "none") /\ row.status # "active"
  BY DEF Init, NoRow, Row
<1>3. stripe \in [Plans -> Subscription] /\ \A p \in Plans : stripe[p].by \notin Cards
  BY BillingAssumptions DEF Init, Subscription
<1>4. TypeOK
  <2>1. events \subseteq Event /\ invoices \in 0..MaxInvoices /\ crashes \in 0..MaxCrashes /\ created \in Nat
    BY BillingAssumptions DEF Init
  <2>2. /\ store \in {"none", "review", "approved", "suspended"} /\ byKhs \in BOOLEAN
        /\ lock \in Handlers \union {NoJob} /\ doubt \in {"none", "lock", "save", "stripe"}
    BY DEF Init
  <2> QED BY <1>1, <1>2, <1>3, <2>1, <2>2 DEF TypeOK
<1>5. Started
  BY <1>1, <1>3 DEF Init, Started, KindOf, At
<1> QED BY <1>1, <1>4, <1>5 DEF Typed

-----------------------------------------------------------------------------
(* One live plan. *)

\* As long as nothing may have let two requests through: whoever is past the
\* lock holds it; who is to create a plan found none alive; who is to save one
\* has created the only one; otherwise the only one is the salon's.
OneInv ==
  doubt = "none" =>
    /\ \A h \in Handlers : Holds(h) => lock = h
    /\ \A h \in Handlers : At(h, "plan", "create") => Chosen = {}
    /\ \A h \in Handlers : At(h, "plan", "save") => Chosen \subseteq {job[h].plan}
    /\ (\A h \in Handlers : ~At(h, "plan", "save")) => Chosen \subseteq {row.plan}

LEMMA SavingHolds ==
  ASSUME NEW h, At(h, "plan", "create") \/ At(h, "plan", "save")
  PROVE  Holds(h)
BY DEF At, Holds, KindOf

\* A request that was not saving a plan goes on; nothing new is alive.
LEMMA OneAside ==
  ASSUME OneInv, NEW h \in Handlers, Others(h), Holds(h)' => Holds(h), ~At(h, "plan", "create")', ~At(h, "plan", "save")',
         ~At(h, "plan", "save") \/ (doubt = "none" => lock # h),
         doubt' = "none" => doubt = "none" /\ lock' = lock, Chosen' \subseteq Chosen, Chosen # {} => row'.plan = row.plan
  PROVE  OneInv'
<1> SUFFICES ASSUME doubt' = "none" PROVE OneInv'
  BY DEF OneInv
<1>1. doubt = "none" /\ lock' = lock /\ ~At(h, "plan", "save")
  BY SavingHolds DEF OneInv
<1>2. \A g \in Handlers : g # h => job'[g] = job[g]
  BY DEF Others
<1>3. \A g \in Handlers : g # h => (Holds(g)' <=> Holds(g)) /\ (At(g, "plan", "create")' <=> At(g, "plan", "create")) /\ (At(g, "plan", "save")' <=> At(g, "plan", "save"))
  BY <1>2 DEF Holds, KindOf, At
<1>4. \A g \in Handlers : Holds(g)' => lock' = g
  BY <1>1, <1>3 DEF OneInv
<1>5. \A g \in Handlers : At(g, "plan", "create")' => Chosen' = {}
  BY <1>1, <1>3 DEF OneInv
<1>6. \A g \in Handlers : At(g, "plan", "save")' => Chosen' \subseteq {job'[g].plan}
  BY <1>1, <1>2, <1>3 DEF OneInv
<1>7. (\A g \in Handlers : ~At(g, "plan", "save")') => Chosen' \subseteq {row'.plan}
  BY <1>1, <1>3 DEF OneInv
<1> QED BY <1>4, <1>5, <1>6, <1>7 DEF OneInv

\* What is alive is what Stripe says, and for whose card.
LEMMA ChosenSame ==
  ASSUME \A p \in Plans : stripe'[p].by \in Cards /\ stripe'[p].status \in {"active", "trialing", "past_due"} =>
           stripe[p].by = stripe'[p].by /\ stripe[p].status \in {"active", "trialing", "past_due"}
  PROVE  Chosen' \subseteq Chosen
BY DEF Chosen, Live

LEMMA OneAsideSteps ==
  ASSUME Typed, Started, OneInv, NEW h \in Handlers,
         \/ ListSubscriptions(h) \/ ChargeFirstMonth(h) \/ LookForBusiness(h) \/ ResolveSignup(h) \/ CreateBusiness(h)
         \/ PayOpenInvoice(h) \/ SaveSettled(h)
         \/ OnSubscriptionDeleted(h) \/ OnPlanPaymentFailed(h) \/ OnPlanPaymentSucceeded(h)
         \/ SuspendForBilling(h) \/ ClaimExpiredTrial(h) \/ ClaimPastDue(h) \/ CancelInStripe(h)
  PROVE  OneInv'
<1>1. Aside(h)
  BY AsideSteps
<1>2. ~At(h, "plan", "save")
  BY DEF ListSubscriptions, ChargeFirstMonth, LookForBusiness, ResolveSignup, CreateBusiness, PayOpenInvoice, SaveSettled,
         OnSubscriptionDeleted, OnPlanPaymentFailed, OnPlanPaymentSucceeded, SuspendForBilling, ClaimExpiredTrial, ClaimPastDue, CancelInStripe, At
<1>3. UNCHANGED <<doubt, lock>>
  BY DEF ListSubscriptions, ChargeFirstMonth, LookForBusiness, ResolveSignup, CreateBusiness, PayOpenInvoice, SaveSettled,
         OnSubscriptionDeleted, OnPlanPaymentFailed, OnPlanPaymentSucceeded, SuspendForBilling, ClaimExpiredTrial, ClaimPastDue, CancelInStripe
<1>4. Chosen # {} => row'.plan = row.plan
  <2>1. CASE CreateBusiness(h)
    <3>1. store = "none" => Chosen = {}
      BY DEF Started, Chosen
    <3> QED BY <2>1, <3>1 DEF CreateBusiness
  <2>2. CASE ~CreateBusiness(h)
    <3>1. row \in Row
      BY DEF Typed, TypeOK
    <3>2. \/ UNCHANGED row
          \/ row' = [row EXCEPT !.status = "active", !.grace = "none"]
          \/ row' = [row EXCEPT !.status = "past_due", !.grace = "running"]
          \/ \E reason \in {"stripe_canceled", "trial_expired", "grace_exceeded"} : row' = [row EXCEPT !.status = "canceled", !.reason = reason, !.grace = "none"]
      BY <2>2 DEF ListSubscriptions, ChargeFirstMonth, LookForBusiness, ResolveSignup, PayOpenInvoice, SaveSettled,
         OnSubscriptionDeleted, OnPlanPaymentFailed, OnPlanPaymentSucceeded, SuspendForBilling, ClaimExpiredTrial, ClaimPastDue,
         CancelInStripe, Cancelled, ours
    <3> QED BY <3>1, <3>2 DEF Row
  <2> QED BY <2>1, <2>2
<1>5. Chosen' \subseteq Chosen
  <2>1. CASE UNCHANGED stripe
    BY <2>1 DEF Chosen, Live
  <2>2. ASSUME ChargeFirstMonth(h), Create("active", "signup") PROVE Chosen' \subseteq Chosen
    <3>1. PICK p \in Plans : stripe' = [stripe EXCEPT ![p] = [status |-> "active", by |-> "signup"]]
      BY <2>2 DEF Create
    <3>2. stripe'[p].by = "signup" /\ \A q \in Plans : q # p => stripe'[q] = stripe[q]
      BY <3>1, CreatedTyped
    <3> QED BY <3>2, ChosenSame, BillingAssumptions
  <2>3. ASSUME NEW p \in Plans, NEW how \in {"active", "canceled"}, stripe' = [stripe EXCEPT ![p].status = how], how = "active" => stripe[p].status = "past_due"
        PROVE  Chosen' \subseteq Chosen
    <3>1. stripe'[p].status = how /\ (\A q \in Plans : stripe'[q].by = stripe[q].by) /\ (\A q \in Plans : q # p => stripe'[q] = stripe[q])
      BY <2>3, StripeTyped
    <3> QED BY <2>3, <3>1, ChosenSame
  <2>4. PayOpenInvoice(h) => UNCHANGED stripe \/ (job[h].plan \in Plans /\ stripe' = [stripe EXCEPT ![job[h].plan].status = "active"] /\ stripe[job[h].plan].status = "past_due")
    BY DEF PayOpenInvoice, Started
  <2>5. CancelInStripe(h) => UNCHANGED stripe \/ (job[h].plan \in Plans /\ stripe' = [stripe EXCEPT ![job[h].plan].status = "canceled"])
    BY JobAt DEF CancelInStripe, SweepJob, Live
  <2>6. \/ UNCHANGED stripe
        \/ ChargeFirstMonth(h) /\ Create("active", "signup")
        \/ PayOpenInvoice(h) \/ CancelInStripe(h)
    BY DEF ListSubscriptions, ChargeFirstMonth, LookForBusiness, ResolveSignup, CreateBusiness, SaveSettled,
         OnSubscriptionDeleted, OnPlanPaymentFailed, OnPlanPaymentSucceeded, SuspendForBilling, ClaimExpiredTrial, ClaimPastDue, outside
  <2> QED BY <2>1, <2>2, <2>3, <2>4, <2>5, <2>6
<1> QED BY <1>1, <1>2, <1>3, <1>4, <1>5, OneAside DEF Aside

LEMMA OneStep ==
  ASSUME Typed, Started, OneInv, [Next]_vars
  PROVE  OneInv'
<1>1. CASE UNCHANGED vars
  BY <1>1 DEF vars, outside, ours, OneInv, Holds, KindOf, At, Chosen, Live
<1>2. ASSUME NEW h \in Handlers, WithBusinessLock(h) PROVE OneInv'
  <2>1. /\ Others(h) /\ (lock # NoJob => ~Holds(h)')
        /\ ~At(h, "plan", "create")' /\ ~At(h, "plan", "save")'
    BY <1>2, LockJob
  <2>2. UNCHANGED <<stripe, row, doubt>> /\ lock' \in {lock, h} /\ (lock # NoJob => lock' = lock)
        /\ ~At(h, "plan", "create") /\ ~At(h, "plan", "save") /\ ~Holds(h)
    BY <1>2 DEF WithBusinessLock, TakeLock, outside, ours, At, Holds, KindOf
  <2>3. CASE lock = NoJob
    <3>1. doubt = "none" => \A g \in Handlers : ~Holds(g)
      BY <2>3, BillingAssumptions DEF OneInv
    <3>2. \A g \in Handlers : g # h => (Holds(g)' <=> Holds(g)) /\ (At(g, "plan", "create")' <=> At(g, "plan", "create")) /\ (At(g, "plan", "save")' <=> At(g, "plan", "save"))
      BY <2>1 DEF Others, Holds, KindOf, At
    <3>3. Holds(h)' => lock' = h
      <4>1. CASE Done(h)
        BY <4>1, AsideEnds DEF Typed, Aside, Holds, KindOf
      <4> QED BY <1>2, <2>3, <4>1 DEF WithBusinessLock, TakeLock
    <3>4. Chosen' = Chosen
      BY <2>2 DEF Chosen, Live
    <3> QED BY <2>1, <2>2, <3>1, <3>2, <3>3, <3>4, SavingHolds DEF OneInv
  <2>4. CASE lock # NoJob
    <3>1. Chosen' = Chosen
      BY <2>2 DEF Chosen, Live
    <3> QED BY <2>1, <2>2, <2>4, <3>1, OneAside
  <2> QED BY <2>3, <2>4
<1>3. ASSUME NEW h \in Handlers, ReleaseLock(h) PROVE OneInv'
  <2>1. Aside(h) /\ Holds(h) /\ job'[h] = NoJob
    BY <1>3, AsideSteps, AsideEnds DEF ReleaseLock, At, Holds, KindOf
  <2>2. UNCHANGED <<stripe, row, doubt>> /\ ~At(h, "plan", "create") /\ ~At(h, "plan", "save")
    BY <1>3 DEF ReleaseLock, At, outside, ours
  <2>3. doubt = "none" => \A g \in Handlers : g # h => ~Holds(g)
    BY <2>1 DEF OneInv
  <2>4. doubt = "none" => \A g \in Handlers : ~Holds(g)' /\ ~At(g, "plan", "create")' /\ ~At(g, "plan", "save")' /\ ~At(g, "plan", "save")
    BY <2>1, <2>2, <2>3, SavingHolds DEF Aside, Others, Holds, KindOf, At
  <2>5. Chosen' = Chosen
    BY <2>2 DEF Chosen, Live
  <2> QED BY <2>2, <2>4, <2>5 DEF OneInv
<1>4. ASSUME NEW h \in Handlers, ReadForPlan(h) PROVE OneInv'
  <2>1. /\ Others(h) /\ Holds(h) /\ ~At(h, "plan", "save")'
        /\ UNCHANGED <<stripe, row, lock>>
        /\ ~At(h, "plan", "save")
    BY <1>4, ReadForPlanJob DEF ReadForPlan, outside, ours, At
  <2>2. Chosen' = Chosen
    BY <2>1 DEF Chosen, Live
  <2>3. SUFFICES ASSUME doubt' = "none" PROVE OneInv'
    BY DEF OneInv
  <2>4. doubt = "none" /\ UNCHANGED doubt /\ (Live(row.plan) => Goto(h, "unlock"))
    BY <1>4, <2>3 DEF ReadForPlan, Doubt
  <2>5. lock = h /\ \A g \in Handlers : g # h => ~Holds(g)
    BY <2>1, <2>4 DEF OneInv
  <2>6. \A g \in Handlers : g # h => ~Holds(g)' /\ ~At(g, "plan", "create")' /\ ~At(g, "plan", "save")' /\ ~At(g, "plan", "save")
    BY <2>1, <2>5, SavingHolds DEF Others, Holds, KindOf, At
  <2>7. Chosen \subseteq {row.plan}
    BY <2>1, <2>4, <2>6 DEF OneInv
  <2>8. At(h, "plan", "create")' => Chosen = {}
    <3>1. CASE Live(row.plan)
      <4>1. job[h] \in PlanJob /\ Goto(h, "unlock")
        BY <1>4, <2>4, <3>1, JobAt DEF ReadForPlan
      <4> QED BY <4>1, Moving DEF At
    <3>2. CASE ~Live(row.plan)
      BY <2>7, <3>2 DEF Chosen
    <3> QED BY <3>1, <3>2
  <2> QED BY <2>1, <2>2, <2>4, <2>5, <2>6, <2>7, <2>8 DEF OneInv
<1>5. ASSUME NEW h \in Handlers, CreatePlanSubscription(h) PROVE OneInv'
  <2>1. SUFFICES ASSUME doubt' = "none" PROVE OneInv'
    BY DEF OneInv
  <2>2. /\ Others(h) /\ Holds(h) /\ ~At(h, "plan", "create")' /\ ~At(h, "plan", "save")
        /\ UNCHANGED <<row, lock, doubt>> /\ doubt = "none" /\ At(h, "plan", "create")
    BY <1>5, <2>1, CreatePlanJob DEF CreatePlanSubscription, ours, At
  <2>3. lock = h /\ Chosen = {} /\ \A g \in Handlers : g # h => ~Holds(g)
    BY <2>2 DEF OneInv
  <2>4. \A g \in Handlers : g # h => ~Holds(g)' /\ ~At(g, "plan", "create")' /\ ~At(g, "plan", "save")'
    BY <2>2, <2>3, SavingHolds DEF Others, Holds, KindOf, At
  <2>5. At(h, "plan", "save")' => Chosen' \subseteq {job'[h].plan}
    <3> SUFFICES ASSUME At(h, "plan", "save")' PROVE Chosen' \subseteq {job'[h].plan}
      OBVIOUS
    <3>1. job'[h].plan \in Plans
      BY <1>5, CreatePlanJob
    <3>2. CASE UNCHANGED stripe
      BY <2>3, <3>2 DEF Chosen, Live
    <3>3. CASE ~UNCHANGED stripe
      <4>1. PICK how \in {"trialing", "active"} : stripe' = [stripe EXCEPT ![job'[h].plan] = [status |-> how, by |-> job[h].card]]
        BY <1>5, <3>3, CreatePlanJob
      <4>2. \A q \in Plans : q # job'[h].plan => stripe'[q] = stripe[q]
        BY <4>1 DEF Typed, TypeOK
      <4> QED BY <2>3, <4>2 DEF Chosen, Live
    <3> QED BY <3>2, <3>3
  <2>6. ~At(h, "plan", "save")' => Chosen' = {}
    <3>1. ~At(h, "plan", "save")' => UNCHANGED stripe
      BY <1>5, CreatePlanJob
    <3> QED BY <2>3, <3>1 DEF Chosen, Live
  <2> QED BY <2>2, <2>3, <2>4, <2>5, <2>6 DEF OneInv
<1>6. ASSUME NEW h \in Handlers, SavePlan(h) PROVE OneInv'
  <2>1. SUFFICES ASSUME doubt' = "none" PROVE OneInv'
    BY DEF OneInv
  <2>2. Aside(h) /\ Holds(h) /\ At(h, "plan", "save") /\ UNCHANGED <<stripe, lock, doubt>> /\ doubt = "none"
    BY <1>6, <2>1, AsideSteps, SavingHolds DEF SavePlan, outside
  <2>3. row'.plan = job[h].plan
    BY <1>6 DEF SavePlan, Typed, TypeOK, Row
  <2>4. lock = h /\ Chosen \subseteq {job[h].plan} /\ \A g \in Handlers : g # h => ~Holds(g)
    BY <2>2 DEF OneInv
  <2>5. \A g \in Handlers : ~At(g, "plan", "create")' /\ ~At(g, "plan", "save")' /\ (Holds(g)' => g = h)
    BY <2>2, <2>4, SavingHolds DEF Aside, Others, Holds, KindOf, At
  <2>6. Chosen' = Chosen
    BY <2>2 DEF Chosen, Live
  <2> QED BY <2>2, <2>3, <2>4, <2>5, <2>6 DEF OneInv
<1>7. ASSUME NEW h \in Handlers, ReadForCard(h) \/ FindBySubscription(h) PROVE OneInv'
  <2>1. /\ Others(h) /\ (Holds(h)' => Holds(h)) /\ ~At(h, "plan", "create")' /\ ~At(h, "plan", "save")' /\ ~At(h, "plan", "save")
        /\ UNCHANGED <<stripe, row, lock, doubt>>
    BY <1>7, ReadForCardJob, FindJob DEF ReadForCard, FindBySubscription, outside, ours, At, Holds, KindOf
  <2>2. Chosen' = Chosen
    BY <2>1 DEF Chosen, Live
  <2> QED BY <2>1, <2>2, OneAside
<1>8. ASSUME NEW h \in Handlers, Request(h) PROVE OneInv'
  <2>1. /\ Others(h) /\ ~Holds(h)' /\ ~At(h, "plan", "create")' /\ ~At(h, "plan", "save")' /\ ~At(h, "plan", "save")
        /\ UNCHANGED <<stripe, row, lock, doubt>>
    BY <1>8, BeginJobs DEF Request, BeginCharge, BeginCard, BeginSetup, BeginPlan, BeginWebhook, BeginSweep, outside, ours, At, KindOf
  <2>2. Chosen' = Chosen
    BY <2>1 DEF Chosen, Live
  <2> QED BY <2>1, <2>2, OneAside
<1>9. ASSUME NEW h \in Handlers, Crash(h) PROVE OneInv'
  <2>1. Aside(h) /\ UNCHANGED <<stripe, row, lock>> /\ (lock = h => doubt' # "none") /\ (doubt' = "none" => doubt = "none" /\ lock # h)
    BY <1>9, AsideSteps DEF Crash, ours, Doubt
  <2>2. Chosen' = Chosen
    BY <2>1 DEF Chosen, Live
  <2>3. ASSUME doubt' = "none" PROVE OneInv'
    <3>1. ~At(h, "plan", "save")
      BY <2>1, <2>3, SavingHolds DEF OneInv
    <3> QED BY <2>1, <2>2, <3>1, OneAside DEF Aside
  <2> QED BY <2>3 DEF OneInv
<1>9a. ASSUME NEW h \in Handlers, PlanNotSaved(h) PROVE OneInv'
  <2>1. doubt' # "none"
    BY <1>9a DEF PlanNotSaved, Doubt
  <2> QED BY <2>1 DEF OneInv
<1>10. ASSUME NEW p \in Plans, Renewal(p) \/ StripeCancels(p) PROVE OneInv'
  <2>1. UNCHANGED <<row, lock, doubt, job>>
    BY <1>10 DEF Renewal, StripeCancels, ours
  <2>2. PICK how \in {"active", "past_due", "canceled"} : stripe' = [stripe EXCEPT ![p].status = how]
    BY <1>10 DEF Renewal, StripeCancels
  <2>3. stripe[p].status \in {"active", "trialing", "past_due"}
    BY <1>10 DEF Renewal, StripeCancels, Live
  <2>4. (\A q \in Plans : stripe'[q].by = stripe[q].by) /\ (\A q \in Plans : q # p => stripe'[q] = stripe[q])
    BY <2>2, StripeTyped
  <2>5. Chosen' \subseteq Chosen
    BY <2>3, <2>4, ChosenSame
  <2> QED BY <2>1, <2>5 DEF OneInv, Holds, KindOf, At
<1>11. ASSUME Approve \/ KhsSuspends \/ LockExpires \/ TrialEnds \/ GraceEnds PROVE OneInv'
  <2>1. UNCHANGED <<stripe, job>> /\ row'.plan = row.plan /\ (doubt' = "none" => doubt = "none" /\ lock' = lock)
    BY <1>11 DEF Approve, KhsSuspends, LockExpires, TrialEnds, GraceEnds, Doubt, outside, ours, Typed, TypeOK, Row
  <2>2. Chosen' = Chosen
    BY <2>1 DEF Chosen, Live
  <2> QED BY <2>1, <2>2 DEF OneInv, Holds, KindOf, At
<1> QED BY <1>1, <1>2, <1>3, <1>4, <1>5, <1>6, <1>7, <1>8, <1>9, <1>9a, <1>10, <1>11, OneAsideSteps DEF Next, HandlerStep

\* billingService.ts:16: simultaneous requests never leave two live plans, as
\* long as none outlives its lock or is cut off, the plan is saved, and Stripe
\* answers.
THEOREM PlansNotDuplicated == Spec => []OneLivePlan
<1>1. Init => Typed /\ Started /\ OneInv
  <2> SUFFICES ASSUME Init PROVE OneInv
    BY TypedInit
  <2>1. Chosen = {}
    BY DEF Init, Chosen, Live
  <2> QED BY <2>1 DEF Init, OneInv, Holds, KindOf, At
<1>2. Typed /\ Started /\ OneInv /\ [Next]_vars => Typed' /\ Started' /\ OneInv'
  BY TypedStep, OneStep
<1>3. OneInv => OneLivePlan
  <2> SUFFICES ASSUME OneInv, doubt = "none" PROVE Cardinality(Chosen) <= 1
    BY DEF OneLivePlan
  <2>1. PICK p : Chosen \subseteq {p}
    <3>1. CASE \E h \in Handlers : At(h, "plan", "save")
      BY <3>1 DEF OneInv
    <3>2. CASE \A h \in Handlers : ~At(h, "plan", "save")
      BY <3>2 DEF OneInv
    <3> QED BY <3>1, <3>2
  <2>2. Chosen = {} \/ Chosen = {p}
    BY <2>1
  <2>3. Cardinality(Chosen) \in {0, 1}
    BY <2>2, FS_EmptySet, FS_Singleton, Zenon
  <2> QED BY <2>3
<1> QED BY <1>1, <1>2, <1>3, PTL DEF Spec

\* businessSetupService.ts:15-16: a double click creates one business.
THEOREM BusinessCreatedOnce == Spec => []OneBusiness
BY TypedInit, TypedStep, PTL DEF Spec, Started, OneBusiness

-----------------------------------------------------------------------------
(* The storefront of a cancelled plan. *)

\* Someone is about to take the storefront down.
TakingDown(h) == job[h] # NoJob /\ job[h].pc \in {"cancel", "suspend"}

LEMMA TakingDownStep ==
  ASSUME Typed, Started, CancelledIsTakenDown, [Next]_vars
  PROVE  CancelledIsTakenDown'
<1> SUFFICES ASSUME crashes' = 0, row'.status = "canceled", store' = "approved"
             PROVE  \E h \in Handlers : TakingDown(h)'
  BY DEF CancelledIsTakenDown, TakingDown
<1>0. crashes = 0 \/ \E h \in Handlers : Crash(h) \/ PlanNotSaved(h)
  BY DEF Next, vars, outside, ours, HandlerStep, Request, BeginCharge, BeginCard, BeginSetup, BeginPlan, BeginWebhook, BeginSweep,
     Renewal, StripeCancels, Approve, KhsSuspends, LockExpires, TrialEnds, GraceEnds,
     ListSubscriptions, ChargeFirstMonth, LookForBusiness, ResolveSignup, CreateBusiness, WithBusinessLock, TakeLock, ReleaseLock,
     ReadForPlan, CreatePlanSubscription, SavePlan, ReadForCard, PayOpenInvoice, SaveSettled, FindBySubscription,
     OnSubscriptionDeleted, OnPlanPaymentFailed, OnPlanPaymentSucceeded, SuspendForBilling, ClaimExpiredTrial, ClaimPastDue, CancelInStripe
<1>1. crashes \in Nat /\ ~(\E h \in Handlers : Crash(h) \/ PlanNotSaved(h)) /\ crashes = 0
  BY <1>0, BillingAssumptions DEF Crash, PlanNotSaved, Typed, TypeOK
\* The plan was cancelled already: who was taking its storefront down still is.
<1>2. ASSUME row.status = "canceled", store = "approved" PROVE \E h \in Handlers : TakingDown(h)'
  <2>1. PICK h \in Handlers : TakingDown(h)
    BY <1>1, <1>2 DEF CancelledIsTakenDown, TakingDown
  <2>2. CASE job'[h] = job[h]
    BY <2>1, <2>2 DEF TakingDown
  <2>3. CASE SuspendForBilling(h)
    BY <1>2, <2>3 DEF SuspendForBilling
  <2>4. CASE CancelInStripe(h)
    <3>1. job[h] \in SweepJob /\ Goto(h, "suspend")
      BY <2>4, JobAt DEF CancelInStripe
    <3> QED BY <3>1, Moving DEF TakingDown
  <2>5. CASE UNCHANGED job
    BY <2>1, <2>5 DEF TakingDown
  <2>6. ASSUME NEW g \in Handlers, HandlerStep(g) \/ Request(g) PROVE g # h => job'[h] = job[h]
    <3>1. Aside(g) => Others(g)
      BY DEF Aside
    <3> QED BY <2>6, <3>1, AsideSteps, LockJob, ReadForPlanJob, CreatePlanJob, ReadForCardJob, FindJob, BeginJobs DEF HandlerStep, Others
  <2>7. HandlerStep(h) \/ Request(h) => SuspendForBilling(h) \/ CancelInStripe(h)
    BY <2>1 DEF TakingDown, HandlerStep, Request, At, Begin, BeginCharge, BeginCard, BeginSetup, BeginPlan, BeginWebhook, BeginSweep,
     ListSubscriptions, ChargeFirstMonth, LookForBusiness, ResolveSignup, CreateBusiness, WithBusinessLock, TakeLock, ReleaseLock,
     ReadForPlan, CreatePlanSubscription, SavePlan, ReadForCard, PayOpenInvoice, SaveSettled, FindBySubscription,
     OnSubscriptionDeleted, OnPlanPaymentFailed, OnPlanPaymentSucceeded, ClaimExpiredTrial, ClaimPastDue
  <2>8. UNCHANGED job \/ \E g \in Handlers : HandlerStep(g) \/ Request(g)
    BY <1>1 DEF Next, vars, Renewal, StripeCancels, Approve, KhsSuspends, LockExpires, TrialEnds, GraceEnds
  <2> QED BY <2>2, <2>3, <2>4, <2>5, <2>6, <2>7, <2>8
\* It is cancelled now.
<1>3. ASSUME row.status # "canceled" PROVE \E h \in Handlers : TakingDown(h)'
  <2>0. row \in Row
    BY DEF Typed, TypeOK
  <2>1. PICK h \in Handlers : \/ OnSubscriptionDeleted(h) /\ Goto(h, "suspend")
                              \/ ClaimExpiredTrial(h) /\ Goto(h, "suspend")
                              \/ ClaimPastDue(h) /\ Goto(h, "cancel")
    <3>1. CASE UNCHANGED row
      BY <1>3, <3>1
    <3>2. ASSUME NEW h \in Handlers, CreateBusiness(h) PROVE row'.status # "canceled"
      BY <1>3, <3>2 DEF CreateBusiness, SignupRow, NoRow
    <3>3. ASSUME NEW h \in Handlers, SavePlan(h) \/ SaveSettled(h) \/ OnPlanPaymentFailed(h) \/ OnPlanPaymentSucceeded(h) PROVE row'.status # "canceled"
      BY <1>3, <2>0, <3>3 DEF SavePlan, SaveSettled, OnPlanPaymentFailed, OnPlanPaymentSucceeded, Row
    <3>4. Approve \/ TrialEnds \/ GraceEnds => row'.status # "canceled"
      BY <1>3, <2>0 DEF Approve, TrialEnds, GraceEnds, Row
    <3>5. \/ UNCHANGED row
          \/ \E h \in Handlers : CreateBusiness(h)
          \/ \E h \in Handlers : SavePlan(h) \/ SaveSettled(h) \/ OnPlanPaymentFailed(h) \/ OnPlanPaymentSucceeded(h)
          \/ Approve \/ TrialEnds \/ GraceEnds
          \/ \E h \in Handlers : OnSubscriptionDeleted(h) \/ ClaimExpiredTrial(h) \/ ClaimPastDue(h)
      BY <1>1 DEF Next, vars, outside, ours, HandlerStep, Request, BeginCharge, BeginCard, BeginSetup, BeginPlan, BeginWebhook, BeginSweep,
         Renewal, StripeCancels, KhsSuspends, LockExpires,
         ListSubscriptions, ChargeFirstMonth, LookForBusiness, ResolveSignup, WithBusinessLock, TakeLock, ReleaseLock,
         ReadForPlan, CreatePlanSubscription, ReadForCard, PayOpenInvoice, FindBySubscription, SuspendForBilling, CancelInStripe
    <3>6. ASSUME NEW h \in Handlers, OnSubscriptionDeleted(h) \/ ClaimExpiredTrial(h) \/ ClaimPastDue(h), ~UNCHANGED row
          PROVE  \/ OnSubscriptionDeleted(h) /\ Goto(h, "suspend")
                 \/ ClaimExpiredTrial(h) /\ Goto(h, "suspend")
                 \/ ClaimPastDue(h) /\ Goto(h, "cancel")
      BY <3>6 DEF OnSubscriptionDeleted, ClaimExpiredTrial, ClaimPastDue
    <3> QED BY <3>1, <3>2, <3>3, <3>4, <3>5, <3>6
  <2>2. (job[h] \in WebhookJob /\ Goto(h, "suspend")) \/ (job[h] \in SweepJob /\ (Goto(h, "suspend") \/ Goto(h, "cancel")))
    BY <2>1, JobAt DEF OnSubscriptionDeleted, ClaimExpiredTrial, ClaimPastDue
  <2> QED BY <2>2, Moving DEF TakingDown
\* A cancelled plan's storefront does not go live.
<1>4. ASSUME row.status = "canceled", store # "approved" PROVE FALSE
  <2>1. \/ Approve \/ \E h \in Handlers : SavePlan(h)
    BY <1>1, <1>4 DEF Next, vars, outside, ours, HandlerStep, Request, BeginCharge, BeginCard, BeginSetup, BeginPlan, BeginWebhook, BeginSweep,
     Renewal, StripeCancels, KhsSuspends, LockExpires, TrialEnds, GraceEnds,
     ListSubscriptions, ChargeFirstMonth, LookForBusiness, ResolveSignup, CreateBusiness, WithBusinessLock, TakeLock, ReleaseLock,
     ReadForPlan, CreatePlanSubscription, ReadForCard, PayOpenInvoice, SaveSettled, FindBySubscription,
     OnSubscriptionDeleted, OnPlanPaymentFailed, OnPlanPaymentSucceeded, SuspendForBilling, ClaimExpiredTrial, ClaimPastDue, CancelInStripe
  <2>2. row \in Row
    BY DEF Typed, TypeOK
  <2>3. \A h \in Handlers : SavePlan(h) => row'.status # "canceled"
    BY <2>2 DEF SavePlan, Row
  <2> QED BY <1>4, <2>1, <2>3 DEF Approve
<1> QED BY <1>2, <1>3, <1>4

\* Without a crash a cancelled plan's storefront is taken down: whoever cancels
\* the plan is on the way to suspend it, however requests, webhooks and sweeps
\* interleave.
THEOREM CancelledPlansTakenDown == Spec => []CancelledIsTakenDown
<1>1. Init => Typed /\ Started /\ CancelledIsTakenDown
  BY TypedInit DEF Init, CancelledIsTakenDown, NoRow
<1>2. Typed /\ Started /\ CancelledIsTakenDown /\ [Next]_vars => Typed' /\ Started' /\ CancelledIsTakenDown'
  BY TypedStep, TakingDownStep
<1> QED BY <1>1, <1>2, PTL DEF Spec

\* billingLifecycle.ts:75: a cancelled plan starts again by the merchant's own
\* request only, never by a webhook, the sweep or KHS.
THEOREM CancelledStaysToOthers == Spec => RevivedByMerchantOnly
<1>1. Typed /\ Started /\ [Next]_vars =>
        [row.status = "canceled" /\ row'.status # "canceled" =>
           \E h \in Handlers : (At(h, "plan", "save") \/ At(h, "card", "save")) /\ job'[h] # job[h]]_vars
  <2> SUFFICES ASSUME Typed, Started, [Next]_vars, row.status = "canceled", row'.status # "canceled"
               PROVE  \E h \in Handlers : (At(h, "plan", "save") \/ At(h, "card", "save")) /\ job'[h] # job[h]
    OBVIOUS
  <2>1. row \in Row
    BY DEF Typed, TypeOK
  <2>2. \A h \in Handlers : ~CreateBusiness(h) /\ ~OnPlanPaymentFailed(h) /\ ~OnPlanPaymentSucceeded(h)
    BY DEF Started, NoRow, CreateBusiness, OnPlanPaymentFailed, OnPlanPaymentSucceeded
  <2>3. \A h \in Handlers : ~OnSubscriptionDeleted(h) /\ ~ClaimExpiredTrial(h) /\ ~ClaimPastDue(h)
    BY <2>1 DEF OnSubscriptionDeleted, ClaimExpiredTrial, ClaimPastDue
  <2>4. ~Approve /\ ~TrialEnds /\ ~GraceEnds
    BY <2>1 DEF Approve, TrialEnds, GraceEnds, Row
  <2>5. PICK h \in Handlers : SavePlan(h) \/ SaveSettled(h)
    BY <2>2, <2>3, <2>4 DEF Next, vars, outside, ours, HandlerStep, Request, BeginCharge, BeginCard, BeginSetup, BeginPlan, BeginWebhook, BeginSweep,
       Renewal, StripeCancels, KhsSuspends, LockExpires, Crash, PlanNotSaved,
       ListSubscriptions, ChargeFirstMonth, LookForBusiness, ResolveSignup, WithBusinessLock, TakeLock, ReleaseLock,
       ReadForPlan, CreatePlanSubscription, ReadForCard, PayOpenInvoice, FindBySubscription, SuspendForBilling, CancelInStripe
  <2>6. (job[h] \in PlanJob \/ job[h] \in CardJob) /\ job[h].pc = "save" /\ Goto(h, "unlock")
    BY <2>5, JobAt DEF SavePlan, SaveSettled, At
  <2>7. job'[h].pc = "unlock"
    BY <2>6, Moving
  <2> QED BY <2>5, <2>6, <2>7 DEF SavePlan, SaveSettled
<1> QED BY <1>1, TypedInit, TypedStep, PTL DEF Spec, RevivedByMerchantOnly

-----------------------------------------------------------------------------
(* Bookings' money: what rounding does, and what a quote adds up to. *)

LEMMA RoundDivNat ==
  ASSUME NEW n \in Nat, NEW d \in Nat, d > 0
  PROVE  RoundDiv(n, d) \in Nat
BY DEF RoundDiv

LEMMA RoundDivHalf ==
  ASSUME NEW n \in Nat
  PROVE  RoundDiv(n, 2) \in 0..n
BY DEF RoundDiv

\* A rounded share of an amount, rate in 0..whole, is a part of the amount.
LEMMA RoundDivShare ==
  ASSUME NEW n \in Nat, NEW a \in Nat, NEW s \in Nat, s > 0, a <= s
  PROVE  RoundDiv(n * a, s) \in 0..n
<1> DEFINE m == n * a
           k == n * s
           q == RoundDiv(m, s)
<1>1. m \in Nat /\ k \in Nat /\ m <= k
  <2>1. s - a \in Nat
    OBVIOUS
  <2>2. n * (s - a) \in Nat /\ n * (s - a) = k - m
    BY <2>1
  <2> QED BY <2>2
<1>2. q \in Nat
  BY <1>1, RoundDivNat
<1>3. q * (2 * s) <= 2 * m + s
  <2> HIDE DEF m
  <2>1. \A x \in Nat, y \in Nat : y > 0 => (x \div y) * y <= x
    OBVIOUS
  <2>2. 2 * m + s \in Nat /\ 2 * s \in Nat /\ 2 * s > 0
    BY <1>1
  <2> QED BY <2>1, <2>2 DEF RoundDiv
<1>4. q <= n
  <2> HIDE DEF m, q
  <2> SUFFICES ASSUME q >= n + 1 PROVE FALSE
    BY <1>2
  <2>1. q - (n + 1) \in Nat
    BY <1>2
  <2>2. (q - (n + 1)) * (2 * s) >= 0
    BY <2>1
  <2>3. (q - (n + 1)) * (2 * s) = q * (2 * s) - (2 * k + 2 * s)
    BY <1>2
  <2>4. q * (2 * s) >= 2 * k + 2 * s
    BY <2>2, <2>3, <1>1, <1>2
  <2> QED BY <2>4, <1>1, <1>3, <1>2
<1> QED BY <1>2, <1>4

LEMMA SettingsTyped ==
  ASSUME stored \in [DOMAIN Defaults -> Int]
  PROVE  /\ Settings.commissionRate \in Nat /\ Settings.acquisitionRate \in Nat
         /\ Settings.passthroughRate \in Nat /\ Settings.passthroughFixed \in Nat
         /\ Settings.earlyFee \in Nat /\ Settings.lateShare \in Nat /\ Settings.discountRate \in Nat
         /\ Settings.lateShare <= 10000 /\ Settings.discountRate <= 10000
         /\ CommissionRate \in Nat
<1> DEFINE Names == {"commissionRate", "acquisitionRate", "passthroughRate", "passthroughFixed", "earlyFee", "lateShare", "discountRate"}
<1>1. DOMAIN Defaults = Names
  BY DEF Defaults
<1>2. \A s \in Names : Defaults[s] \in Nat /\ stored[s] \in Int
  BY <1>1 DEF Defaults
<1>3. \A s \in Names : NumberOr(stored[s], Defaults[s]) \in Nat
  <2> HIDE DEF Names
  <2> QED BY <1>2 DEF NumberOr
<1>4. \A s \in Names :
        Settings[s] = IF s \in {"lateShare", "discountRate"} THEN Least(10000, NumberOr(stored[s], Defaults[s]))
                      ELSE NumberOr(stored[s], Defaults[s])
  <2> HIDE DEF Names
  <2> QED BY <1>1 DEF Settings
<1>5. \A s \in Names : Settings[s] \in Nat
  <2> HIDE DEF Names
  <2> QED BY <1>3, <1>4 DEF Least
<1>6. \A s \in {"lateShare", "discountRate"} : Settings[s] <= 10000
  <2> SUFFICES ASSUME NEW s \in {"lateShare", "discountRate"} PROVE Settings[s] <= 10000
    OBVIOUS
  <2>1. s \in Names
    OBVIOUS
  <2>2. PICK v \in Nat : v = NumberOr(stored[s], Defaults[s])
    BY <2>1, <1>3
  <2>3. Settings[s] = Least(10000, v)
    BY <2>1, <2>2, <1>4
  <2>4. Least(10000, v) <= 10000
    BY DEF Least
  <2> QED BY <2>3, <2>4
<1>7. Settings["lateShare"] <= 10000 /\ Settings["discountRate"] <= 10000
  BY <1>6
<1> QED BY <1>5, <1>7 DEF CommissionRate

Amounts == [gift : Nat, discount : Nat, base : Nat, fee : Nat, balance : Nat, commission : Nat, acquisition : Nat]

LEMMA NatProduct ==
  ASSUME NEW x \in Nat, NEW y \in Nat
  PROVE  x * y \in Nat
OBVIOUS

LEMMA FeesTyped ==
  ASSUME NEW o \in Orders, stored \in [DOMAIN Defaults -> Int]
  PROVE  BookingFees(o).commission \in Nat /\ BookingFees(o).acquisition \in Nat
<1>1. Price[o] \in Nat
  BY MoneyAssumptions
<1>2. \A x \in Nat, y \in Nat : x * y \in Nat
  OBVIOUS
<1>3. Price[o] * CommissionRate \in Nat /\ Price[o] * Settings.acquisitionRate \in Nat
  BY <1>1, <1>2, SettingsTyped
<1>4. RoundDiv(Price[o] * CommissionRate, 10000) \in Nat /\ RoundDiv(Price[o] * Settings.acquisitionRate, 10000) \in Nat
  BY <1>3, RoundDivNat
<1> QED BY <1>4 DEF BookingFees

\* A quote divides the price: the gift card's part, the discount, what the
\* card is charged and what is left for the day.
LEMMA QuoteAddsUp ==
  ASSUME NEW o \in Orders, NEW deposit \in BOOLEAN, NEW withGift \in BOOLEAN,
         stored \in [DOMAIN Defaults -> Int], gift \in Nat
  PROVE  LET q == QuotePayment(o, deposit, withGift)
         IN q \in Amounts /\ q.gift + q.discount + q.base + q.balance = Price[o]
<1> DEFINE giftPart == IF deposit \/ ~withGift THEN 0 ELSE Least(gift, Price[o])
           before == IF deposit THEN RoundDiv(Price[o], 2) ELSE Price[o] - giftPart
           firstOff == IF ~withGift /\ IsFirstBooking(o) THEN FirstBookingDiscount(o) ELSE 0
           discount == Least(firstOff, before)
           base == before - discount
           balance == IF deposit THEN Price[o] - before ELSE 0
<1>1. Price[o] \in Nat
  BY MoneyAssumptions
<1>2. giftPart \in 0..Price[o] /\ (deposit => giftPart = 0)
  BY <1>1 DEF Least
<1>3. before \in Nat /\ balance \in Nat /\ giftPart + before + balance = Price[o]
  BY <1>1, <1>2, RoundDivHalf
<1>4. firstOff \in Nat
  <2>1. \A x \in Nat, y \in Nat : x * y \in Nat
    OBVIOUS
  <2>2. Settings.discountRate \in Nat
    BY SettingsTyped
  <2>3. FirstBookingDiscount(o) \in Nat
    BY <1>1, <2>1, <2>2, RoundDivNat DEF FirstBookingDiscount
  <2> QED BY <2>3
<1>5. discount \in Nat /\ base \in Nat /\ discount + base = before
  <2> HIDE DEF firstOff, before
  <2> QED BY <1>3, <1>4 DEF Least
<1> HIDE DEF giftPart, before, firstOff, discount, base, balance
<1>6. ProcessingFee(base) \in Nat
  <2>1. \A x \in Nat, y \in Nat : x * y \in Nat
    OBVIOUS
  <2>3. Settings.passthroughRate \in Nat /\ Settings.passthroughFixed \in Nat
    BY SettingsTyped
  <2>4. base * Settings.passthroughRate \in Nat /\ Settings.passthroughFixed * 10000 \in Nat
    BY <1>5, NatProduct, <2>3
  <2>2. base * Settings.passthroughRate + Settings.passthroughFixed * 10000 \in Nat
    BY <2>4
  <2> QED BY <2>2, RoundDivNat DEF ProcessingFee
<1>7. QuotePayment(o, deposit, withGift) =
        [gift |-> giftPart, discount |-> discount, base |-> base, fee |-> ProcessingFee(base), balance |-> balance,
         commission |-> BookingFees(o).commission, acquisition |-> BookingFees(o).acquisition]
  BY DEF QuotePayment, giftPart, before, firstOff, discount, base, balance
<1>8. giftPart \in Nat
  BY <1>1, <1>2
<1>9. giftPart + discount + base + balance = Price[o]
  BY <1>1, <1>3, <1>5, <1>8
<1> QED BY <1>3, <1>5, <1>6, <1>7, <1>8, <1>9, FeesTyped DEF Amounts

-----------------------------------------------------------------------------
(* Where each order's money is. *)

Stages == {"unpaid", "quoted", "paid", "finished", "cancelledEarly", "cancelledLate"}
Settled(o) == order[o] \notin {"unpaid", "quoted"}

MoneyTyped ==
  /\ stored \in [DOMAIN Defaults -> Int]
  /\ order \in [Orders -> Stages]
  /\ quote \in [Orders -> Amounts]
  /\ gift \in Nat
  /\ salon \in [Orders -> Int] /\ back \in [Orders -> Int]

\* A settled order whose quote has the acquisition fee is the one that claimed it.
FeeClaimed == \A o \in Orders : Settled(o) /\ quote[o].acquisition > 0 => claimed = {o}

\* One order: its price is divided; nobody has anything of a card payment
\* until the booking is over; then the salon has its due, or the three share.
Fits(stage, q, price, s, b) ==
  /\ q.base > 0 => q.gift + q.discount + q.base + q.balance = price
  /\ stage \in {"unpaid", "quoted"} \/ (stage = "paid" /\ q.base > 0) => s = 0 /\ b = 0
  /\ stage = "finished" /\ q.base > 0 => s = price - q.gift - q.balance - q.commission - q.acquisition
  /\ stage \in {"cancelledEarly", "cancelledLate"} /\ q.base > 0 =>
       b >= 0 /\ s >= 0 /\ q.base + q.fee - b - s >= q.fee

OrdersFit == \A o \in Orders : Fits(order[o], quote[o], Price[o], salon[o], back[o])

MoneyInv == MoneyTyped /\ FeeClaimed /\ OrdersFit

OtherOrdersSame(o) ==
  \A p \in Orders \ {o} : order'[p] = order[p] /\ quote'[p] = quote[p] /\ salon'[p] = salon[p] /\ back'[p] = back[p]

LEMMA OneOrderMoves ==
  ASSUME OrdersFit, NEW o \in Orders, OtherOrdersSame(o), Fits(order'[o], quote'[o], Price[o], salon'[o], back'[o])
  PROVE  OrdersFit'
<1> SUFFICES ASSUME NEW p \in Orders PROVE Fits(order'[p], quote'[p], Price[p], salon'[p], back'[p])
  BY DEF OrdersFit
<1>1. CASE p = o
  BY <1>1
<1>2. CASE p # o
  <2>1. Fits(order[p], quote[p], Price[p], salon[p], back[p])
    BY DEF OrdersFit
  <2>2. order'[p] = order[p] /\ quote'[p] = quote[p] /\ salon'[p] = salon[p] /\ back'[p] = back[p]
    BY <1>2 DEF OtherOrdersSame
  <2> QED BY <2>1, <2>2
<1> QED BY <1>1, <1>2

LEMMA StartCardPaymentFits ==
  ASSUME MoneyInv, NEW o \in Orders, StartCardPayment(o)
  PROVE  MoneyInv'
<1>1. PICK deposit \in BOOLEAN, withGift \in BOOLEAN : quote' = [quote EXCEPT ![o] = QuotePayment(o, deposit, withGift)]
  BY DEF StartCardPayment
<1>2. PICK q \in Amounts : q = QuotePayment(o, deposit, withGift) /\ q.gift + q.discount + q.base + q.balance = Price[o]
  BY QuoteAddsUp DEF MoneyInv, MoneyTyped
<1>3. /\ order' = [order EXCEPT ![o] = "quoted"] /\ quote' = [quote EXCEPT ![o] = q]
      /\ UNCHANGED <<stored, founding, gift, claimed, salon, back>> /\ order[o] \in {"unpaid", "quoted"}
  BY <1>1, <1>2 DEF StartCardPayment, Payable
<1>4. MoneyTyped'
  BY <1>3 DEF MoneyInv, MoneyTyped, Stages
<1>5. order'[o] = "quoted" /\ quote'[o] = q /\ OtherOrdersSame(o) /\ salon'[o] = salon[o] /\ back'[o] = back[o]
  BY <1>3 DEF MoneyInv, MoneyTyped, OtherOrdersSame
<1>6. FeeClaimed'
  BY <1>3, <1>5 DEF MoneyInv, FeeClaimed, Settled, OtherOrdersSame
<1>7. salon[o] = 0 /\ back[o] = 0
  BY <1>3 DEF MoneyInv, OrdersFit, Fits
<1>8. Fits(order'[o], quote'[o], Price[o], salon'[o], back'[o])
  BY <1>2, <1>5, <1>7 DEF Fits
<1>9. OrdersFit'
  BY <1>5, <1>8, OneOrderMoves DEF MoneyInv
<1> QED BY <1>4, <1>6, <1>9 DEF MoneyInv

LEMMA SettleFits ==
  ASSUME MoneyInv, NEW o \in Orders, Settle(o)
  PROVE  MoneyInv'
<1>1. PICK q \in Amounts : q = quote[o]
  BY DEF MoneyInv, MoneyTyped
<1>2. PICK r \in Amounts : /\ quote' = [quote EXCEPT ![o] = r]
                           /\ r.gift = q.gift /\ r.discount = q.discount /\ r.base = q.base /\ r.balance = q.balance
                           /\ r.acquisition = IF q.acquisition > 0 /\ claimed # {} THEN 0 ELSE q.acquisition
  <2>1. CASE q.acquisition > 0 /\ claimed # {}
    <3>1. quote' = [quote EXCEPT ![o].acquisition = 0]
      BY <1>1, <2>1 DEF Settle
    <3>2. [q EXCEPT !.acquisition = 0] \in Amounts
      BY DEF Amounts
    <3>3. quote' = [quote EXCEPT ![o] = [q EXCEPT !.acquisition = 0]]
      BY <1>1, <3>1
    <3>4. /\ [q EXCEPT !.acquisition = 0].gift = q.gift /\ [q EXCEPT !.acquisition = 0].discount = q.discount
          /\ [q EXCEPT !.acquisition = 0].base = q.base /\ [q EXCEPT !.acquisition = 0].balance = q.balance
          /\ [q EXCEPT !.acquisition = 0].acquisition = 0
      BY DEF Amounts
    <3> QED BY <2>1, <3>2, <3>3, <3>4
  <2>2. CASE ~(q.acquisition > 0 /\ claimed # {})
    <3>1. quote' = [quote EXCEPT ![o] = q]
      BY <1>1, <2>2 DEF Settle, MoneyInv, MoneyTyped
    <3> QED BY <2>2, <3>1
  <2> QED BY <2>1, <2>2
<1>3. /\ order' = [order EXCEPT ![o] = "paid"] /\ order[o] = "quoted"
      /\ gift' = gift - Least(gift, q.gift)
      /\ claimed' = IF q.acquisition > 0 /\ claimed = {} THEN {o} ELSE claimed
      /\ UNCHANGED <<stored, founding, salon, back>>
  BY <1>1 DEF Settle
<1>4. gift' \in Nat
  <2>1. gift \in Nat /\ q.gift \in Nat
    BY DEF MoneyInv, MoneyTyped, Amounts
  <2> QED BY <2>1, <1>3 DEF Least
<1>5. MoneyTyped'
  BY <1>2, <1>3, <1>4 DEF MoneyInv, MoneyTyped, Stages
<1>6. order'[o] = "paid" /\ quote'[o] = r /\ OtherOrdersSame(o) /\ salon'[o] = salon[o] /\ back'[o] = back[o]
  BY <1>2, <1>3 DEF MoneyInv, MoneyTyped, OtherOrdersSame
<1>7. FeeClaimed'
  <2> SUFFICES ASSUME NEW p \in Orders, Settled(p)', quote'[p].acquisition > 0 PROVE claimed' = {p}
    BY DEF FeeClaimed
  <2>1. CASE p = o
    BY <2>1, <1>2, <1>3, <1>6
  <2>2. CASE p # o
    <3>1. claimed = {p}
      BY <2>2, <1>6 DEF MoneyInv, FeeClaimed, Settled, OtherOrdersSame
    <3> QED BY <3>1, <1>3
  <2> QED BY <2>1, <2>2
<1>8. Fits(order[o], quote[o], Price[o], salon[o], back[o])
  BY DEF MoneyInv, OrdersFit
<1>9. Fits(order'[o], quote'[o], Price[o], salon'[o], back'[o])
  BY <1>1, <1>2, <1>3, <1>6, <1>8 DEF Fits
<1>10. OrdersFit'
  BY <1>6, <1>9, OneOrderMoves DEF MoneyInv
<1> QED BY <1>5, <1>7, <1>10 DEF MoneyInv

LEMMA PayWithGiftCardFits ==
  ASSUME MoneyInv, NEW o \in Orders, PayWithGiftCard(o)
  PROVE  MoneyInv'
<1>1. PICK c \in Nat, a \in Nat : c = BookingFees(o).commission /\ a = BookingFees(o).acquisition
  BY FeesTyped DEF MoneyInv, MoneyTyped
<1>2. Price[o] \in Nat
  BY MoneyAssumptions
<1> DEFINE r == [NoQuote EXCEPT !.gift = Price[o], !.commission = c, !.acquisition = a]
<1>3. r = [gift |-> Price[o], discount |-> 0, base |-> 0, fee |-> 0, balance |-> 0, commission |-> c, acquisition |-> a]
  <2>1. PICK r1 : r1 = [NoQuote EXCEPT !.gift = Price[o]]
    OBVIOUS
  <2>2. r1 = [gift |-> Price[o], discount |-> 0, base |-> 0, fee |-> 0, balance |-> 0, commission |-> 0, acquisition |-> 0]
    BY <2>1 DEF NoQuote
  <2>3. PICK r2 : r2 = [r1 EXCEPT !.commission = c]
    OBVIOUS
  <2>4. r2 = [gift |-> Price[o], discount |-> 0, base |-> 0, fee |-> 0, balance |-> 0, commission |-> c, acquisition |-> 0]
    BY <2>2, <2>3
  <2>5. r = [r2 EXCEPT !.acquisition = a]
    BY <2>1, <2>3 DEF r
  <2> QED BY <2>4, <2>5
<1> HIDE DEF r
<1>4. r \in Amounts /\ r.base = 0 /\ r.acquisition = a
  BY <1>2, <1>3 DEF Amounts
<1>5. /\ order' = [order EXCEPT ![o] = "paid"] /\ quote' = [quote EXCEPT ![o] = r]
      /\ salon' = [salon EXCEPT ![o] = salon[o] - a - c] /\ gift' = gift - Price[o] /\ gift >= Price[o]
      /\ claimed' = IF a > 0 THEN {o} ELSE claimed
      /\ order[o] \in {"unpaid", "quoted"}
      /\ UNCHANGED <<stored, founding, back>>
  BY <1>1 DEF PayWithGiftCard, Payable, r
<1>6. a > 0 => claimed = {}
  BY <1>1 DEF BookingFees
<1>7. MoneyTyped'
  <2>1. gift' \in Nat /\ salon[o] - a - c \in Int
    BY <1>2, <1>5 DEF MoneyInv, MoneyTyped
  <2> QED BY <2>1, <1>4, <1>5 DEF MoneyInv, MoneyTyped, Stages
<1>8. order'[o] = "paid" /\ quote'[o] = r /\ OtherOrdersSame(o)
  BY <1>5 DEF MoneyInv, MoneyTyped, OtherOrdersSame
<1>9. FeeClaimed'
  <2> SUFFICES ASSUME NEW p \in Orders, Settled(p)', quote'[p].acquisition > 0 PROVE claimed' = {p}
    BY DEF FeeClaimed
  <2>1. CASE p = o
    BY <2>1, <1>4, <1>5, <1>8
  <2>2. CASE p # o
    <3>1. claimed = {p}
      BY <2>2, <1>8 DEF MoneyInv, FeeClaimed, Settled, OtherOrdersSame
    <3> QED BY <3>1, <1>5, <1>6
  <2> QED BY <2>1, <2>2
<1>10. Fits(order'[o], quote'[o], Price[o], salon'[o], back'[o])
  BY <1>4, <1>8 DEF Fits
<1>11. OrdersFit'
  BY <1>8, <1>10, OneOrderMoves DEF MoneyInv
<1> QED BY <1>7, <1>9, <1>11 DEF MoneyInv

LEMMA PayWithSessionFits ==
  ASSUME MoneyInv, NEW o \in Orders, PayWithSession(o)
  PROVE  MoneyInv'
<1>1. PICK c \in Nat : c = RoundDiv(SessionPrice * CommissionRate, 10000)
  <2>1. SessionPrice * CommissionRate \in Nat
    BY NatProduct, SettingsTyped, MoneyAssumptions DEF MoneyInv, MoneyTyped
  <2> QED BY <2>1, RoundDivNat
<1> DEFINE r == [NoQuote EXCEPT !.commission = c]
<1>2. r = [gift |-> 0, discount |-> 0, base |-> 0, fee |-> 0, balance |-> 0, commission |-> c, acquisition |-> 0]
  BY DEF NoQuote
<1>3. r \in Amounts /\ r.base = 0 /\ r.acquisition = 0
  BY <1>2 DEF Amounts
<1>4. /\ order' = [order EXCEPT ![o] = "paid"] /\ quote' = [quote EXCEPT ![o] = r]
      /\ salon' = [salon EXCEPT ![o] = salon[o] + (SessionPrice - c)]
      /\ UNCHANGED <<stored, founding, gift, claimed, back>>
  BY <1>1 DEF PayWithSession
<1> HIDE DEF r
<1>5. MoneyTyped'
  <2>1. salon[o] + (SessionPrice - c) \in Int
    BY MoneyAssumptions DEF MoneyInv, MoneyTyped
  <2> QED BY <2>1, <1>3, <1>4 DEF MoneyInv, MoneyTyped, Stages
<1>6. order'[o] = "paid" /\ quote'[o] = r /\ OtherOrdersSame(o)
  BY <1>4 DEF MoneyInv, MoneyTyped, OtherOrdersSame
<1>7. FeeClaimed'
  BY <1>3, <1>4, <1>6 DEF MoneyInv, FeeClaimed, Settled, OtherOrdersSame
<1>8. Fits(order'[o], quote'[o], Price[o], salon'[o], back'[o])
  BY <1>3, <1>6 DEF Fits
<1>9. OrdersFit'
  BY <1>6, <1>8, OneOrderMoves DEF MoneyInv
<1> QED BY <1>5, <1>7, <1>9 DEF MoneyInv

\* What a finished booking's wallet entries come to: the net, also when it is
\* a shortfall charged in two parts.
LEMMA ReleasePaysTheNet ==
  ASSUME MoneyTyped, NEW o \in Orders, ReleaseHeldPayments(o), quote[o].base > 0, salon[o] = 0
  PROVE  salon' = [salon EXCEPT ![o] = quote[o].base + quote[o].discount - quote[o].acquisition - quote[o].commission]
<1>1. PICK q \in Amounts : q = quote[o]
  BY DEF MoneyTyped
<1> DEFINE net == q.base + q.discount - q.acquisition - q.commission
           share == RoundDiv(-net * q.acquisition, q.acquisition + q.commission)
           charged == (IF share > 0 THEN share ELSE 0) + (IF -net - share > 0 THEN -net - share ELSE 0)
<1>2. q.base \in Nat /\ q.discount \in Nat /\ q.acquisition \in Nat /\ q.commission \in Nat /\ q.base > 0
  BY <1>1 DEF Amounts
<1>3. net \in Int
  BY <1>2
<1>4. salon' = [salon EXCEPT ![o] = IF net > 0 THEN salon[o] + net ELSE IF net < 0 THEN salon[o] - charged ELSE salon[o]]
  BY <1>1 DEF ReleaseHeldPayments
<1>5. net < 0 => charged = -net
  <2> SUFFICES ASSUME net < 0 PROVE charged = -net
    OBVIOUS
  <2>1. -net \in Nat /\ q.acquisition + q.commission \in Nat /\ q.acquisition + q.commission > 0
        /\ q.acquisition <= q.acquisition + q.commission
    BY <1>2
  <2>2. share \in 0..(-net)
    <3>1. PICK m \in Nat : m = -net
      BY <2>1
    <3>2. PICK t \in Nat : t = q.acquisition + q.commission /\ t > 0 /\ q.acquisition <= t
      BY <2>1
    <3>3. RoundDiv(m * q.acquisition, t) \in 0..m
      BY <1>2, <3>2, RoundDivShare
    <3> HIDE DEF net
    <3> QED BY <1>2, <1>3, <3>1, <3>2, <3>3
  <2> HIDE DEF net, share
  <2> QED BY <1>3, <2>2
<1> HIDE DEF net, charged
<1>6. (IF net > 0 THEN salon[o] + net ELSE IF net < 0 THEN salon[o] - charged ELSE salon[o]) = net
  BY <1>3, <1>5
<1>7. salon' = [salon EXCEPT ![o] = net]
  BY <1>4, <1>6
<1> QED BY <1>1, <1>7 DEF net

\* A booking that was paid is over: only its stage, the salon's part and the
\* customer's part change.
LEMMA OverFits ==
  ASSUME MoneyInv, NEW o \in Orders, NEW stage \in {"finished", "cancelledEarly", "cancelledLate"}, NEW s \in Int, NEW b \in Int,
         order[o] = "paid", order' = [order EXCEPT ![o] = stage],
         salon' = [salon EXCEPT ![o] = s], back' = [back EXCEPT ![o] = b],
         UNCHANGED <<stored, founding, quote, gift, claimed>>,
         Fits(stage, quote[o], Price[o], s, b)
  PROVE  MoneyInv'
<1>1. MoneyTyped'
  BY DEF MoneyInv, MoneyTyped, Stages
<1>2. order'[o] = stage /\ quote'[o] = quote[o] /\ salon'[o] = s /\ back'[o] = b /\ OtherOrdersSame(o)
  BY DEF MoneyInv, MoneyTyped, OtherOrdersSame
<1>3. FeeClaimed'
  BY <1>2 DEF MoneyInv, FeeClaimed, Settled, OtherOrdersSame
<1>4. Fits(order'[o], quote'[o], Price[o], salon'[o], back'[o])
  BY <1>2
<1>5. OrdersFit'
  BY <1>2, <1>4, OneOrderMoves DEF MoneyInv
<1> QED BY <1>1, <1>3, <1>5 DEF MoneyInv

LEMMA FinishFits ==
  ASSUME MoneyInv, NEW o \in Orders, Finish(o)
  PROVE  MoneyInv'
<1>1. PICK q \in Amounts : q = quote[o]
  BY DEF MoneyInv, MoneyTyped
<1>2. q.base \in Nat /\ q.gift \in Nat /\ q.discount \in Nat /\ q.balance \in Nat /\ q.acquisition \in Nat /\ q.commission \in Nat
  BY DEF Amounts
<1>3. order[o] = "paid" /\ order' = [order EXCEPT ![o] = "finished"] /\ UNCHANGED <<stored, founding, quote, gift, claimed, back>>
  BY DEF Finish
<1>4. salon[o] \in Int /\ back[o] \in Int /\ salon = [salon EXCEPT ![o] = salon[o]] /\ back = [back EXCEPT ![o] = back[o]]
  BY DEF MoneyInv, MoneyTyped
<1>5. Fits("paid", q, Price[o], salon[o], back[o])
  BY <1>1, <1>3 DEF MoneyInv, OrdersFit
<1>6. CASE q.base > 0
  <2>1. salon[o] = 0 /\ back[o] = 0 /\ q.gift + q.discount + q.base + q.balance = Price[o]
    BY <1>5, <1>6 DEF Fits
  <2>2. ReleaseHeldPayments(o)
    BY <1>1, <1>6 DEF Finish, Held
  <2>3. salon' = [salon EXCEPT ![o] = q.base + q.discount - q.acquisition - q.commission]
    BY <1>1, <1>6, <2>1, <2>2, ReleasePaysTheNet DEF MoneyInv
  <2>4. PICK s \in Int : s = q.base + q.discount - q.acquisition - q.commission
    BY <1>2
  <2>5. s = Price[o] - q.gift - q.balance - q.commission - q.acquisition
    BY <1>2, <2>1, <2>4
  <2>6. Fits("finished", q, Price[o], s, back[o])
    BY <2>1, <2>5 DEF Fits
  <2> QED BY <1>1, <1>3, <1>4, <2>3, <2>4, <2>6, OverFits
<1>7. CASE ~(q.base > 0)
  <2>1. salon' = salon
    BY <1>1, <1>7 DEF Finish, Held
  <2>2. Fits("finished", q, Price[o], salon[o], back[o])
    BY <1>7 DEF Fits
  <2> QED BY <1>1, <1>3, <1>4, <2>1, <2>2, OverFits
<1> QED BY <1>6, <1>7

LEMMA CancelEarlyFits ==
  ASSUME MoneyInv, NEW o \in Orders, CancelEarly(o)
  PROVE  MoneyInv'
<1>1. PICK q \in Amounts : q = quote[o]
  BY DEF MoneyInv, MoneyTyped
<1>2. PICK fee \in Nat : fee = Settings.earlyFee
  BY SettingsTyped DEF MoneyInv, MoneyTyped
<1>3. q.base \in Nat /\ q.fee \in Nat
  BY DEF Amounts
<1>4. PICK kept \in 0..q.base : kept = Least(q.base, fee)
  BY <1>3 DEF Least
<1>5. /\ order[o] = "paid" /\ order' = [order EXCEPT ![o] = "cancelledEarly"] /\ UNCHANGED <<stored, founding, quote, gift, claimed, salon>>
      /\ back' = [back EXCEPT ![o] = q.base - kept]
  BY <1>1, <1>2, <1>4 DEF CancelEarly, Held
<1>6. salon[o] \in Int /\ q.base - kept \in Nat /\ salon = [salon EXCEPT ![o] = salon[o]]
  BY <1>3 DEF MoneyInv, MoneyTyped
<1>7. Fits("paid", q, Price[o], salon[o], back[o])
  BY <1>1, <1>5 DEF MoneyInv, OrdersFit
<1>8. PICK b \in Int : b = q.base - kept /\ b >= 0
  BY <1>6
<1>9. PICK s \in Int : s = salon[o]
  BY <1>6
<1>11. Fits("cancelledEarly", q, Price[o], s, b)
  BY <1>3, <1>7, <1>8, <1>9 DEF Fits
<1>10. salon' = [salon EXCEPT ![o] = s] /\ back' = [back EXCEPT ![o] = b]
  BY <1>5, <1>6, <1>8, <1>9
<1> QED BY <1>1, <1>5, <1>10, <1>11, OverFits

LEMMA CancelLateFits ==
  ASSUME MoneyInv, NEW o \in Orders, CancelLate(o)
  PROVE  MoneyInv'
<1>1. PICK q \in Amounts : q = quote[o]
  BY DEF MoneyInv, MoneyTyped
<1>2. PICK rate \in Nat : rate = Settings.lateShare /\ rate <= 10000
  BY SettingsTyped DEF MoneyInv, MoneyTyped
<1>3. q.base \in Nat /\ q.fee \in Nat
  BY DEF Amounts
<1>4. PICK share \in 0..q.base : share = RoundDiv(q.base * rate, 10000)
  BY <1>2, <1>3, RoundDivShare
<1>5. /\ order[o] = "paid" /\ order' = [order EXCEPT ![o] = "cancelledLate"] /\ UNCHANGED <<stored, founding, quote, gift, claimed, back>>
      /\ salon' = [salon EXCEPT ![o] = salon[o] + share]
  BY <1>1, <1>2, <1>4 DEF CancelLate, Held
<1>6. salon[o] \in Int /\ back[o] \in Int /\ back = [back EXCEPT ![o] = back[o]]
  BY DEF MoneyInv, MoneyTyped
<1>7. Fits("paid", q, Price[o], salon[o], back[o])
  BY <1>1, <1>5 DEF MoneyInv, OrdersFit
<1>8. PICK s \in Int : s = salon[o] + share
  BY <1>6
<1>9. Fits("cancelledLate", q, Price[o], s, back[o])
  BY <1>3, <1>6, <1>7, <1>8 DEF Fits
<1> QED BY <1>1, <1>5, <1>6, <1>8, <1>9, OverFits

LEMMA MoneyGoesOn == MoneyInv /\ [PricesNext]_pricesVars => MoneyInv'
<1> SUFFICES ASSUME MoneyInv, [PricesNext]_pricesVars PROVE MoneyInv'
  OBVIOUS
<1>1. CASE UNCHANGED moneyVars
  BY <1>1 DEF moneyVars, MoneyInv, MoneyTyped, FeeClaimed, Settled, OrdersFit
<1>2. CASE EditSettings
  BY <1>2, StoredAssumption DEF EditSettings, MoneyInv, MoneyTyped, FeeClaimed, Settled, OrdersFit
<1>3. ASSUME NEW o \in Orders,
             \/ StartCardPayment(o) \/ Settle(o) \/ PayWithGiftCard(o) \/ PayWithSession(o)
             \/ Finish(o) \/ CancelEarly(o) \/ CancelLate(o)
      PROVE  MoneyInv'
  BY <1>3, StartCardPaymentFits, SettleFits, PayWithGiftCardFits, PayWithSessionFits, FinishFits, CancelEarlyFits, CancelLateFits
<1>4. UNCHANGED moneyVars \/ MoneyNext
  BY DEF PricesNext, MoneyStep, SlotStep, NoticeStep, OfferStep, pricesVars
<1> QED BY <1>1, <1>2, <1>3, <1>4 DEF MoneyNext

LEMMA MoneyStarts == PricesInit => MoneyInv
<1> SUFFICES ASSUME PricesInit PROVE MoneyInv
  OBVIOUS
<1>1. /\ stored \in Stored /\ order = [o \in Orders |-> "unpaid"] /\ quote = [o \in Orders |-> NoQuote] /\ gift = GiftValue
      /\ salon = [o \in Orders |-> 0] /\ back = [o \in Orders |-> 0]
  BY DEF PricesInit, MoneyInit
<1>2. NoQuote \in Amounts /\ NoQuote.base = 0
  BY DEF NoQuote, Amounts
<1>3. MoneyTyped
  <2>1. stored \in [DOMAIN Defaults -> Int] /\ gift \in Nat
    BY <1>1, StoredAssumption, MoneyAssumptions
  <2>2. order \in [Orders -> Stages] /\ salon \in [Orders -> Int] /\ back \in [Orders -> Int]
    BY <1>1 DEF Stages
  <2>3. quote \in [Orders -> Amounts]
    BY <1>1, <1>2
  <2> QED BY <2>1, <2>2, <2>3 DEF MoneyTyped
<1>4. FeeClaimed
  BY <1>1 DEF FeeClaimed, Settled
<1>5. OrdersFit
  <2> SUFFICES ASSUME NEW o \in Orders PROVE Fits(order[o], quote[o], Price[o], salon[o], back[o])
    BY DEF OrdersFit
  <2>1. order[o] = "unpaid" /\ quote[o].base = 0 /\ salon[o] = 0 /\ back[o] = 0
    BY <1>1, <1>2
  <2> QED BY <2>1 DEF Fits
<1> QED BY <1>3, <1>4, <1>5 DEF MoneyInv

\* bookingSettlement.ts:16: whatever was edited since the quote, the salon is
\* paid its part of the price less the fees it was quoted with, to the cent.
THEOREM SalonPaidToTheCent == PricesSpec => []SalonGetsItsDue
<1>1. MoneyInv => SalonGetsItsDue
  <2> SUFFICES ASSUME MoneyInv, NEW o \in Orders, order[o] = "finished", quote[o].base > 0
               PROVE  /\ quote[o].gift + quote[o].discount + quote[o].base + quote[o].balance = Price[o]
                      /\ salon[o] = Price[o] - quote[o].gift - quote[o].balance - quote[o].commission - quote[o].acquisition
    BY DEF SalonGetsItsDue, ByCard
  <2>1. Fits(order[o], quote[o], Price[o], salon[o], back[o])
    BY DEF MoneyInv, OrdersFit
  <2> QED BY <2>1 DEF Fits
<1> QED BY <1>1, MoneyStarts, MoneyGoesOn, PTL DEF PricesSpec

\* ledger.ts:54: the salon pays for a customer KHS brought once, however many
\* bookings were quoted with the fee before the first was paid.
THEOREM AcquisitionClaimedOnce == PricesSpec => []AcquisitionOnce
<1>1. MoneyInv => AcquisitionOnce
  BY DEF MoneyInv, FeeClaimed, Settled, AcquisitionOnce
<1> QED BY <1>1, MoneyStarts, MoneyGoesOn, PTL DEF PricesSpec

\* cancellationMoney.ts:53: a cancelled booking's card payment is divided, and
\* KHS is never left to pay the card's processing fee.
THEOREM CancelledDivided == PricesSpec => []CancelledIsShared
<1>1. MoneyInv => CancelledIsShared
  <2> SUFFICES ASSUME MoneyInv, NEW o \in Orders, order[o] \in {"cancelledEarly", "cancelledLate"}, quote[o].base > 0
               PROVE  back[o] >= 0 /\ salon[o] >= 0 /\ Kept(o) >= quote[o].fee
    BY DEF CancelledIsShared, ByCard
  <2>1. Fits(order[o], quote[o], Price[o], salon[o], back[o])
    BY DEF MoneyInv, OrdersFit
  <2>2. PICK q \in Amounts, s \in Int, b \in Int : q = quote[o] /\ s = salon[o] /\ b = back[o]
    BY DEF MoneyInv, MoneyTyped
  <2>3. q.base \in Nat /\ q.fee \in Nat
    BY DEF Amounts
  <2> QED BY <2>1, <2>2, <2>3 DEF Fits, Kept, Charge
<1> QED BY <1>1, MoneyStarts, MoneyGoesOn, PTL DEF PricesSpec

-----------------------------------------------------------------------------
(* Start notices: the two passes find the instant, across a change of the   *)
(* zone's offset too, if the zone's clock shows that time at all.           *)

LEMMA TwoPassesFindTheStart ==
  ASSUME NEW w \in Int, NEW t \in Int, NEW z \in [before : Int, after : Int, change : Int], WallAt(z, t) = w
  PROVE  /\ InstantOfWallClock(w, z) \in Int
         /\ WallAt(z, InstantOfWallClock(w, z)) = w
<1> DEFINE first == w - Offset(z, w)
           i == w - Offset(z, first)
<1>1. z.before \in Int /\ z.after \in Int /\ z.change \in Int
  OBVIOUS
<1>2. \A x \in Int : Offset(z, x) \in Int /\ Offset(z, x) = IF x < z.change THEN z.before ELSE z.after
  BY <1>1 DEF Offset
<1>3. first \in Int /\ i \in Int
  BY <1>2
<1>4. InstantOfWallClock(w, z) = i
  <2>1. WallAt(z, w) - w = Offset(z, w)
    BY <1>2 DEF WallAt
  <2>2. WallAt(z, first) - first = Offset(z, first)
    BY <1>2, <1>3 DEF WallAt
  <2> QED BY <2>1, <2>2 DEF InstantOfWallClock
<1>5. i + Offset(z, i) = w
  <2>1. t = w - Offset(z, t)
    BY <1>2 DEF WallAt
  <2>2. first = w - (IF w < z.change THEN z.before ELSE z.after)
    BY <1>2
  <2>3. i = w - (IF first < z.change THEN z.before ELSE z.after)
    BY <1>2, <1>3
  <2>4. t = w - (IF t < z.change THEN z.before ELSE z.after)
    BY <1>2, <2>1
  <2>5. Offset(z, i) = IF i < z.change THEN z.before ELSE z.after
    BY <1>2, <1>3
  <2> HIDE DEF first, i
  <2>6. i + (IF i < z.change THEN z.before ELSE z.after) = w
    BY <1>1, <1>3, <2>2, <2>3, <2>4
  <2> QED BY <2>5, <2>6
<1> QED BY <1>3, <1>4, <1>5 DEF WallAt

\* Times at most a day apart are on the same or on neighbouring dates.
LEMMA NeighbouringDates ==
  ASSUME NEW x \in Int, NEW y \in Int, NEW d \in Nat, d > 0, x - y <= d, y - x <= d
  PROVE  x \div d \in (y \div d - 1)..(y \div d + 1)
<1> DEFINE p == x \div d
           q == y \div d
<1>1. p \in Int /\ d * p <= x /\ x < d * p + d
  OBVIOUS
<1>2. q \in Int /\ d * q <= y /\ y < d * q + d
  OBVIOUS
<1> HIDE DEF p, q
<1>3. p <= q + 1
  <2> SUFFICES ASSUME p >= q + 2 PROVE FALSE
    BY <1>1, <1>2
  <2>1. p - (q + 2) \in Nat
    BY <1>1, <1>2
  <2>2. d * (p - (q + 2)) >= 0
    BY <2>1
  <2>3. d * (p - (q + 2)) = d * p - d * q - 2 * d
    BY <1>1, <1>2
  <2>4. d * p \in Int /\ d * q \in Int
    BY <1>1, <1>2
  <2> QED BY <1>1, <1>2, <2>2, <2>3, <2>4
<1>4. q <= p + 1
  <2> SUFFICES ASSUME q >= p + 2 PROVE FALSE
    BY <1>1, <1>2
  <2>1. q - (p + 2) \in Nat
    BY <1>1, <1>2
  <2>2. d * (q - (p + 2)) >= 0
    BY <2>1
  <2>3. d * (q - (p + 2)) = d * q - d * p - 2 * d
    BY <1>1, <1>2
  <2>4. d * p \in Int /\ d * q \in Int
    BY <1>1, <1>2
  <2> QED BY <1>1, <1>2, <2>2, <2>3, <2>4
<1> QED BY <1>1, <1>2, <1>3, <1>4 DEF p, q

NoticeInv ==
  /\ clock \in Int /\ zone \in Zones /\ wall \in Walls
  /\ stamped \in BOOLEAN /\ due \in BOOLEAN /\ lost \in BOOLEAN
  /\ sent \in Nat /\ sending \in Nat
  /\ stamped /\ ~lost => sent + sending = 1
  /\ ~stamped \/ lost => sent = 0 /\ sending = 0
  /\ lost => stamped
  /\ due => stamped

\* A run of the job sees every start of the last two hours.
LEMMA RecentStartIsRead ==
  ASSUME NoticeInv, StartIsRecent
  PROVE  IsCandidate(wall) /\ JustStarted(wall)
<1>1. /\ Day \in Nat /\ Day > 0 /\ Recent \in Nat /\ wall \in Int /\ clock \in Int
      /\ zone \in [before : Int, after : Int, change : Int]
  BY NoticeAssumptions DEF NoticeInv
<1>2. PICK t \in Int : WallAt(zone, t) = wall
  BY <1>1 DEF StartIsRecent, StartInstants
<1>3. PICK i \in Int : i = InstantOfWallClock(wall, zone) /\ WallAt(zone, i) = wall
  BY <1>1, <1>2, TwoPassesFindTheStart
<1>4. PICK offset \in Int : offset = Offset(zone, i) /\ Recent - Day <= offset /\ offset <= Day /\ i + offset = wall
  BY <1>1, <1>3, OffsetAssumption DEF NoticeInv, Offset, WallAt
<1>5. i \in StartInstants
  BY <1>1, <1>3, <1>4 DEF StartInstants
<1>6. clock >= i /\ clock - i <= Recent
  BY <1>5 DEF StartIsRecent
<1>7. JustStarted(wall)
  BY <1>3, <1>6 DEF JustStarted
<1>8. wall - clock <= Day /\ clock - wall <= Day
  BY <1>1, <1>4, <1>6
<1>9. IsCandidate(wall)
  BY <1>1, <1>8, NeighbouringDates DEF IsCandidate
<1> QED BY <1>7, <1>9

LEMMA NoticesGoOn == NoticeInv /\ [PricesNext]_pricesVars => NoticeInv'
<1> SUFFICES ASSUME NoticeInv, [PricesNext]_pricesVars PROVE NoticeInv'
  OBVIOUS
<1>1. CASE UNCHANGED noticeVars
  BY <1>1 DEF noticeVars, NoticeInv
<1>2. ASSUME NEW r \in Runs, ReadCandidates(r)
      PROVE  NoticeInv'
  <2>1. /\ UNCHANGED <<clock, zone, wall, stamped, sending, sent, lost>>
        /\ due' = (due \/ (~ToAnnounce /\ status = "booked" /\ StartIsRecent))
    BY <1>2 DEF ReadCandidates
  <2>2. due' \in BOOLEAN
    BY <2>1 DEF NoticeInv
  <2>3. status = "booked" /\ StartIsRecent /\ ~stamped => ToAnnounce
    BY RecentStartIsRead DEF ToAnnounce
  <2>4. due' => stamped
    BY <2>1, <2>3, Zenon DEF NoticeInv
  <2> QED BY <2>1, <2>2, <2>4 DEF NoticeInv
<1>3. ASSUME NEW r \in Runs, ClaimNotice(r)
      PROVE  NoticeInv'
  <2>1. CASE stamped
    BY <1>3, <2>1 DEF ClaimNotice, NoticeInv
  <2>2. CASE ~stamped
    <3>1. sent = 0 /\ sending = 0 /\ ~lost
      BY <2>2, Zenon DEF NoticeInv
    <3>2. UNCHANGED <<clock, zone, wall, due, sent>> /\ stamped'
      BY <1>3, Zenon DEF ClaimNotice
    <3>3. CASE sending' = sending + 1 /\ lost' = lost
      <4>1. sent' \in Nat /\ sending' \in Nat /\ sent' + sending' = 1
        BY <3>1, <3>2, <3>3
      <4> QED BY <3>1, <3>2, <3>3, <4>1, <2>2, Zenon DEF NoticeInv
    <3>4. CASE lost' = TRUE /\ sending' = sending
      BY <3>1, <3>2, <3>4, <2>2, Zenon DEF NoticeInv
    <3> QED BY <1>3, <2>2, <3>3, <3>4, Zenon DEF ClaimNotice
  <2> QED BY <2>1, <2>2
<1>8. ASSUME NEW r \in Runs, ClaimFails(r)
      PROVE  NoticeInv'
  BY <1>8 DEF ClaimFails, NoticeInv
<1>9. CASE NoticeEnds
  <2>1. sending # 0
    BY <1>9 DEF NoticeEnds
  <2>2. stamped /\ ~lost /\ sent + sending = 1 /\ sent \in Nat /\ sending \in Nat
    BY <2>1, Zenon DEF NoticeInv
  <2>3. sent = 0 /\ sending = 1
    BY <2>1, <2>2
  <2>4. UNCHANGED <<clock, zone, wall, stamped, due>> /\ sending' = 0
    BY <1>9, <2>3 DEF NoticeEnds
  <2>5. CASE sent' = sent + 1 /\ lost' = lost
    <3>1. sent' \in Nat /\ sending' \in Nat /\ sent' + sending' = 1
      BY <2>3, <2>4, <2>5
    <3> QED BY <2>2, <2>4, <2>5, <3>1, Zenon DEF NoticeInv
  <2>6. CASE lost' = TRUE /\ sent' = sent
    <3>1. sent' = 0 /\ sent' \in Nat /\ sending' \in Nat
      BY <2>3, <2>4, <2>6
    <3> QED BY <2>2, <2>4, <2>6, <3>1, Zenon DEF NoticeInv
  <2> QED BY <1>9, <2>5, <2>6 DEF NoticeEnds
<1>4. CASE MinutePasses
  BY <1>4 DEF MinutePasses, NoticeInv
<1>5. CASE MoveAppointment
  BY <1>5 DEF MoveAppointment, NoticeInv
<1>6. CASE AppointmentOver
  BY <1>6 DEF AppointmentOver, NoticeInv
<1>7. UNCHANGED noticeVars \/ NoticeNext
  BY DEF PricesNext, MoneyStep, SlotStep, NoticeStep, OfferStep, pricesVars
<1> QED BY <1>1, <1>2, <1>3, <1>4, <1>5, <1>6, <1>7, <1>8, <1>9 DEF NoticeNext

\* serviceStarted.ts:38: the claim is one update of a row not yet stamped, so
\* overlapping runs tell the customer at most once; and no run within two hours
\* of the start, by the customer's own clock, passes it over: it was announced,
\* or its notice was lost after the stamp (a killed run, a failed insert).
THEOREM StartTold == PricesSpec => []StartToldUnlessLost
<1>1. PricesInit => NoticeInv
  <2> SUFFICES ASSUME PricesInit PROVE NoticeInv
    OBVIOUS
  <2>1. /\ clock = 0 /\ zone \in Zones /\ wall \in Walls /\ stamped = FALSE /\ due = FALSE
        /\ sent = 0 /\ sending = 0 /\ lost = FALSE
    BY DEF PricesInit, NoticeInit
  <2>2. clock \in Int /\ sent \in Nat /\ sending \in Nat
    BY <2>1
  <2> QED BY <2>1, <2>2, Zenon DEF NoticeInv
<1>2. NoticeInv => StartToldUnlessLost
  BY DEF NoticeInv, StartToldUnlessLost
<1> QED BY <1>1, <1>2, NoticesGoOn, PTL DEF PricesSpec

-----------------------------------------------------------------------------
(* Slots.  The least-number principle stands in for induction: every        *)
(* non-empty set of naturals has a least element.                           *)

LEMMA LeastOfNaturals ==
  ASSUME NEW T, T \subseteq Nat, T # {}
  PROVE  \E x \in T : \A y \in T : x <= y
<1>1. IsWellFoundedOn(OpToRel(<, Nat), Nat)
  BY NatLessThanWellFounded
<1>2. PICK x \in T : \A y \in T : ~(<<y, x>> \in OpToRel(<, Nat))
  BY <1>1, WFMin
<1>3. \A y \in T : ~(y < x)
  BY <1>2 DEF OpToRel
<1> QED BY <1>3

LEMMA MinOfNaturals ==
  ASSUME NEW T, T \subseteq Nat, T # {}
  PROVE  Min(T) \in T /\ \A y \in T : Min(T) <= y
<1>1. \E x \in T : \A y \in T : x <= y
  BY LeastOfNaturals
<1> QED BY <1>1 DEF Min

SlotInv == now \in Nat /\ source \in Sources /\ hours \in Weeks \union {NoHours}

LEMMA WindowInDay ==
  ASSUME SlotInv, NEW day \in 0..(Days - 1)
  PROVE  Window(day).open \in 0..DayLength /\ Window(day).close \in 0..DayLength
<1>1. CASE hours = NoHours
  BY <1>1, HoursAndRulesAssumption DEF Window
<1>2. CASE hours # NoHours
  <2>1. hours[day] \in [open : 0..DayLength, close : 0..DayLength]
    BY <1>2, HoursAndRulesAssumption DEF SlotInv
  <2> QED BY <1>2, <2>1 DEF Window
<1> QED BY <1>1, <1>2

LEMMA RulesAreNumbers ==
  ASSUME SlotInv
  PROVE  /\ Rules.lead \in Nat /\ Rules.advance \in Nat
         /\ SalonRules.lead = 0 /\ SalonRules.advance = 365 /\ SalonRules.cutoff = None
         /\ SalonRules.buffer = Rules.buffer /\ SalonRules.double = Rules.double
<1>1. PICK double \in BOOLEAN : double = (source.settings.double = TRUE)
  OBVIOUS
<1>2. PICK lead, advance, buffer :
        /\ lead = Or(source.policies.lead, Or(source.settings.lead, DayLength))
        /\ advance = Or(source.settings.advance, 90)
        /\ buffer = Or(source.policies.buffer, Or(source.settings.buffer, 0))
  OBVIOUS
<1>3. Rules = [lead |-> lead, buffer |-> buffer, advance |-> advance, cutoff |-> source.settings.cutoff, double |-> double]
  BY <1>1, <1>2 DEF Rules
<1>4. lead \in Nat /\ advance \in Nat
  BY <1>2, HoursAndRulesAssumption, SlotAssumptions DEF SlotInv, Or
<1>5. PICK r : r = [lead |-> lead, buffer |-> buffer, advance |-> advance, cutoff |-> source.settings.cutoff, double |-> double]
  OBVIOUS
<1>6. SalonRules = [[[r EXCEPT !.lead = 0] EXCEPT !.advance = 365] EXCEPT !.cutoff = None]
  BY <1>3, <1>5 DEF SalonRules
<1>7. PICK r1 : r1 = [r EXCEPT !.lead = 0]
  OBVIOUS
<1>8. PICK r2 : r2 = [r1 EXCEPT !.advance = 365]
  OBVIOUS
<1>9. r1 = [lead |-> 0, buffer |-> buffer, advance |-> advance, cutoff |-> source.settings.cutoff, double |-> double]
  BY <1>5, <1>7
<1>10. r2 = [lead |-> 0, buffer |-> buffer, advance |-> 365, cutoff |-> source.settings.cutoff, double |-> double]
  BY <1>8, <1>9
<1>11. SalonRules = [r2 EXCEPT !.cutoff = None]
  BY <1>6, <1>7, <1>8
<1>12. SalonRules = [lead |-> 0, buffer |-> buffer, advance |-> 365, cutoff |-> None, double |-> double]
  BY <1>10, <1>11
<1> QED BY <1>3, <1>4, <1>12

\* A time on a day, and back.
LEMMA TimeOfDay ==
  ASSUME NEW day \in Nat, NEW t \in Nat, NEW len \in Nat, t < len
  PROVE  (day * len + t) \div len = day /\ (day * len + t) % len = t
<1> DEFINE w == day * len + t
           q == w \div len
           r == w % len
<1>0. w \in Nat /\ day * len \in Nat
  OBVIOUS
<1>1. q \in Int /\ r \in 0..(len - 1) /\ w = len * q + r
  <2>1. \A x \in Nat : x \div len \in Int /\ x % len \in 0..(len - 1) /\ x = (len * (x \div len)) + (x % len)
    OBVIOUS
  <2> QED BY <1>0, <2>1
<1>2. len * q + r = len * day + t
  <2>1. len * day = day * len
    OBVIOUS
  <2> QED BY <1>1, <2>1
<1> HIDE DEF w, q, r
<1>3. len * q \in Int /\ len * day \in Int
  BY <1>1
<1>4. q < day + 1
  <2> SUFFICES ASSUME q >= day + 1 PROVE FALSE
    BY <1>1
  <2>1. q - (day + 1) \in Nat
    BY <1>1
  <2>2. len * (q - (day + 1)) >= 0
    BY <2>1
  <2>3. len * (q - (day + 1)) = len * q - len * day - len
    BY <1>1
  <2> QED BY <1>1, <1>2, <1>3, <2>2, <2>3
<1>5. q > day - 1
  <2> SUFFICES ASSUME q <= day - 1 PROVE FALSE
    BY <1>1
  <2>1. day - 1 - q \in Nat
    BY <1>1
  <2>2. len * (day - 1 - q) >= 0
    BY <2>1
  <2>3. len * (day - 1 - q) = len * day - len - len * q
    BY <1>1
  <2> QED BY <1>1, <1>2, <1>3, <2>2, <2>3
<1>6. q = day
  BY <1>1, <1>4, <1>5
<1>7. r = t
  BY <1>1, <1>2, <1>3, <1>6
<1> QED BY <1>6, <1>7 DEF w, q, r

LEMMA DateGrows ==
  ASSUME NEW x \in Nat, NEW y \in Nat, NEW len \in Nat, len > 0, x <= y
  PROVE  x \div len <= y \div len
<1> DEFINE p == x \div len
           q == y \div len
<1>1. p \in Int /\ len * p <= x
  OBVIOUS
<1>2. q \in Int /\ y < len * q + len
  OBVIOUS
<1> HIDE DEF p, q
<1> SUFFICES ASSUME p >= q + 1 PROVE FALSE
  BY <1>1, <1>2 DEF p, q
<1>3. p - (q + 1) \in Nat
  BY <1>1, <1>2
<1>4. len * (p - (q + 1)) >= 0
  BY <1>3
<1>5. len * (p - (q + 1)) = len * p - len * q - len
  BY <1>1, <1>2
<1>6. len * p \in Int /\ len * q \in Int
  BY <1>1, <1>2
<1> QED BY <1>1, <1>2, <1>4, <1>5, <1>6

\* The times the card looks at.
Found(service) ==
  LET thisDay == now \div DayLength
      lastDay == thisDay + (IF Rules.advance < DaysAhead THEN Rules.advance ELSE DaysAhead)
  IN UNION {{d * DayLength + t : t \in {t \in Starts(service, d) : EvaluateSlot(service, d, t, NoOne, FALSE) # {}}} :
              d \in thisDay..(IF lastDay < Days THEN lastDay ELSE Days - 1)}

LEMMA Today ==
  ASSUME SlotInv
  PROVE  DayLength \in Nat /\ DayLength > 0 /\ now \div DayLength \in Nat
<1>1. \A x \in Nat, y \in Nat : y > 0 => x \div y \in Nat
  OBVIOUS
<1> QED BY <1>1, SlotAssumptions DEF SlotInv

LEMMA FoundTimes ==
  ASSUME SlotInv, NEW service \in Services, NEW w \in Found(service)
  PROVE  \E d \in 0..(Days - 1), t \in 0..(DayLength - 1) :
           /\ w = d * DayLength + t /\ w \div DayLength = d /\ w % DayLength = t
           /\ d >= now \div DayLength /\ d - now \div DayLength <= DaysAhead
           /\ t \in Starts(service, d) /\ EvaluateSlot(service, d, t, NoOne, FALSE) # {}
<1> DEFINE thisDay == now \div DayLength
           lastDay == thisDay + (IF Rules.advance < DaysAhead THEN Rules.advance ELSE DaysAhead)
<1>1. DayLength \in Nat /\ DayLength > 0 /\ thisDay \in Nat /\ DaysAhead \in Nat /\ Days \in Nat /\ Rules.advance \in Nat
  BY SlotAssumptions, RulesAreNumbers, Today
<1>2. PICK d \in thisDay..(IF lastDay < Days THEN lastDay ELSE Days - 1) :
        w \in {d * DayLength + t : t \in {t \in Starts(service, d) : EvaluateSlot(service, d, t, NoOne, FALSE) # {}}}
  BY DEF Found
<1>3. PICK t \in Starts(service, d) : w = d * DayLength + t /\ EvaluateSlot(service, d, t, NoOne, FALSE) # {}
  BY <1>2
<1>4. PICK last \in Int : last = lastDay /\ last <= thisDay + DaysAhead
  BY <1>1
<1>5. d \in 0..(Days - 1) /\ d >= thisDay /\ d - thisDay <= DaysAhead
  <2>1. d \in thisDay..(IF last < Days THEN last ELSE Days - 1)
    BY <1>2, <1>4
  <2> HIDE DEF thisDay
  <2> QED BY <1>1, <1>4, <2>1
<1>6. t \in 0..(DayLength - 1)
  <2>1. Window(d).open \in 0..DayLength /\ Window(d).close \in 0..DayLength
    BY <1>5, WindowInDay
  <2>2. t \in Window(d).open..Window(d).close /\ t + Length[service] <= Window(d).close
    BY <1>3 DEF Starts
  <2>3. Length[service] \in Nat /\ Length[service] > 0
    BY SlotAssumptions
  <2>4. PICK a \in 0..DayLength, z \in 0..DayLength, n \in Nat : a = Window(d).open /\ z = Window(d).close /\ n = Length[service] /\ n > 0
    BY <2>1, <2>3
  <2> QED BY <1>1, <2>2, <2>4
<1>7. w \div DayLength = d /\ w % DayLength = t
  BY <1>1, <1>3, <1>5, <1>6, TimeOfDay
<1> QED BY <1>3, <1>5, <1>6, <1>7

\* What a customer may book, the salon may.
LEMMA SalonMayToo ==
  ASSUME SlotInv, NEW service \in Services, NEW d \in 0..(Days - 1), NEW t \in 0..(DayLength - 1),
         d - now \div DayLength <= DaysAhead, EvaluateSlot(service, d, t, NoOne, FALSE) # {}
  PROVE  EvaluateSlot(service, d, t, NoOne, TRUE) # {} /\ d * DayLength + t >= now
<1>1. /\ WithinHours(d, t, Length[service]) /\ KeepsRules(Rules, d, t, Length[service])
      /\ ~SalonBlocked(d, t, Length[service]) /\ Choice(service, d, t, NoOne) # {}
  BY DEF EvaluateSlot
<1>2. PICK lead \in Nat : lead = Rules.lead
  BY RulesAreNumbers
<1>3. PICK w \in Int : w = d * DayLength + t
  BY SlotAssumptions
<1>9. d * DayLength + t - now >= Rules.lead
  BY <1>1 DEF KeepsRules
<1>10. now \in Nat
  BY DEF SlotInv
<1>4. w - now >= lead
  BY <1>2, <1>3, <1>9, <1>10, SlotAssumptions
<1>5. w - now >= 0 /\ w >= now
  BY <1>4, <1>10
<1>6. d - now \div DayLength <= 365
  BY SlotAssumptions, HoursAndRulesAssumption, Today
<1>7. ~Rules.double => \A b \in OnDay(d) : Clear(b, t, Length[service], Rules.buffer)
  BY <1>1 DEF KeepsRules
<1>8. KeepsRules(SalonRules, d, t, Length[service])
  <2>1. /\ SalonRules.lead = 0 /\ SalonRules.advance = 365 /\ SalonRules.cutoff = None
        /\ SalonRules.buffer = Rules.buffer /\ SalonRules.double = Rules.double
    BY RulesAreNumbers
  <2>2. d * DayLength + t - now >= 0
    BY <1>3, <1>5, <1>10, SlotAssumptions
  <2>3. d * DayLength + t - now >= SalonRules.lead
    BY <2>1, <2>2
  <2>4. d - now \div DayLength <= SalonRules.advance
    BY <1>6, <2>1
  <2> QED BY <1>7, <2>1, <2>3, <2>4, Zenon DEF KeepsRules
<1> QED BY <1>1, <1>3, <1>5, <1>8 DEF EvaluateSlot

LEMMA FoundIsAcceptable ==
  ASSUME SlotInv, NEW service \in Services, hours # NoHours
  PROVE  Found(service) = Acceptable(service)
<1>1. DayLength \in Nat /\ DayLength > 0 /\ now \div DayLength \in Nat /\ DaysAhead \in Nat /\ Days \in Nat /\ Days > 0 /\ Rules.advance \in Nat /\ now \in Nat
  BY SlotAssumptions, RulesAreNumbers, Today DEF SlotInv
<1>2. ASSUME NEW w \in Found(service)
      PROVE  w \in Acceptable(service)
  <2>1. PICK d \in 0..(Days - 1), t \in 0..(DayLength - 1) :
          /\ w = d * DayLength + t /\ w \div DayLength = d /\ w % DayLength = t
          /\ d >= now \div DayLength /\ d - now \div DayLength <= DaysAhead
          /\ t \in Starts(service, d) /\ EvaluateSlot(service, d, t, NoOne, FALSE) # {}
    BY FoundTimes
  <2>2. w \in 0..(Days * DayLength - 1)
    <3>1. (Days - 1 - d) * DayLength >= 0 /\ d * DayLength >= 0 /\ d * DayLength \in Int
      BY <1>1
    <3>2. (Days - 1 - d) * DayLength = Days * DayLength - DayLength - d * DayLength
      BY <1>1
    <3>3. Days * DayLength \in Int
      BY <1>1
    <3> QED BY <1>1, <2>1, <3>1, <3>2, <3>3
  <2> QED BY <2>1, <2>2 DEF Acceptable
<1>3. ASSUME NEW w \in Acceptable(service)
      PROVE  w \in Found(service)
  <2> DEFINE d == w \div DayLength
             t == w % DayLength
  <2>1. w \in 0..(Days * DayLength - 1) /\ d - now \div DayLength <= DaysAhead /\ EvaluateSlot(service, d, t, NoOne, FALSE) # {}
    BY DEF Acceptable
  <2>2. d \in Nat /\ t \in 0..(DayLength - 1) /\ w = d * DayLength + t
    <3>1. \A x \in Nat, y \in Nat : y > 0 => x \div y \in Nat /\ x % y \in 0..(y - 1) /\ x = ((x \div y) * y) + (x % y)
      OBVIOUS
    <3>2. w \in Nat
      BY <1>1, <2>1
    <3> QED BY <1>1, <3>1, <3>2
  <2> HIDE DEF d, t
  <2>3. d <= Days - 1
    <3> SUFFICES ASSUME d >= Days PROVE FALSE
      BY <1>1, <2>2
    <3>1. (d - Days) * DayLength >= 0
      BY <1>1, <2>2
    <3>2. (d - Days) * DayLength = d * DayLength - Days * DayLength
      BY <1>1, <2>2
    <3>3. d * DayLength \in Int /\ Days * DayLength \in Int
      BY <1>1, <2>2
    <3> QED BY <1>1, <2>1, <2>2, <3>1, <3>2, <3>3
  <2>4. d \in 0..(Days - 1)
    BY <1>1, <2>2, <2>3
  <2>5. w >= now
    BY <2>1, <2>2, <2>4, SalonMayToo
  <2>6. d >= now \div DayLength
    BY <1>1, <2>1, <2>2, <2>5, DateGrows DEF d
  <2>7. WithinHours(d, t, Length[service]) /\ KeepsRules(Rules, d, t, Length[service])
    BY <2>1 DEF EvaluateSlot
  <2>8. d - now \div DayLength <= Rules.advance
    BY <2>7 DEF KeepsRules
  <2>9. t \in Starts(service, d)
    <3>1. IsOpen(d) /\ t >= Window(d).open /\ t + Length[service] <= Window(d).close
      BY <2>7 DEF WithinHours, Window
    <3>2. PICK a \in 0..DayLength, z \in 0..DayLength, n \in Nat : a = Window(d).open /\ z = Window(d).close /\ n = Length[service]
      BY <2>4, WindowInDay, SlotAssumptions
    <3>3. t \in a..z
      BY <1>1, <2>2, <3>1, <3>2
    <3> QED BY <3>1, <3>2, <3>3 DEF Starts
  <2>10. PICK thisDay \in Nat, advance \in Nat : thisDay = now \div DayLength /\ advance = Rules.advance
    BY <1>1
  <2>11. PICK last \in Int : last = thisDay + (IF advance < DaysAhead THEN advance ELSE DaysAhead)
    BY <1>1, <2>10
  <2>12. d \in thisDay..(IF last < Days THEN last ELSE Days - 1)
    BY <1>1, <2>1, <2>4, <2>6, <2>8, <2>10, <2>11
  <2>13. w \in {d * DayLength + x : x \in {x \in Starts(service, d) : EvaluateSlot(service, d, x, NoOne, FALSE) # {}}}
    BY <2>1, <2>2, <2>9
  <2> DEFINE lastDay == now \div DayLength + (IF Rules.advance < DaysAhead THEN Rules.advance ELSE DaysAhead)
  <2>14. last = lastDay
    BY <2>10, <2>11
  <2>15. d \in (now \div DayLength)..(IF lastDay < Days THEN lastDay ELSE Days - 1)
    BY <2>10, <2>12, <2>14
  <2> QED BY <2>13, <2>15, Zenon DEF Found
<1> QED BY <1>2, <1>3

LEMMA SlotsGoOn == SlotInv /\ [PricesNext]_pricesVars => SlotInv'
<1> SUFFICES ASSUME SlotInv, [PricesNext]_pricesVars PROVE SlotInv'
  OBVIOUS
<1>1. UNCHANGED slotVars \/ SlotNext
  BY DEF PricesNext, MoneyStep, SlotStep, NoticeStep, OfferStep, pricesVars
<1>2. UNCHANGED <<source, hours>> /\ now' \in {now, now + 1}
  BY <1>1 DEF SlotNext, slotVars, BookOnline, BookBySalon, Take, CancelAppointment, BlockTime, UnblockTime, ClockMoves
<1> QED BY <1>2 DEF SlotInv

\* nextFreeService.ts:32: the search card names the first time a booking would
\* be accepted, whatever the salon's rules and hours are, and the salon's own
\* list for that day offers it.
THEOREM CardShowsFirstTime == PricesSpec => []NextFreeIsEarliest
<1>1. PricesInit => SlotInv
  BY DEF PricesInit, SlotInit, SlotInv
<1>2. SlotInv => NextFreeIsEarliest
  <2> SUFFICES ASSUME SlotInv, NEW service \in Services
               PROVE  /\ hours # NoHours =>
                           NextFree(service) = (IF Acceptable(service) = {} THEN None ELSE Min(Acceptable(service)))
                      /\ NextFree(service) # None =>
                           NextFree(service) % DayLength \in AvailableTimes(service, NextFree(service) \div DayLength)
    BY DEF NextFreeIsEarliest
  <2>1. NextFree(service) = IF Found(service) = {} THEN None ELSE Min(Found(service))
    BY DEF NextFree, Found
  <2>2. hours # NoHours => NextFree(service) = (IF Acceptable(service) = {} THEN None ELSE Min(Acceptable(service)))
    BY <2>1, FoundIsAcceptable
  <2>3. ASSUME NextFree(service) # None
        PROVE  NextFree(service) % DayLength \in AvailableTimes(service, NextFree(service) \div DayLength)
    <3>1. Found(service) # {} /\ NextFree(service) = Min(Found(service))
      BY <2>1, <2>3
    <3>2. Found(service) \subseteq Nat
      <4> SUFFICES ASSUME NEW w \in Found(service) PROVE w \in Nat
        OBVIOUS
      <4>1. PICK d \in 0..(Days - 1), t \in 0..(DayLength - 1) :
              /\ w = d * DayLength + t /\ w \div DayLength = d /\ w % DayLength = t
              /\ d >= now \div DayLength /\ d - now \div DayLength <= DaysAhead
              /\ t \in Starts(service, d) /\ EvaluateSlot(service, d, t, NoOne, FALSE) # {}
        BY FoundTimes
      <4> QED BY <4>1, SlotAssumptions
    <3>3. NextFree(service) \in Found(service)
      BY <3>1, <3>2, MinOfNaturals
    <3>4. PICK w \in Found(service) : w = NextFree(service)
      BY <3>3
    <3>5. PICK d \in 0..(Days - 1), t \in 0..(DayLength - 1) :
            /\ w = d * DayLength + t /\ w \div DayLength = d /\ w % DayLength = t
            /\ d >= now \div DayLength /\ d - now \div DayLength <= DaysAhead
            /\ t \in Starts(service, d) /\ EvaluateSlot(service, d, t, NoOne, FALSE) # {}
      BY FoundTimes
    <3>6. EvaluateSlot(service, d, t, NoOne, TRUE) # {}
      BY <3>5, SalonMayToo
    <3>7. t \in AvailableTimes(service, d)
      BY <3>5, <3>6 DEF AvailableTimes
    <3> QED BY <3>4, <3>5, <3>7
  <2> QED BY <2>2, <2>3
<1> QED BY <1>1, <1>2, SlotsGoOn, PTL DEF PricesSpec

-----------------------------------------------------------------------------
(* The calendar: the first days of the months, by the least-number           *)
(* principle; they exist, and each month starts after the one before.        *)

MonthStarts(f, n) == f = [m \in 0..n |-> IF m = 0 THEN 0 ELSE f[m - 1] + MonthLength(m - 1)]

LEMMA MonthLengths ==
  ASSUME NEW m \in Nat
  PROVE  MonthLength(m) \in Nat /\ MonthLength(m) >= 28
BY DEF MonthLength

LEMMA MonthStartsExist ==
  ASSUME NEW n \in Nat
  PROVE  \E f : MonthStarts(f, n)
<1> DEFINE T == {k \in Nat : ~ \E f : MonthStarts(f, k)}
<1> SUFFICES ASSUME n \in T PROVE FALSE
  OBVIOUS
<1>1. PICK k \in T : \A j \in T : k <= j
  BY LeastOfNaturals
<1>2. k \in Nat /\ ~ \E f : MonthStarts(f, k)
  OBVIOUS
<1>3. CASE k = 0
  <2> DEFINE f == [m \in 0..0 |-> 0]
  <2>1. MonthStarts(f, 0)
    BY DEF MonthStarts
  <2> QED BY <1>2, <1>3, <2>1
<1>4. CASE k # 0
  <2>1. k - 1 \in Nat /\ k - 1 \notin T
    BY <1>1, <1>2, <1>4
  <2>2. PICK g : MonthStarts(g, k - 1)
    BY <2>1
  <2> DEFINE f == [m \in 0..k |-> IF m = k THEN g[k - 1] + MonthLength(k - 1) ELSE g[m]]
  <2>3. \A m \in 0..(k - 1) : g[m] = IF m = 0 THEN 0 ELSE g[m - 1] + MonthLength(m - 1)
    BY <2>2 DEF MonthStarts
  <2>4. \A m \in 0..k : f[m] = IF m = 0 THEN 0 ELSE f[m - 1] + MonthLength(m - 1)
    <3> SUFFICES ASSUME NEW m \in 0..k PROVE f[m] = IF m = 0 THEN 0 ELSE f[m - 1] + MonthLength(m - 1)
      OBVIOUS
    <3>1. CASE m = k
      <4>1. m - 1 \in 0..k /\ m - 1 # k
        BY <1>2, <1>4, <3>1
      <4>2. f[m - 1] = g[m - 1]
        BY <4>1
      <4>3. f[m] = g[k - 1] + MonthLength(k - 1)
        BY <3>1
      <4> QED BY <1>4, <3>1, <4>2, <4>3
    <3>2. CASE m # k /\ m # 0
      <4>1. m \in 0..(k - 1) /\ m - 1 \in 0..k /\ m - 1 # k
        BY <1>2, <3>2
      <4>2. f[m] = g[m] /\ f[m - 1] = g[m - 1]
        BY <3>2, <4>1
      <4> QED BY <2>3, <3>2, <4>1, <4>2
    <3>3. CASE m # k /\ m = 0
      <4>1. m \in 0..(k - 1)
        BY <2>1, <3>3
      <4>2. f[m] = g[m]
        BY <3>3
      <4> QED BY <2>3, <3>3, <4>1, <4>2
    <3> QED BY <3>1, <3>2, <3>3
  <2>5. MonthStarts(f, k)
    <3>1. f = [m \in 0..k |-> f[m]]
      OBVIOUS
    <3> HIDE DEF f
    <3> QED BY <2>4, <3>1 DEF MonthStarts
  <2> QED BY <1>2, <2>5
<1> QED BY <1>3, <1>4

LEMMA FirstOfMonth ==
  ASSUME NEW m \in 0..LastMonth
  PROVE  FirstOf[m] = IF m = 0 THEN 0 ELSE FirstOf[m - 1] + MonthLength(m - 1)
<1>1. PICK f : f = [x \in 0..LastMonth |-> IF x = 0 THEN 0 ELSE f[x - 1] + MonthLength(x - 1)]
  BY MonthStartsExist, OfferAssumptions DEF MonthStarts
<1>2. FirstOf = [x \in 0..LastMonth |-> IF x = 0 THEN 0 ELSE FirstOf[x - 1] + MonthLength(x - 1)]
  BY <1>1, Zenon DEF FirstOf
<1> QED BY <1>2

LEMMA FirstOfNat ==
  ASSUME NEW m \in 0..LastMonth
  PROVE  FirstOf[m] \in Nat
<1> DEFINE T == {k \in 0..LastMonth : FirstOf[k] \notin Nat}
<1> SUFFICES ASSUME T # {} PROVE FALSE
  OBVIOUS
<1>0. T \subseteq Nat /\ LastMonth \in Nat
  BY OfferAssumptions
<1>1. PICK k \in T : \A j \in T : k <= j
  BY <1>0, LeastOfNaturals
<1>2. FirstOf[k] = IF k = 0 THEN 0 ELSE FirstOf[k - 1] + MonthLength(k - 1)
  BY FirstOfMonth
<1>3. k # 0
  BY <1>1, <1>2
<1>4. k - 1 \in Nat /\ k - 1 \in 0..LastMonth /\ k - 1 \notin T
  BY <1>0, <1>1, <1>3
<1>5. FirstOf[k - 1] \in Nat /\ MonthLength(k - 1) \in Nat
  BY <1>4, MonthLengths
<1>6. FirstOf[k] \in Nat
  BY <1>2, <1>3, <1>5
<1> QED BY <1>6

LEMMA MonthsInOrder ==
  ASSUME NEW m \in 0..LastMonth, NEW n \in 0..LastMonth, m < n
  PROVE  FirstOf[m] + MonthLength(m) <= FirstOf[n]
<1> DEFINE T == {k \in 0..LastMonth : m < k /\ ~(FirstOf[m] + MonthLength(m) <= FirstOf[k])}
<1> SUFFICES ASSUME T # {} PROVE FALSE
  OBVIOUS
<1>0. T \subseteq Nat /\ LastMonth \in Nat
  BY OfferAssumptions
<1>1. PICK k \in T : \A j \in T : k <= j
  BY <1>0, LeastOfNaturals
<1>2. k \in 1..LastMonth /\ m < k /\ k - 1 \in 0..LastMonth /\ k - 1 \in Nat
  BY <1>0, <1>1
<1>3. FirstOf[k] = FirstOf[k - 1] + MonthLength(k - 1)
  BY <1>2, FirstOfMonth
<1>4. FirstOf[k - 1] \in Nat /\ MonthLength(k - 1) \in Nat /\ FirstOf[m] \in Nat /\ MonthLength(m) \in Nat /\ FirstOf[k] \in Nat
  BY <1>2, FirstOfNat, MonthLengths
<1>5. CASE m = k - 1
  BY <1>3, <1>4, <1>5
<1>6. CASE m # k - 1
  <2>1. m < k - 1 /\ k - 1 \notin T
    BY <1>1, <1>2, <1>6
  <2>2. FirstOf[m] + MonthLength(m) <= FirstOf[k - 1]
    BY <1>2, <2>1
  <2>3. FirstOf[m] + MonthLength(m) <= FirstOf[k]
    BY <1>3, <1>4, <2>2
  <2> QED BY <2>3
<1> QED BY <1>5, <1>6

\* The days from which n months later are still in the calendar.
OfferDays(n) == {d \in Nat : \E m \in 0..(LastMonth - n) : FirstOf[m] <= d /\ d <= LastOf(m)}

LEMMA MonthOfDay ==
  ASSUME NEW months \in Nat, NEW d \in OfferDays(months)
  PROVE  /\ d \in Nat /\ MonthOf(d) \in 0..LastMonth /\ MonthOf(d) + months \in 0..LastMonth
         /\ FirstOf[MonthOf(d)] <= d /\ d < FirstOf[MonthOf(d)] + MonthLength(MonthOf(d))
<1>1. d \in Nat
  BY DEF OfferDays
<1>2. PICK m \in 0..(LastMonth - months) : FirstOf[m] <= d /\ d <= LastOf(m)
  BY DEF OfferDays
<1>3. m \in 0..LastMonth
  BY OfferAssumptions
<1>4. MonthOf(d) \in 0..LastMonth /\ FirstOf[MonthOf(d)] <= d /\ d <= LastOf(MonthOf(d))
  BY <1>2, <1>3 DEF MonthOf
<1>5. PICK k \in 0..LastMonth : k = MonthOf(d)
  BY <1>4
<1>6. FirstOf[k] \in Nat /\ MonthLength(k) \in Nat /\ FirstOf[m] \in Nat /\ MonthLength(m) \in Nat
  BY <1>3, FirstOfNat, MonthLengths
<1>7. FirstOf[k] <= d /\ d < FirstOf[k] + MonthLength(k)
  BY <1>1, <1>4, <1>5, <1>6 DEF LastOf
<1>8. d < FirstOf[m] + MonthLength(m)
  BY <1>1, <1>2, <1>6 DEF LastOf
<1>9. k = m
  <2>1. CASE k < m
    <3>1. FirstOf[k] + MonthLength(k) <= FirstOf[m]
      BY <1>3, <2>1, MonthsInOrder
    <3> QED BY <1>1, <1>2, <1>6, <1>7, <3>1
  <2>2. CASE m < k
    <3>1. FirstOf[m] + MonthLength(m) <= FirstOf[k]
      BY <1>3, <2>2, MonthsInOrder
    <3> QED BY <1>1, <1>6, <1>7, <1>8, <3>1
  <2> QED BY <1>3, <2>1, <2>2
<1>10. k + months \in 0..LastMonth
  BY <1>9, OfferAssumptions
<1> QED BY <1>1, <1>5, <1>7, <1>10

\* addMonths never puts a later day before an earlier one, and adding none
\* leaves the day alone.
LEMMA AddMonthsInOrder ==
  ASSUME NEW months \in Nat, NEW d \in OfferDays(months), NEW e \in OfferDays(months), d <= e
  PROVE  AddMonths(d, months) \in Int /\ AddMonths(d, months) <= AddMonths(e, months)
<1>1. PICK m \in 0..LastMonth : m = MonthOf(d) /\ m + months \in 0..LastMonth /\ FirstOf[m] <= d /\ d < FirstOf[m] + MonthLength(m)
  BY MonthOfDay
<1>2. PICK n \in 0..LastMonth : n = MonthOf(e) /\ n + months \in 0..LastMonth /\ FirstOf[n] <= e /\ e < FirstOf[n] + MonthLength(n)
  BY MonthOfDay
<1>3. /\ d \in Nat /\ e \in Nat /\ months \in Nat
      /\ FirstOf[m] \in Nat /\ FirstOf[n] \in Nat /\ MonthLength(m) \in Nat /\ MonthLength(n) \in Nat
  BY MonthOfDay, FirstOfNat, MonthLengths, OfferAssumptions
<1>4. PICK p \in 0..LastMonth, q \in 0..LastMonth : p = m + months /\ q = n + months
  BY <1>1, <1>2
<1>5. /\ FirstOf[p] \in Nat /\ FirstOf[q] \in Nat /\ MonthLength(p) \in Nat /\ MonthLength(q) \in Nat
      /\ MonthLength(p) >= 28 /\ MonthLength(q) >= 28
  BY FirstOfNat, MonthLengths
<1>6. m <= n
  <2> SUFFICES ASSUME n < m PROVE FALSE
    OBVIOUS
  <2>1. FirstOf[n] + MonthLength(n) <= FirstOf[m]
    BY MonthsInOrder
  <2> QED BY <1>1, <1>2, <1>3, <2>1
<1>7. PICK x \in Int : x = AddMonths(d, months) /\ x = FirstOf[p] + (IF d - FirstOf[m] + 1 < MonthLength(p) THEN d - FirstOf[m] + 1 ELSE MonthLength(p)) - 1
  BY <1>1, <1>3, <1>4, <1>5 DEF AddMonths
<1>8. PICK y \in Int : y = AddMonths(e, months) /\ y = FirstOf[q] + (IF e - FirstOf[n] + 1 < MonthLength(q) THEN e - FirstOf[n] + 1 ELSE MonthLength(q)) - 1
  BY <1>2, <1>3, <1>4, <1>5 DEF AddMonths
<1>9. CASE m = n
  BY <1>3, <1>4, <1>5, <1>7, <1>8, <1>9
<1>10. CASE m < n
  <2>1. FirstOf[p] + MonthLength(p) <= FirstOf[q]
    BY <1>3, <1>4, <1>10, MonthsInOrder
  <2>2. x < FirstOf[q] /\ y >= FirstOf[q]
    BY <1>1, <1>2, <1>3, <1>5, <1>7, <1>8, <2>1
  <2> QED BY <1>5, <1>7, <1>8, <2>2
<1> QED BY <1>6, <1>7, <1>8, <1>9, <1>10

LEMMA AddMonthsInt ==
  ASSUME NEW months \in Nat, NEW d \in OfferDays(months)
  PROVE  AddMonths(d, months) \in Int
<1>1. d <= d
  BY MonthOfDay
<1> QED BY <1>1, AddMonthsInOrder

LEMMA AddNoMonths ==
  ASSUME NEW months \in Nat, NEW d \in OfferDays(months), months = 0
  PROVE  AddMonths(d, months) <= d
<1>1. PICK m \in 0..LastMonth : m = MonthOf(d) /\ FirstOf[m] <= d /\ d < FirstOf[m] + MonthLength(m)
  BY MonthOfDay
<1>2. d \in Nat /\ FirstOf[m] \in Nat /\ MonthLength(m) \in Nat /\ m + months = m
  BY MonthOfDay, FirstOfNat, MonthLengths
<1>3. AddMonths(d, months) = FirstOf[m] + (IF d - FirstOf[m] + 1 < MonthLength(m) THEN d - FirstOf[m] + 1 ELSE MonthLength(m)) - 1
  BY <1>1, <1>2 DEF AddMonths
<1> QED BY <1>1, <1>2, <1>3

-----------------------------------------------------------------------------
(* The founding offer. *)

Approved == {s \in Salons : approved[s].number > 0}
Taken(n) == {s \in Salons : approved[s].number \in 1..n}

OfferTyped ==
  /\ today \in Dates /\ offer \in Offers
  /\ approved \in [Salons -> [number : Nat, day : Nat]]
  /\ promised \in [Salons -> [available : BOOLEAN, spotsLeft : Nat, terms : Offers, endsAt : Int]]

\* Numbers are given in the order of approval, and the places taken are
\* counted, whatever the limit is set to.
NumbersInOrder ==
  /\ \A n \in Nat : Cardinality(Taken(n)) = Least(Cardinality(Approved), n)
  /\ \A s \in Approved : /\ approved[s].number <= Cardinality(Approved)
                         /\ approved[s].day \in Dates /\ approved[s].day <= today
  /\ \A s, t \in Approved : approved[s].number < approved[t].number => approved[s].day <= approved[t].day

\* The website offers it to whoever gets a number within the limit, until the
\* day the salon's free months end, by the terms it shows.
PromisesMeant ==
  \A s \in Approved :
    /\ promised[s].available <=> approved[s].number <= promised[s].terms.limit /\ promised[s].terms.months > 0
    /\ promised[s].endsAt = AddMonths(Later(approved[s].day, promised[s].terms.launch), promised[s].terms.months)

OfferInv == OfferTyped /\ NumbersInOrder /\ PromisesMeant

LEMMA LaterDay ==
  ASSUME NEW o \in Offers, NEW d \in Dates
  PROVE  /\ d \in Nat /\ o.launch \in Nat /\ o.limit \in Nat /\ o.months \in Nat
         /\ Later(d, o.launch) \in OfferDays(o.months) /\ Later(d, o.launch) \in Nat
         /\ Later(d, o.launch) >= d /\ Later(d, o.launch) >= o.launch
<1>1. d \in Nat /\ o.launch \in Nat /\ o.limit \in Nat /\ o.months \in Nat
  BY OfferAssumptions
<1>2. Later(d, o.launch) \in Dates \union {o.launch} /\ Later(d, o.launch) >= d /\ Later(d, o.launch) >= o.launch
  BY <1>1 DEF Later
<1>3. \E m \in 0..(LastMonth - o.months) : FirstOf[m] <= Later(d, o.launch) /\ Later(d, o.launch) <= LastOf(m)
  BY <1>2, CalendarAssumption
<1>4. Later(d, o.launch) \in Nat
  BY <1>1 DEF Later
<1> QED BY <1>1, <1>2, <1>3, <1>4 DEF OfferDays

LEMMA ApproveKeepsOrder ==
  ASSUME OfferInv, NEW s \in Salons, ApproveSalon(s)
  PROVE  OfferInv'
<1>21. offer \in Offers /\ today \in Dates
  BY DEF OfferInv, OfferTyped
<1>22. PICK launch \in Nat, limit \in Nat, months \in Nat : offer.launch = launch /\ offer.limit = limit /\ offer.months = months
  BY <1>21, LaterDay
<1>1. IsFiniteSet(Salons) /\ today \in Dates /\ today \in Nat
  BY <1>21, OfferAssumptions
<1>2. IsFiniteSet(Approved) /\ \A n \in Nat : IsFiniteSet(Taken(n))
  BY <1>1, FS_Subset DEF Approved, Taken
<1>3. PICK k \in Nat : k = Cardinality(Approved)
  BY <1>2, FS_CardinalityType
<1>4. PICK used \in Nat : used = Cardinality(Taken(limit)) /\ used = Least(k, limit)
  BY <1>2, <1>3, FS_CardinalityType DEF OfferInv, NumbersInOrder
<1>5. PICK places \in Nat : places = IF limit > used THEN limit - used ELSE 0
  <2>1. CASE limit > used
    <3>1. limit - used \in Nat
      BY <2>1
    <3> QED BY <2>1, <3>1
  <2>2. CASE ~(limit > used)
    BY <2>2
  <2> QED BY <2>1, <2>2
<1>6. PICK available \in BOOLEAN : available <=> limit > used /\ months > 0
  OBVIOUS
<1>7. PICK ends \in Int : ends = AddMonths(Later(today, launch), months)
  BY <1>21, <1>22, LaterDay, AddMonthsInt
<1>8. PublicOffer = [available |-> available, spotsLeft |-> places, terms |-> offer, endsAt |-> ends]
  <2>1. used = Cardinality({t \in Salons : approved[t].number \in 1..limit})
    BY <1>4 DEF Taken
  <2>2. available = (limit > used /\ months > 0)
    BY <1>6
  <2> QED BY <2>1, <2>2, <1>5, <1>7, <1>22 DEF PublicOffer
<1>9. k = Cardinality({t \in Salons : approved[t].number > 0})
  BY <1>3 DEF Approved
<1>10. /\ approved[s].number = 0 /\ today' = today /\ offer' = offer
       /\ approved' = [approved EXCEPT ![s] = [number |-> k + 1, day |-> today]]
       /\ promised' = [promised EXCEPT ![s] = [available |-> available, spotsLeft |-> places, terms |-> offer, endsAt |-> ends]]
  BY <1>8, <1>9 DEF ApproveSalon
<1>11. OfferTyped'
  <2>1. [number |-> k + 1, day |-> today] \in [number : Nat, day : Nat]
    BY <1>1
  <2>2. [available |-> available, spotsLeft |-> places, terms |-> offer, endsAt |-> ends]
          \in [available : BOOLEAN, spotsLeft : Nat, terms : Offers, endsAt : Int]
    BY <1>21
  <2> QED BY <1>1, <1>10, <1>21, <2>1, <2>2 DEF OfferInv, OfferTyped
<1>12. /\ approved'[s].number = k + 1 /\ approved'[s].day = today
       /\ promised'[s].available = available /\ promised'[s].terms = offer /\ promised'[s].endsAt = ends
       /\ \A t \in Salons \ {s} : approved'[t] = approved[t] /\ promised'[t] = promised[t]
  BY <1>10 DEF OfferInv, OfferTyped
<1>13. Approved' = Approved \union {s} /\ s \notin Approved
  BY <1>10, <1>12 DEF Approved
<1>14. Cardinality(Approved \union {s}) = k + 1
  BY <1>2, <1>3, <1>13, FS_AddElement
<1>15. ASSUME NEW n \in Nat
       PROVE  Cardinality(Taken(n)') = Least(k + 1, n)
  <2>3. PICK c \in Nat : c = Cardinality(Taken(n)) /\ c = Least(k, n)
    BY <1>2, <1>3, FS_CardinalityType DEF OfferInv, NumbersInOrder
  <2>1. CASE k + 1 <= n
    <3>1. Taken(n)' = Taken(n) \union {s} /\ s \notin Taken(n)
      BY <1>1, <1>10, <1>12, <2>1 DEF Taken
    <3>2. Cardinality(Taken(n) \union {s}) = c + 1
      BY <1>2, <2>3, <3>1, FS_AddElement
    <3> QED BY <2>3, <2>1, <3>1, <3>2 DEF Least
  <2>2. CASE ~(k + 1 <= n)
    <3>1. Taken(n)' = Taken(n)
      BY <1>1, <1>10, <1>12, <2>2 DEF Taken
    <3>2. c = n
      BY <2>3, <2>2 DEF Least
    <3> QED BY <2>3, <2>2, <3>1, <3>2 DEF Least
  <2> QED BY <2>1, <2>2
<1>16. \A t \in Approved : approved'[t] = approved[t] /\ promised'[t] = promised[t]
  BY <1>12, <1>13 DEF Approved
<1>17. \A t \in Approved : /\ approved[t].number \in Nat /\ approved[t].number <= k
                           /\ approved[t].day \in Dates /\ approved[t].day <= today
  BY <1>3 DEF OfferInv, OfferTyped, NumbersInOrder, Approved
<1>18. NumbersInOrder'
  <2>1. \A n \in Nat : Cardinality(Taken(n)') = Least(Cardinality(Approved'), n)
    BY <1>13, <1>14, <1>15
  <2>2. \A t \in Approved' : /\ approved'[t].number <= k + 1
                             /\ approved'[t].day \in Dates /\ approved'[t].day <= today
    BY <1>1, <1>12, <1>13, <1>16, <1>17
  <2>3. ASSUME NEW t \in Approved', NEW u \in Approved', approved'[t].number < approved'[u].number
        PROVE  approved'[t].day <= approved'[u].day
    <3>1. CASE t = s
      BY <1>12, <1>13, <1>16, <1>17, <2>3, <3>1
    <3>2. CASE t # s /\ u = s
      BY <1>12, <1>13, <1>16, <1>17, <3>2
    <3>3. CASE t # s /\ u # s
      <4>1. t \in Approved /\ u \in Approved
        BY <1>13, <3>3
      <4>2. approved[t].number < approved[u].number
        BY <1>16, <2>3, <4>1
      <4> QED BY <1>16, <4>1, <4>2 DEF OfferInv, NumbersInOrder
    <3> QED BY <3>1, <3>2, <3>3
  <2>4. \A t \in Approved' : approved'[t].number <= Cardinality(Approved')
    BY <1>13, <1>14, <2>2
  <2> QED BY <1>10, <2>1, <2>2, <2>3, <2>4 DEF NumbersInOrder
<1>19. PromisesMeant'
  <2> SUFFICES ASSUME NEW t \in Approved'
               PROVE  /\ promised'[t].available <=> approved'[t].number <= promised'[t].terms.limit /\ promised'[t].terms.months > 0
                      /\ promised'[t].endsAt = AddMonths(Later(approved'[t].day, promised'[t].terms.launch), promised'[t].terms.months)
    BY DEF PromisesMeant
  <2>1. CASE t = s
    <3>1. limit > used <=> k + 1 <= limit
      BY <1>4 DEF Least
    <3> QED BY <1>6, <1>7, <1>12, <1>22, <2>1, <3>1
  <2>2. CASE t # s
    <3>1. t \in Approved
      BY <1>13, <2>2
    <3> QED BY <1>16, <3>1 DEF OfferInv, PromisesMeant
  <2> QED BY <2>1, <2>2
<1> QED BY <1>11, <1>18, <1>19 DEF OfferInv

LEMMA DaysKeepOrder ==
  ASSUME OfferInv, DaysPass
  PROVE  OfferInv'
<1>1. today' \in Dates /\ today' > today /\ UNCHANGED <<offer, approved, promised>>
  BY DEF DaysPass
<1>2. today \in Nat /\ today' \in Nat
  BY <1>1, OfferAssumptions DEF OfferInv, OfferTyped
<1>3. Approved' = Approved /\ \A n : Taken(n)' = Taken(n)
  BY <1>1 DEF Approved, Taken
<1>4. \A s \in Approved : approved[s].day \in Nat /\ approved[s].day <= today /\ approved[s].day \in Dates /\ approved[s].number <= Cardinality(Approved)
  BY OfferAssumptions DEF OfferInv, NumbersInOrder
<1>5. \A s \in Approved : approved[s].day <= today'
  BY <1>1, <1>2, <1>4
<1>6. OfferTyped'
  BY <1>1 DEF OfferInv, OfferTyped
<1>7. NumbersInOrder'
  BY <1>1, <1>3, <1>4, <1>5 DEF OfferInv, NumbersInOrder
<1>8. PromisesMeant'
  BY <1>1, <1>3 DEF OfferInv, PromisesMeant
<1> QED BY <1>6, <1>7, <1>8 DEF OfferInv

LEMMA OffersGoOn == OfferInv /\ [PricesNext]_pricesVars => OfferInv'
<1> SUFFICES ASSUME OfferInv, [PricesNext]_pricesVars PROVE OfferInv'
  OBVIOUS
<1>1. CASE UNCHANGED offerVars
  BY <1>1 DEF offerVars, OfferInv, OfferTyped, NumbersInOrder, PromisesMeant, Approved, Taken
<1>2. CASE DaysPass
  BY <1>2, DaysKeepOrder
<1>3. ASSUME NEW s \in Salons, ApproveSalon(s) PROVE OfferInv'
  BY <1>3, ApproveKeepsOrder
<1>5. CASE EditOffer
  BY <1>5 DEF EditOffer, OfferInv, OfferTyped, NumbersInOrder, PromisesMeant, Approved, Taken
<1>4. UNCHANGED offerVars \/ OfferNext
  BY DEF PricesNext, MoneyStep, SlotStep, NoticeStep, OfferStep, pricesVars
<1> QED BY <1>1, <1>2, <1>3, <1>4, <1>5 DEF OfferNext

LEMMA OffersStart == PricesInit => OfferInv
<1> SUFFICES ASSUME PricesInit PROVE OfferInv
  OBVIOUS
<1>1. /\ today \in Dates /\ offer \in Offers /\ approved = [s \in Salons |-> [number |-> 0, day |-> 0]]
      /\ promised = [s \in Salons |-> [available |-> FALSE, spotsLeft |-> 0, terms |-> offer, endsAt |-> 0]]
  BY DEF PricesInit, OfferInit
<1>2. OfferTyped
  <2>1. [number |-> 0, day |-> 0] \in [number : Nat, day : Nat]
    OBVIOUS
  <2>2. [available |-> FALSE, spotsLeft |-> 0, terms |-> offer, endsAt |-> 0] \in [available : BOOLEAN, spotsLeft : Nat, terms : Offers, endsAt : Int]
    BY <1>1
  <2> QED BY <1>1, <2>1, <2>2 DEF OfferTyped
<1>3. \A s \in Salons : approved[s].number = 0
  BY <1>1
<1>4. Approved = {} /\ \A n \in Nat : Taken(n) = {}
  BY <1>3 DEF Approved, Taken
<1>5. Cardinality(Approved) = 0 /\ \A n \in Nat : Cardinality(Taken(n)) = 0
  BY <1>4, FS_EmptySet
<1>6. NumbersInOrder
  BY <1>4, <1>5 DEF NumbersInOrder, Least
<1>7. PromisesMeant
  BY <1>4 DEF PromisesMeant
<1> QED BY <1>2, <1>6, <1>7 DEF OfferInv

\* launchOffers.ts:39: while the terms are those the website showed, the salons
\* it offered it to get it, until the day it named, and the others pay - for
\* every calendar, and whatever terms were saved in between.
THEOREM FoundersGetTheOffer == PricesSpec => []OfferAsPromised
<1>1. OfferInv => OfferAsPromised
  <2> SUFFICES ASSUME OfferInv, NEW s \in Salons, approved[s].number > 0
               PROVE  /\ promised[s].terms = offer =>
                           IF promised[s].available
                           THEN /\ FoundingStatus(s).endsAt = promised[s].endsAt
                                /\ today >= offer.launch /\ today < promised[s].endsAt => ~PaysCommission(s)
                                /\ today >= promised[s].endsAt => PaysCommission(s)
                           ELSE PaysCommission(s)
                      /\ \A t \in Salons : approved[t].number > approved[s].number /\ approved[t].number <= offer.limit =>
                           FoundingStatus(t).endsAt >= FoundingStatus(s).endsAt
    BY DEF OfferAsPromised
  <2>1. s \in Approved /\ today \in Dates /\ offer \in Offers
    BY DEF Approved, OfferInv, OfferTyped
  <2>9. PICK launch \in Nat, limit \in Nat, months \in Nat :
          /\ offer.launch = launch /\ offer.limit = limit /\ offer.months = months /\ today \in Nat
          /\ \A d \in Dates : /\ d \in Nat /\ Later(d, launch) \in OfferDays(months) /\ Later(d, launch) \in Nat
                              /\ Later(d, launch) >= d /\ Later(d, launch) >= launch
    BY <2>1, LaterDay
  <2>2. \A t \in Approved : /\ approved[t].number \in Nat /\ approved[t].number > 0 /\ approved[t].day \in Dates /\ approved[t].day \in Nat
                            /\ approved[t].day <= today
    BY <2>9 DEF OfferInv, OfferTyped, NumbersInOrder, Approved
  <2>3. ASSUME NEW t \in Approved, approved[t].number <= limit
        PROVE  /\ FoundingStatus(t).startsAt = Later(approved[t].day, launch)
               /\ FoundingStatus(t).endsAt = AddMonths(Later(approved[t].day, launch), months)
               /\ FoundingStatus(t).endsAt \in Int
    <3>1. approved[t].number # 0 /\ ~(approved[t].number > limit)
      BY <2>2, <2>3
    <3>2. FoundingStatus(t) = [startsAt |-> Later(approved[t].day, launch),
                               endsAt |-> AddMonths(Later(approved[t].day, launch), months)]
      BY <2>9, <3>1 DEF FoundingStatus
    <3>3. AddMonths(Later(approved[t].day, launch), months) \in Int
      BY <2>2, <2>9, AddMonthsInt
    <3> QED BY <3>2, <3>3
  <2>6. ASSUME NEW t \in Approved, ~(approved[t].number <= limit)
        PROVE  PaysCommission(t) /\ FoundingStatus(t).endsAt = 0
    <3>1. approved[t].number > limit
      BY <2>2, <2>6
    <3>2. FoundingStatus(t) = [startsAt |-> 0, endsAt |-> 0]
      BY <2>9, <3>1 DEF FoundingStatus, NotFounding
    <3>3. ~(today < 0)
      BY <2>9
    <3> QED BY <3>2, <3>3 DEF PaysCommission
  <2>4. ASSUME promised[s].terms = offer, promised[s].available
        PROVE  /\ FoundingStatus(s).endsAt = promised[s].endsAt
               /\ today >= offer.launch /\ today < promised[s].endsAt => ~PaysCommission(s)
               /\ today >= promised[s].endsAt => PaysCommission(s)
    <3>1. approved[s].number <= limit /\ promised[s].endsAt = AddMonths(Later(approved[s].day, launch), months)
      BY <2>1, <2>4, <2>9 DEF OfferInv, PromisesMeant
    <3>2. PICK starts \in Nat, ends \in Int :
            starts = FoundingStatus(s).startsAt /\ ends = FoundingStatus(s).endsAt /\ ends = promised[s].endsAt
            /\ starts = Later(approved[s].day, launch)
      BY <2>1, <2>2, <2>3, <2>9, <3>1
    <3>3. today >= launch => today >= starts
      BY <2>1, <2>2, <2>9, <3>2 DEF Later
    <3>4. today >= launch /\ today < ends => ~PaysCommission(s)
      BY <3>2, <3>3 DEF PaysCommission
    <3>5. today >= ends => PaysCommission(s)
      <4>1. today >= ends => ~(today < ends)
        BY <2>9
      <4> QED BY <3>2, <4>1 DEF PaysCommission
    <3> QED BY <2>9, <3>2, <3>4, <3>5
  <2>5. ASSUME promised[s].terms = offer, ~promised[s].available
        PROVE  PaysCommission(s)
    <3>1. ~(approved[s].number <= limit /\ months > 0)
      BY <2>1, <2>5, <2>9 DEF OfferInv, PromisesMeant
    <3>2. CASE ~(approved[s].number <= limit)
      BY <2>1, <2>6, <3>2
    <3>3. CASE approved[s].number <= limit
      <4>1. months = 0
        BY <2>9, <3>1, <3>3
      <4>2. PICK d \in Nat : d = Later(approved[s].day, launch) /\ d \in OfferDays(months)
        BY <2>1, <2>2, <2>9
      <4>3. PICK x \in Int : x = AddMonths(d, months) /\ x <= d
        BY <4>1, <4>2, AddNoMonths, AddMonthsInt
      <4>4. FoundingStatus(s).startsAt = d /\ FoundingStatus(s).endsAt = x
        BY <2>1, <2>3, <3>3, <4>2, <4>3
      <4>5. ~(today >= d /\ today < x)
        BY <2>9, <4>2, <4>3
      <4> QED BY <4>4, <4>5 DEF PaysCommission
    <3> QED BY <3>2, <3>3
  <2>7. ASSUME NEW t \in Salons, approved[t].number > approved[s].number, approved[t].number <= limit
        PROVE  FoundingStatus(t).endsAt >= FoundingStatus(s).endsAt
    <3>1. approved[t].number \in Nat /\ t \in Approved
      BY <2>1, <2>2, <2>7 DEF OfferInv, OfferTyped, Approved
    <3>2. approved[s].number < approved[t].number /\ approved[s].number <= limit
      BY <2>1, <2>2, <2>7, <2>9, <3>1
    <3>3. approved[s].day <= approved[t].day
      BY <2>1, <3>1, <3>2 DEF OfferInv, NumbersInOrder
    <3>4. PICK d \in Nat, e \in Nat : /\ d = Later(approved[s].day, launch) /\ e = Later(approved[t].day, launch)
                                      /\ d \in OfferDays(months) /\ e \in OfferDays(months)
      BY <2>1, <2>2, <2>9, <3>1
    <3>5. d <= e
      BY <2>1, <2>2, <2>9, <3>1, <3>3, <3>4 DEF Later
    <3>6. PICK x \in Int, y \in Int : x = AddMonths(d, months) /\ y = AddMonths(e, months) /\ x <= y
      BY <2>9, <3>4, <3>5, AddMonthsInOrder, AddMonthsInt
    <3>7. FoundingStatus(s).endsAt = x /\ FoundingStatus(t).endsAt = y
      BY <2>1, <2>3, <2>7, <3>1, <3>2, <3>4, <3>6
    <3> QED BY <3>6, <3>7
  <2>8. \A t \in Salons : approved[t].number > approved[s].number /\ approved[t].number <= offer.limit =>
          FoundingStatus(t).endsAt >= FoundingStatus(s).endsAt
    BY <2>7, <2>9
  <2> QED BY <2>4, <2>5, <2>8
<1> QED BY <1>1, OffersStart, OffersGoOn, PTL DEF PricesSpec
=============================================================================
