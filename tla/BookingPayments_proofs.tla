------------------------ MODULE BookingPayments_proofs ------------------------
(***************************************************************************)
(* Proofs about BookingPayments, for any number of orders, payments and    *)
(* requests: the types, the inductive invariant about where the money is,  *)
(* and the safety properties that follow from it.                          *)
(***************************************************************************)
EXTENDS BookingPayments, TLAPS

\* A request that waits to record the payment it created at Stripe is the only
\* one that does, and the payment has no row yet.
Recording ==
  /\ \A h \in Handlers : job[h].pc = "record" =>
       \A i \in job[h].todo : intent[i].db = "none" /\ intent[i].stripe # "none"
  /\ \A h, g \in Handlers : h # g /\ job[h].pc = "record" /\ job[g].pc = "record" => job[h].todo \cap job[g].todo = {}

\* What left KHS, or is about to, was claimed for it, and a refund still to be
\* made has not been made and is one request's to make.
Claimed ==
  /\ \A i \in Intents : /\ credited[i] = (IF intent[i].db = "released" THEN 1 ELSE 0)
                        /\ returned[i] \in {0, 1}
                        /\ returned[i] = 1 => intent[i].db = "refunded"
  /\ \A h \in Handlers : \A i \in job[h].owed : intent[i].db = "refunded" /\ returned[i] = 0
  /\ \A h, g \in Handlers : h # g => job[h].owed \cap job[g].owed = {}

\* A payment with a row exists at Stripe.
RowsExist == \A i \in Intents : intent[i].db # "none" => intent[i].stripe # "none"

-----------------------------------------------------------------------------
LEMMA IdleJobType == IdleJob \in Job
<1>1. (CHOOSE o \in Orders : TRUE) \in Orders
  BY PaymentAssumptions
<1> QED BY <1>1 DEF IdleJob, Job, Steps, AfterClearing, Methods, Moves

\* The types hold initially and are kept by every step.
LEMMA TypeInit == Init => TypeOK
BY PaymentAssumptions, IdleJobType DEF Init, TypeOK, OrderStatus, Intent, RowStatus, StripeStatus

LEMMA LesserType == ASSUME NEW a \in Nat, NEW b \in Nat PROVE Lesser(a, b) \in Nat /\ a - Lesser(a, b) \in Nat
BY DEF Lesser

\* Confirming an order keeps the types.
LEMMA ConfirmType ==
  ASSUME TypeOK, NEW o \in Orders, ConfirmByCard(o) \/ ConfirmCovered(o)
  PROVE  status' \in [Orders -> OrderStatus] /\ paid' \subseteq Orders /\ live' \subseteq Orders /\ covered' \subseteq Orders
BY DEF TypeOK, ConfirmByCard, ConfirmCovered, ConfirmOrder, OrderStatus

LEMMA CountType ==
  ASSUME NEW f \in [Intents -> Nat], NEW S
  PROVE  /\ CountUp(f, S) \in [Intents -> Nat]
         /\ \A i \in Intents : CountUp(f, S)[i] = IF i \in S THEN f[i] + 1 ELSE f[i]
BY DEF CountUp

LEMMA SettleType ==
  ASSUME TypeOK, NEW i \in Intents, Settle(i)
  PROVE  /\ status' \in [Orders -> OrderStatus] /\ paid' \subseteq Orders /\ live' \subseteq Orders /\ covered' \subseteq Orders
         /\ intent' \in [Intents -> Intent] /\ giftLeft' \in Nat
<1>1. OrderOf[i] \in Orders
  BY PaymentAssumptions
<1>2. CASE intent[i].db = "pending"
  <2>1. intent[i].gift \in Nat
    BY DEF TypeOK, Intent
  <2> QED BY <1>1, <1>2, <2>1, ConfirmType, LesserType DEF TypeOK, Settle, Intent, RowStatus
<1>3. CASE intent[i].db # "pending"
  BY <1>3 DEF TypeOK, Settle, order
<1> QED BY <1>2, <1>3

LEMMA TypeStep == TypeOK /\ [Next]_vars => TypeOK'
<1> SUFFICES ASSUME TypeOK, [Next]_vars PROVE TypeOK'
  OBVIOUS
<1> USE PaymentAssumptions, IdleJobType DEF TypeOK
<1>0. CASE UNCHANGED vars
  BY <1>0 DEF vars
<1>1. ASSUME NEW h \in Handlers, HandlerStep(h) PROVE TypeOK'
  <2> USE DEF Continue, Done, order, money, prepaid
  <2>1. CASE RefuseAlreadyPaid(h)
    BY <2>1 DEF RefuseAlreadyPaid
  <2>2. CASE GiveUpOrder(h)
    BY <2>2 DEF GiveUpOrder, ClearAttempts, Job, Steps, AfterClearing
  <2>3. CASE PayWithSessions(h)
    BY <2>3 DEF PayWithSessions, ClearAttempts, Job, Steps, AfterClearing
  <2>4. CASE ConfirmFreeBooking(h)
    BY <2>4, ConfirmType DEF ConfirmFreeBooking, Job
  <2>5. CASE QuotePayment(h)
    <3>1. Price[job[h].order] \in Nat
      BY DEF Job
    <3>2. Lesser(giftLeft, Price[job[h].order]) \in Nat
      BY <3>1, LesserType
    <3>3. ASSUME NEW next \in {"charge", "redeem gift"}, NEW g \in Nat, ClearAttempts(h, next, g) PROVE job' \in [Handlers -> Job]
      BY <3>3 DEF ClearAttempts, Job, Steps, AfterClearing
    <3>4. CASE ClearAttempts(h, "charge", 0)
      BY <2>5, <3>3, <3>4 DEF QuotePayment
    <3>5. CASE ~ClearAttempts(h, "charge", 0)
      BY <2>5, <3>2, <3>3, <3>5 DEF QuotePayment
    <3> QED BY <3>4, <3>5
  <2>6. CASE ListAttempts(h)
    BY <2>6 DEF ListAttempts, IntentsOf, Job, Steps, AfterClearing
  <2>7. CASE AttemptsCleared(h)
    BY <2>7 DEF AttemptsCleared, Job, Steps, AfterClearing
  <2>8. CASE RedeemGiftCard(h)
    <3>1. job[h].order \in Orders /\ Price[job[h].order] \in Nat
      BY DEF Job
    <3>2. CASE giftLeft >= Price[job[h].order]
      <4>1. ConfirmCovered(job[h].order)
        BY <2>8, <3>2 DEF RedeemGiftCard
      <4>2. giftLeft' = giftLeft - Price[job[h].order]
        BY <2>8, <3>2 DEF RedeemGiftCard
      <4>3. giftLeft' \in Nat
        BY <3>1, <3>2, <4>2
      <4> QED BY <2>8, <3>1, <4>1, <4>3, ConfirmType DEF RedeemGiftCard
    <3>3. CASE ~(giftLeft >= Price[job[h].order])
      BY <2>8, <3>3 DEF RedeemGiftCard
    <3> QED BY <3>2, <3>3
  <2>9. CASE RedeemSession(h)
    <3>1. job[h].order \in Orders
      BY DEF Job
    <3>2. CASE sessions >= 1
      <4>1. ConfirmCovered(job[h].order)
        BY <2>9, <3>2 DEF RedeemSession
      <4>2. sessions' = sessions - 1
        BY <2>9, <3>2 DEF RedeemSession
      <4>3. sessions' \in Nat
        BY <3>2, <4>2
      <4> QED BY <2>9, <3>1, <4>1, <4>3, ConfirmType DEF RedeemSession
    <3>3. CASE ~(sessions >= 1)
      BY <2>9, <3>3 DEF RedeemSession
    <3> QED BY <3>2, <3>3
  <2>10. CASE ReleaseOrder(h)
    BY <2>10 DEF ReleaseOrder, OrderStatus, Job
  <2>11. CASE CancellationDone(h)
    BY <2>11 DEF CancellationDone
  <2>12. CASE MoveOrder(h)
    BY <2>12 DEF MoveOrder, OrderStatus, Job
  <2>13. CASE HandlerFails(h)
    BY <2>13 DEF HandlerFails
  <2>19. CASE ListOutstanding(h)
    BY <2>19 DEF ListOutstanding, IntentsOf, Job, Steps, AfterClearing
  <2>14. ASSUME NEW i \in Intents, SettleOutstanding(h, i) PROVE TypeOK'
    BY <2>14, SettleType DEF SettleOutstanding, Job
  <2>15. ASSUME NEW i \in Intents, CancelAttempt(h, i) PROVE TypeOK'
    <3>1. job' \in [Handlers -> Job]
      BY <2>15 DEF CancelAttempt, Job
    <3>2. ASSUME NEW d \in RowStatus PROVE [intent EXCEPT ![i].stripe = "canceled", ![i].db = d] \in [Intents -> Intent]
      BY DEF Intent, StripeStatus
    <3>3. intent[i].db \in RowStatus /\ "cancelled" \in RowStatus
      BY DEF Intent, RowStatus
    <3>4. intent' \in [Intents -> Intent]
      BY <2>15, <3>2, <3>3 DEF CancelAttempt
    <3> QED BY <2>15, <3>1, <3>4 DEF CancelAttempt
  <2>16. ASSUME NEW i \in Intents, CreatePaymentIntent(h, i) PROVE TypeOK'
    <3>1. job' \in [Handlers -> Job]
      BY <2>16 DEF CreatePaymentIntent, Job, Steps, AfterClearing
    <3>2. job[h].gift \in Nat
      BY DEF Job
    <3>3. intent' \in [Intents -> Intent]
      BY <2>16, <3>2 DEF CreatePaymentIntent, Intent, StripeStatus
    <3> QED BY <2>16, <3>1, <3>3 DEF CreatePaymentIntent
  <2>17. ASSUME NEW i \in Intents, RecordPaymentIntent(h, i) PROVE TypeOK'
    BY <2>17 DEF RecordPaymentIntent, Intent, RowStatus
  <2>18. ASSUME NEW i \in Intents, RefundPayment(h, i) PROVE TypeOK'
    <3>1. job' \in [Handlers -> Job]
      BY <2>18 DEF RefundPayment, Job
    <3>2. returned' \in [Intents -> Nat] /\ alerted' \subseteq Intents
      BY <2>18, CountType DEF RefundPayment
    <3> QED BY <2>18, <3>1, <3>2 DEF RefundPayment
  <2> QED BY <1>1, <2>1, <2>2, <2>3, <2>4, <2>5, <2>6, <2>7, <2>8, <2>9, <2>10, <2>11, <2>12, <2>13, <2>14, <2>15, <2>16, <2>17, <2>18, <2>19 DEF HandlerStep
<1>2. ASSUME NEW h \in Handlers, NEW o \in Orders, Request(h, o) PROVE TypeOK'
  <2> USE DEF Continue, order, money, prepaid
  <2>1. ASSUME NEW m \in Methods, StartPayment(h, o, m) PROVE TypeOK'
    BY <2>1 DEF StartPayment, SettlingJob, Job, Steps, AfterClearing
  <2>2. CASE AbandonBooking(h, o)
    BY <2>2 DEF AbandonBooking, SettlingJob, Job, Steps, AfterClearing
  <2>3. ASSUME NEW early \in BOOLEAN, CancelBooking(h, o, early) PROVE TypeOK'
    <3>1. IntentsOf(o, "held") \subseteq Intents
      BY DEF IntentsOf
    <3>2. ASSUME NEW owed \in SUBSET Intents PROVE CleanupJob(o, owed) \in Job
      BY DEF CleanupJob, Job, Steps, AfterClearing
    <3>3. ASSUME NEW s \in {"refunded", "released"}, ClaimHeld(o, s) PROVE intent' \in [Intents -> Intent]
      BY <3>3 DEF ClaimHeld, Intent, RowStatus
    <3>4. CASE early
      BY <2>3, <3>1, <3>2, <3>3, <3>4 DEF CancelBooking, OrderStatus
    <3>5. CASE ~early
      <4>1. credited' \in [Intents -> Nat]
        BY <2>3, <3>5, CountType DEF CancelBooking
      <4> QED BY <2>3, <3>1, <3>2, <3>3, <3>5, <4>1 DEF CancelBooking, OrderStatus
    <3> QED BY <3>4, <3>5
  <2>4. CASE CancelBookingBySalon(h, o)
    BY <2>4 DEF CancelBookingBySalon, CleanupJob, ClaimHeld, IntentsOf, Job, Steps, AfterClearing, Intent, RowStatus, OrderStatus
  <2>5. CASE BeginMove(h, o)
    BY <2>5 DEF BeginMove, Job, Steps, AfterClearing, Moves
  <2> QED BY <1>2, <2>1, <2>2, <2>3, <2>4, <2>5 DEF Request
<1>3. ASSUME NEW h \in Handlers, ServerExits(h) \/ Crash(h) PROVE TypeOK'
  <2>1. crashes' \in 0..MaxCrashes
    BY <1>3 DEF ServerExits, Crash
  <2>2. PICK S \in SUBSET Handlers : ServerEnds(S)
    BY <1>3 DEF ServerExits, Crash
  <2>3. \A g \in Handlers : job[g].owed \subseteq Intents
    BY DEF Job
  <2> QED BY <2>1, <2>2, <2>3 DEF ServerEnds, order, prepaid
<1>4. ASSUME NEW o \in Orders, CreateBooking(o) \/ HoldRunsOut(o) \/ RescheduleBySalon(o) PROVE TypeOK'
  <2>1. CASE CreateBooking(o) \/ RescheduleBySalon(o)
    BY <2>1 DEF CreateBooking, RescheduleBySalon, OrderStatus, money, prepaid
  <2>2. CASE HoldRunsOut(o)
    <3>1. ASSUME NEW h \in Handlers PROVE [job[h] EXCEPT !.for = "give up"] \in Job
      BY DEF Job
    <3> QED BY <2>2, <3>1 DEF HoldRunsOut, money, prepaid
  <2> QED BY <1>4, <2>1, <2>2
<1>5. ASSUME NEW o \in Orders, NEW out \in {"Completed", "No Show"}, Finish(o, out) PROVE TypeOK'
  <2>1. credited' \in [Intents -> Nat]
    BY <1>5, CountType DEF Finish
  <2>2. intent' \in [Intents -> Intent]
    BY <1>5 DEF Finish, ClaimHeld, IntentsOf, Intent, RowStatus
  <2> QED BY <1>5, <2>1, <2>2 DEF Finish, OrderStatus, prepaid
<1>6. ASSUME NEW i \in Intents, ConfirmInBrowser(i) \/ StripeAnswers(i) PROVE TypeOK'
  BY <1>6 DEF ConfirmInBrowser, StripeAnswers, Intent, StripeStatus, order, money, prepaid
<1>7. ASSUME NEW i \in Intents, SettlePaidIntent(i) PROVE TypeOK'
  BY <1>7, SettleType DEF SettlePaidIntent, money
<1> QED BY <1>0, <1>1, <1>2, <1>3, <1>4, <1>5, <1>6, <1>7 DEF Next

\* Every reachable state has the types.
THEOREM TypesHold == Spec => []TypeOK
BY TypeInit, TypeStep, PTL DEF Spec

-----------------------------------------------------------------------------
MInv == RowsAgreeWithStripe /\ RowsExist /\ Recording /\ Claimed

\* What most steps do to the rows, and to what the requests are at.
QuietRows == \A i \in Intents :
  /\ intent'[i].db # intent[i].db =>
       /\ intent[i].db = "pending"
       /\ \/ intent'[i].db = "held" /\ intent'[i].stripe = "succeeded"
          \/ intent'[i].db = "cancelled" /\ intent'[i].stripe = "canceled"
  /\ intent[i].stripe \in {"succeeded", "canceled"} => intent'[i].stripe = intent[i].stripe
  /\ intent[i].stripe # "none" => intent'[i].stripe # "none"

QuietJobs == \A h \in Handlers : job'[h].owed \subseteq job[h].owed /\ (job'[h].pc = "record" => job'[h] = job[h])

LEMMA QuietStep ==
  ASSUME TypeOK, MInv, QuietRows, QuietJobs, credited' = credited, returned' = returned
  PROVE  MInv'
<1> USE DEF MInv
<1>1. RowsAgreeWithStripe'
  BY DEF RowsAgreeWithStripe, QuietRows
<1>2. RowsExist'
  BY DEF RowsExist, QuietRows
<1>3. Recording'
  <2>1. ASSUME NEW h \in Handlers, job'[h].pc = "record", NEW i \in job'[h].todo
        PROVE  intent'[i].db = "none" /\ intent'[i].stripe # "none"
    <3>1. job'[h] = job[h]
      BY <2>1 DEF QuietJobs
    <3>2. i \in Intents
      BY <2>1, <3>1 DEF TypeOK, Job
    <3>3. intent[i].db = "none" /\ intent[i].stripe # "none"
      BY <2>1, <3>1 DEF Recording
    <3> QED BY <3>2, <3>3 DEF QuietRows
  <2>2. ASSUME NEW h \in Handlers, NEW g \in Handlers, h # g, job'[h].pc = "record", job'[g].pc = "record"
        PROVE  job'[h].todo \cap job'[g].todo = {}
    BY <2>2 DEF QuietJobs, Recording
  <2> QED BY <2>1, <2>2 DEF Recording
<1>4. Claimed'
  <2>1. ASSUME NEW i \in Intents
        PROVE  /\ intent[i].db \in {"released", "refunded"} => intent'[i].db = intent[i].db
               /\ intent'[i].db = "released" => intent[i].db = "released"
    BY DEF QuietRows
  <2>2. \A h \in Handlers : job[h].owed \subseteq Intents
    BY DEF TypeOK, Job
  <2>3. \A i \in Intents : /\ credited'[i] = (IF intent'[i].db = "released" THEN 1 ELSE 0)
                           /\ returned'[i] \in {0, 1}
                           /\ returned'[i] = 1 => intent'[i].db = "refunded"
    BY <2>1 DEF Claimed
  <2>4. \A h \in Handlers : \A i \in job'[h].owed : intent'[i].db = "refunded" /\ returned'[i] = 0
    BY <2>1, <2>2 DEF Claimed, QuietJobs
  <2>5. \A h, g \in Handlers : h # g => job'[h].owed \cap job'[g].owed = {}
    BY DEF Claimed, QuietJobs
  <2> QED BY <2>3, <2>4, <2>5 DEF Claimed
<1> QED BY <1>1, <1>2, <1>3, <1>4

LEMMA SameRows == UNCHANGED intent => QuietRows
BY DEF QuietRows

LEMMA SameJobs == UNCHANGED job => QuietJobs
BY DEF QuietJobs

\* A request ends, or goes on without owing more refunds or recording a payment.
LEMMA OtherJob ==
  ASSUME TypeOK, NEW h \in Handlers, NEW j, Continue(h, j), j.owed \subseteq job[h].owed, j.pc # "record"
  PROVE  QuietJobs
<1>1. job' = [job EXCEPT ![h] = j]
  BY DEF Continue
<1> QED BY <1>1 DEF QuietJobs, TypeOK

LEMMA EndedJob == ASSUME TypeOK, NEW h \in Handlers, Done(h) PROVE QuietJobs
BY OtherJob DEF Done, IdleJob

LEMMA EndedServer == ASSUME TypeOK, NEW S \in SUBSET Handlers, ServerEnds(S) PROVE QuietJobs
<1>1. IdleJob.owed = {} /\ IdleJob.pc # "record"
  BY DEF IdleJob
<1> QED BY <1>1 DEF ServerEnds, QuietJobs

LEMMA SettleRows == ASSUME TypeOK, NEW i \in Intents, Settle(i), intent[i].stripe = "succeeded" PROVE QuietRows
<1>1. CASE intent[i].db = "pending"
  <2>1. intent' = [intent EXCEPT ![i].db = "held"]
    BY <1>1 DEF Settle
  <2> QED BY <1>1, <2>1 DEF QuietRows, TypeOK, Intent
<1>2. CASE intent[i].db # "pending"
  BY <1>2, SameRows DEF Settle
<1> QED BY <1>1, <1>2

LEMMA MoneyInit == Init => MInv
<1> SUFFICES ASSUME Init PROVE MInv
  OBVIOUS
<1>1. \A h \in Handlers : job[h].pc = "idle" /\ job[h].owed = {}
  BY DEF Init, IdleJob
<1>2. \A i \in Intents : intent[i].db = "none"
  BY DEF Init
<1>3. Recording
  BY <1>1 DEF Recording
<1>4. Claimed
  BY <1>1, <1>2 DEF Init, Claimed
<1> QED BY <1>2, <1>3, <1>4 DEF MInv, RowsAgreeWithStripe, RowsExist

\* Held payments are claimed for the salon, or for refunds a request then owes.
LEMMA ClaimStep ==
  ASSUME TypeOK, MInv, NEW o \in Orders, NEW s \in {"released", "refunded"}, ClaimHeld(o, s), returned' = returned,
         credited' = (IF s = "released" THEN CountUp(credited, IntentsOf(o, "held")) ELSE credited),
         \A h, g \in Handlers : h # g => job'[h].owed \subseteq job[h].owed \/ job'[g].owed \subseteq job[g].owed,
         \A h \in Handlers : /\ job'[h].pc = "record" => job'[h] = job[h]
                             /\ \/ job'[h].owed \subseteq job[h].owed
                                \/ s = "refunded" /\ job'[h].owed \subseteq IntentsOf(o, "held")
  PROVE  MInv'
<1> USE DEF MInv
<1>1. ASSUME NEW i \in Intents PROVE intent'[i].stripe = intent[i].stripe
                                     /\ (i \in IntentsOf(o, "held") => intent'[i].db = s)
                                     /\ (i \notin IntentsOf(o, "held") => intent'[i].db = intent[i].db)
  BY DEF ClaimHeld, TypeOK, Intent
<1>2. \A i \in IntentsOf(o, "held") : i \in Intents /\ intent[i].db = "held"
  BY DEF IntentsOf
<1>3. RowsAgreeWithStripe'
  BY <1>1, <1>2 DEF RowsAgreeWithStripe
<1>4. RowsExist'
  BY <1>1, <1>2 DEF RowsExist
<1>5. Recording'
  <2>1. ASSUME NEW h \in Handlers, job'[h].pc = "record", NEW i \in job'[h].todo
        PROVE  intent'[i].db = "none" /\ intent'[i].stripe # "none"
    <3>1. i \in Intents
      BY <2>1 DEF TypeOK, Job
    <3>2. intent[i].db = "none" /\ intent[i].stripe # "none"
      BY <2>1 DEF Recording
    <3> QED BY <1>1, <1>2, <3>1, <3>2
  <2> QED BY <2>1 DEF Recording
<1>6. Claimed'
  <2>1. \A i \in Intents : intent[i].db \in {"released", "refunded"} => intent'[i].db = intent[i].db
    BY <1>1, <1>2
  <2>2. ASSUME NEW i \in Intents PROVE credited'[i] = (IF intent'[i].db = "released" THEN 1 ELSE 0)
    <3>1. credited[i] = (IF intent[i].db = "released" THEN 1 ELSE 0)
      BY DEF Claimed
    <3>2. s = "released" => credited'[i] = IF i \in IntentsOf(o, "held") THEN credited[i] + 1 ELSE credited[i]
      BY CountType DEF TypeOK
    <3> QED BY <1>1, <1>2, <3>1, <3>2
  <2>3. \A i \in Intents : returned'[i] \in {0, 1} /\ (returned'[i] = 1 => intent'[i].db = "refunded")
    BY <2>1 DEF Claimed
  <2>4. \A i \in IntentsOf(o, "held") : returned[i] = 0 /\ \A h \in Handlers : i \notin job[h].owed
    BY <1>2 DEF Claimed
  <2>5. ASSUME NEW h \in Handlers, NEW i \in job'[h].owed PROVE intent'[i].db = "refunded" /\ returned'[i] = 0
    <3>1. CASE i \in job[h].owed
      BY <2>1, <3>1 DEF Claimed, TypeOK, Job
    <3>2. CASE i \notin job[h].owed
      BY <1>1, <1>2, <2>4, <2>5, <3>2
    <3> QED BY <3>1, <3>2
  <2>6. \A h, g \in Handlers : h # g => job'[h].owed \cap job'[g].owed = {}
    BY <2>4 DEF Claimed
  <2> QED BY <2>2, <2>3, <2>5, <2>6 DEF Claimed
<1> QED BY <1>3, <1>4, <1>5, <1>6

\* The payment created at Stripe is new, and becomes this request's to record.
LEMMA CreateStep ==
  ASSUME TypeOK, MInv, NEW h \in Handlers, NEW i \in Intents, CreatePaymentIntent(h, i)
  PROVE  MInv'
<1> USE DEF MInv
<1>1. intent[i].stripe = "none" /\ intent[i].db = "none"
  BY DEF CreatePaymentIntent, RowsExist
<1>2. intent'[i].db = "none" /\ intent'[i].stripe = "open"
  BY <1>1 DEF CreatePaymentIntent, TypeOK, Intent
<1>3. \A k \in Intents : k # i => intent'[k] = intent[k]
  BY DEF CreatePaymentIntent, TypeOK
<1>4. job'[h].todo = {i} /\ job'[h].owed = job[h].owed /\ \A g \in Handlers : g # h => job'[g] = job[g]
  BY DEF CreatePaymentIntent, Continue, TypeOK, Job
<1>5. RowsAgreeWithStripe' /\ RowsExist'
  BY <1>1, <1>2, <1>3 DEF RowsAgreeWithStripe, RowsExist
<1>6. \A g \in Handlers : g # h /\ job[g].pc = "record" => i \notin job[g].todo
  BY <1>1 DEF Recording
<1>7. Recording'
  <2>1. ASSUME NEW g \in Handlers, job'[g].pc = "record", NEW k \in job'[g].todo
        PROVE  intent'[k].db = "none" /\ intent'[k].stripe # "none"
    <3>1. CASE g = h
      BY <1>2, <1>4, <2>1, <3>1
    <3>2. CASE g # h
      <4>1. job[g].pc = "record" /\ k \in job[g].todo /\ k # i
        BY <1>4, <1>6, <2>1, <3>2
      <4>2. k \in Intents
        BY <4>1 DEF TypeOK, Job
      <4> QED BY <1>3, <4>1, <4>2 DEF Recording
    <3> QED BY <3>1, <3>2
  <2>2. ASSUME NEW g \in Handlers, NEW f \in Handlers, g # f, job'[g].pc = "record", job'[f].pc = "record"
        PROVE  job'[g].todo \cap job'[f].todo = {}
    BY <1>4, <1>6, <2>2 DEF Recording
  <2> QED BY <2>1, <2>2 DEF Recording
<1>8. Claimed'
  <2>1. \A k \in Intents : intent'[k].db = intent[k].db
    BY <1>1, <1>2, <1>3
  <2>2. \A g \in Handlers : job'[g].owed = job[g].owed /\ job[g].owed \subseteq Intents
    BY <1>4 DEF TypeOK, Job
  <2>3. UNCHANGED <<credited, returned>>
    BY DEF CreatePaymentIntent, money
  <2> QED BY <2>1, <2>2, <2>3 DEF Claimed
<1> QED BY <1>5, <1>7, <1>8

\* Recording a payment gives it its first row.
LEMMA RecordStep ==
  ASSUME TypeOK, MInv, NEW h \in Handlers, NEW i \in Intents, RecordPaymentIntent(h, i)
  PROVE  MInv'
<1> USE DEF MInv
<1>1. intent[i].db = "none" /\ intent[i].stripe # "none"
  BY DEF RecordPaymentIntent, Recording
<1>2. intent'[i].db = "pending" /\ intent'[i].stripe = intent[i].stripe
  BY DEF RecordPaymentIntent, TypeOK, Intent
<1>3. \A k \in Intents : k # i => intent'[k] = intent[k]
  BY DEF RecordPaymentIntent, TypeOK
<1>4. job'[h] = IdleJob /\ \A g \in Handlers : g # h => job'[g] = job[g]
  BY DEF RecordPaymentIntent, Done, Continue, TypeOK
<1>5. RowsAgreeWithStripe' /\ RowsExist'
  BY <1>1, <1>2, <1>3 DEF RowsAgreeWithStripe, RowsExist
<1>6. \A g \in Handlers : g # h /\ job[g].pc = "record" => i \notin job[g].todo
  BY DEF Recording, RecordPaymentIntent
<1>7. job'[h].pc = "idle" /\ job'[h].owed = {}
  <2>1. IdleJob.pc = "idle" /\ IdleJob.owed = {}
    BY DEF IdleJob
  <2> QED BY <1>4, <2>1
<1>8. Recording'
  <2>1. ASSUME NEW g \in Handlers, job'[g].pc = "record"
        PROVE  g # h /\ job'[g] = job[g] /\ i \notin job[g].todo
    BY <1>4, <1>6, <1>7, <2>1
  <2>2. ASSUME NEW g \in Handlers, job'[g].pc = "record", NEW k \in job'[g].todo
        PROVE  intent'[k].db = "none" /\ intent'[k].stripe # "none"
    <3>1. k \in Intents
      BY <2>1, <2>2 DEF TypeOK, Job
    <3> QED BY <1>3, <2>1, <2>2, <3>1 DEF Recording
  <2> QED BY <2>1, <2>2 DEF Recording
<1>9. Claimed'
  <2>1. \A k \in Intents : /\ intent[k].db \in {"released", "refunded"} => intent'[k].db = intent[k].db
                           /\ intent'[k].db = "released" => intent[k].db = "released"
    BY <1>1, <1>2, <1>3
  <2>2. \A g \in Handlers : job'[g].owed \subseteq job[g].owed /\ job[g].owed \subseteq Intents
    BY <1>4, <1>7 DEF TypeOK, Job
  <2>3. UNCHANGED <<credited, returned>>
    BY DEF RecordPaymentIntent, money
  <2>4. \A k \in Intents : /\ credited'[k] = (IF intent'[k].db = "released" THEN 1 ELSE 0)
                           /\ returned'[k] \in {0, 1}
                           /\ returned'[k] = 1 => intent'[k].db = "refunded"
    BY <2>1, <2>3 DEF Claimed
  <2>5. \A g \in Handlers : \A k \in job'[g].owed : intent'[k].db = "refunded" /\ returned'[k] = 0
    BY <2>1, <2>2, <2>3 DEF Claimed
  <2>6. \A g, f \in Handlers : g # f => job'[g].owed \cap job'[f].owed = {}
    BY <2>2 DEF Claimed
  <2> QED BY <2>4, <2>5, <2>6 DEF Claimed
<1> QED BY <1>5, <1>8, <1>9

LEMMA RefundStep ==
  ASSUME TypeOK, MInv, NEW h \in Handlers, NEW i \in Intents, RefundPayment(h, i)
  PROVE  MInv'
<1> USE DEF MInv
<1>1. i \in job[h].owed /\ intent[i].db = "refunded" /\ returned[i] = 0
  BY DEF RefundPayment, Claimed
<1>2. returned' \in {returned, CountUp(returned, {i})} /\ UNCHANGED <<intent, credited>>
  BY DEF RefundPayment
<1>3. /\ \A g \in Handlers : job'[g].owed \subseteq job[g].owed /\ job'[g].pc = job[g].pc /\ job'[g].todo = job[g].todo
      /\ i \notin job'[h].owed
  BY DEF RefundPayment, Continue, TypeOK, Job
<1>4. RowsAgreeWithStripe' /\ RowsExist'
  BY <1>2 DEF RowsAgreeWithStripe, RowsExist
<1>5. Recording'
  BY <1>2, <1>3 DEF Recording
<1>6. Claimed'
  <2>1. \A k \in Intents : returned'[k] = returned[k] \/ (k = i /\ returned'[k] = 1)
    BY <1>1, <1>2, CountType DEF TypeOK
  <2>2. \A k \in Intents : returned'[k] \in {0, 1} /\ (returned'[k] = 1 => intent'[k].db = "refunded")
    BY <1>1, <1>2, <2>1 DEF Claimed
  <2>3. ASSUME NEW g \in Handlers, NEW k \in job'[g].owed PROVE k # i /\ k \in job[g].owed /\ k \in Intents
    <3>1. k \in job[g].owed /\ job[g].owed \subseteq Intents
      BY <1>3, <2>3 DEF TypeOK, Job
    <3>2. CASE g = h
      BY <1>3, <2>3, <3>1, <3>2
    <3>3. CASE g # h
      BY <1>1, <3>1, <3>3 DEF Claimed
    <3> QED BY <3>1, <3>2, <3>3
  <2>4. \A g \in Handlers : \A k \in job'[g].owed : intent'[k].db = "refunded" /\ returned'[k] = 0
    BY <1>2, <2>1, <2>3 DEF Claimed
  <2>5. \A g, f \in Handlers : g # f => job'[g].owed \cap job'[f].owed = {}
    BY <1>3 DEF Claimed
  <2> QED BY <1>2, <2>2, <2>4, <2>5 DEF Claimed
<1> QED BY <1>4, <1>5, <1>6

-----------------------------------------------------------------------------
LEMMA MoneyStep == TypeOK /\ MInv /\ [Next]_vars => MInv'
<1> SUFFICES ASSUME TypeOK, MInv, [Next]_vars PROVE MInv'
  OBVIOUS
<1>0. CASE UNCHANGED vars
  BY <1>0, QuietStep, SameRows, SameJobs DEF vars
<1>1. ASSUME NEW h \in Handlers, HandlerStep(h) PROVE MInv'
  <2>1. CASE RefuseAlreadyPaid(h) \/ CancellationDone(h) \/ HandlerFails(h) \/ MoveOrder(h) \/ ReleaseOrder(h)
             \/ ConfirmFreeBooking(h) \/ RedeemGiftCard(h) \/ RedeemSession(h)
    <3>1. Done(h) /\ UNCHANGED <<intent, credited, returned>>
      BY <2>1 DEF RefuseAlreadyPaid, CancellationDone, HandlerFails, MoveOrder, ReleaseOrder, ConfirmFreeBooking,
                  RedeemGiftCard, RedeemSession, money
    <3> QED BY <3>1, QuietStep, SameRows, EndedJob
  <2>2. CASE GiveUpOrder(h) \/ PayWithSessions(h) \/ QuotePayment(h)
    <3>1. PICK next, gift : ClearAttempts(h, next, gift) /\ UNCHANGED <<intent, credited, returned>>
      BY <2>2 DEF GiveUpOrder, PayWithSessions, QuotePayment, money
    <3>2. QuietJobs
      BY <3>1, OtherJob DEF ClearAttempts, IdleJob
    <3> QED BY <3>1, <3>2, QuietStep, SameRows
  <2>3. CASE ListAttempts(h)
    <3>1. QuietJobs
      BY <2>3, OtherJob DEF ListAttempts, TypeOK, Job
    <3> QED BY <2>3, <3>1, QuietStep, SameRows DEF ListAttempts, money
  <2>7. CASE ListOutstanding(h)
    <3>1. QuietJobs
      BY <2>7, OtherJob DEF ListOutstanding, TypeOK, Job
    <3> QED BY <2>7, <3>1, QuietStep, SameRows DEF ListOutstanding, money
  <2>4. CASE AttemptsCleared(h)
    <3>1. job[h].then # "record"
      BY DEF TypeOK, Job, AfterClearing
    <3>2. QuietJobs
      BY <2>4, <3>1, OtherJob DEF AttemptsCleared, TypeOK, Job
    <3> QED BY <2>4, <3>2, QuietStep, SameRows DEF AttemptsCleared, money
  <2>5. ASSUME NEW i \in Intents, SettleOutstanding(h, i) PROVE MInv'
    <3>1. QuietJobs
      BY <2>5, OtherJob DEF SettleOutstanding, TypeOK, Job
    <3>2. QuietRows
      <4>1. CASE intent[i].stripe = "succeeded"
        BY <2>5, <4>1, SettleRows DEF SettleOutstanding
      <4>2. CASE intent[i].stripe # "succeeded"
        BY <2>5, <4>2, SameRows DEF SettleOutstanding
      <4> QED BY <4>1, <4>2
    <3> QED BY <2>5, <3>1, <3>2, QuietStep DEF SettleOutstanding, money
  <2>6. ASSUME NEW i \in Intents, CancelAttempt(h, i) PROVE MInv'
    <3>1. QuietJobs
      BY <2>6, OtherJob DEF CancelAttempt, TypeOK, Job
    <3>2. QuietRows
      BY <2>6 DEF CancelAttempt, QuietRows, TypeOK, Intent
    <3> QED BY <2>6, <3>1, <3>2, QuietStep DEF CancelAttempt, money
  <2> QED BY <1>1, <2>1, <2>2, <2>3, <2>4, <2>5, <2>6, <2>7, CreateStep, RecordStep, RefundStep DEF HandlerStep
<1>2. ASSUME NEW h \in Handlers, NEW o \in Orders, Request(h, o) PROVE MInv'
  <2>1. ASSUME NEW m \in Methods, StartPayment(h, o, m) PROVE MInv'
    <3>1. QuietJobs
      BY <2>1, OtherJob DEF StartPayment, SettlingJob, IdleJob
    <3> QED BY <2>1, <3>1, QuietStep, SameRows DEF StartPayment, money
  <2>2. CASE AbandonBooking(h, o)
    <3>1. QuietJobs
      BY <2>2, OtherJob DEF AbandonBooking, SettlingJob, IdleJob
    <3> QED BY <2>2, <3>1, QuietStep, SameRows DEF AbandonBooking, money
  <2>3. ASSUME NEW early \in BOOLEAN, CancelBooking(h, o, early) PROVE MInv'
    <3>1. \A g \in Handlers : g # h => job'[g] = job[g]
      BY <2>3 DEF CancelBooking, Continue, TypeOK
    <3>2. CASE early
      <4>1. job'[h].pc = "list" /\ job'[h].owed = IntentsOf(o, "held")
        BY <2>3, <3>2 DEF CancelBooking, Continue, CleanupJob, IdleJob, TypeOK
      <4> QED BY <2>3, <3>1, <3>2, <4>1, ClaimStep DEF CancelBooking
    <3>3. CASE ~early
      <4>1. job'[h].pc = "list" /\ job'[h].owed = {}
        BY <2>3, <3>3 DEF CancelBooking, Continue, CleanupJob, IdleJob, TypeOK
      <4> QED BY <2>3, <3>1, <3>3, <4>1, ClaimStep DEF CancelBooking
    <3> QED BY <3>2, <3>3
  <2>4. CASE CancelBookingBySalon(h, o)
    <3>1. \A g \in Handlers : g # h => job'[g] = job[g]
      BY <2>4 DEF CancelBookingBySalon, Continue, TypeOK
    <3>2. job'[h].pc = "list" /\ job'[h].owed = IntentsOf(o, "held")
      BY <2>4 DEF CancelBookingBySalon, Continue, CleanupJob, IdleJob, TypeOK
    <3> QED BY <2>4, <3>1, <3>2, ClaimStep DEF CancelBookingBySalon, money
  <2>5. CASE BeginMove(h, o)
    <3>1. QuietJobs
      BY <2>5, OtherJob DEF BeginMove, IdleJob
    <3> QED BY <2>5, <3>1, QuietStep, SameRows DEF BeginMove, money
  <2> QED BY <1>2, <2>1, <2>2, <2>3, <2>4, <2>5 DEF Request
<1>3. ASSUME NEW h \in Handlers, ServerExits(h) \/ Crash(h) PROVE MInv'
  <2>1. PICK S \in SUBSET Handlers : ServerEnds(S)
    BY <1>3 DEF ServerExits, Crash
  <2> QED BY <2>1, QuietStep, SameRows, EndedServer DEF ServerEnds
<1>4. ASSUME NEW o \in Orders, CreateBooking(o) \/ RescheduleBySalon(o) PROVE MInv'
  BY <1>4, QuietStep, SameRows, SameJobs DEF CreateBooking, RescheduleBySalon, money
<1>5. ASSUME NEW o \in Orders, HoldRunsOut(o) PROVE MInv'
  <2>1. QuietJobs
    BY <1>5 DEF HoldRunsOut, QuietJobs, TypeOK, Job
  <2> QED BY <1>5, <2>1, QuietStep, SameRows DEF HoldRunsOut, money
<1>6. ASSUME NEW o \in Orders, NEW out \in {"Completed", "No Show"}, Finish(o, out) PROVE MInv'
  BY <1>6, ClaimStep DEF Finish
<1>7. ASSUME NEW i \in Intents, ConfirmInBrowser(i) \/ StripeAnswers(i) PROVE MInv'
  <2>1. QuietRows
    BY <1>7 DEF ConfirmInBrowser, StripeAnswers, QuietRows, TypeOK, Intent
  <2> QED BY <1>7, <2>1, QuietStep, SameJobs DEF ConfirmInBrowser, StripeAnswers, money
<1>8. ASSUME NEW i \in Intents, SettlePaidIntent(i) PROVE MInv'
  BY <1>8, SettleRows, QuietStep, SameJobs DEF SettlePaidIntent, money
<1> QED BY <1>0, <1>1, <1>2, <1>3, <1>4, <1>5, <1>6, <1>7, <1>8 DEF Next

\* For any number of orders, payments and concurrent requests, and any crashes:
\* a row says held, released or refunded only when Stripe took the money, and a
\* payment whose row is cancelled can never be taken.
THEOREM RowsHold == Spec => []RowsAgreeWithStripe
<1>1. Init => TypeOK /\ MInv
  BY TypeInit, MoneyInit
<1>2. TypeOK /\ MInv /\ [Next]_vars => (TypeOK /\ MInv)'
  BY TypeStep, MoneyStep
<1>3. TypeOK /\ MInv => RowsAgreeWithStripe
  BY DEF MInv
<1> QED BY <1>1, <1>2, <1>3, PTL DEF Spec

\* A row only moves forward, one claim at a time: it is never taken back, and
\* nothing is claimed both for a refund and for the salon.
THEOREM RowsOnlyMoveForward == Spec => RowsMoveForward
<1> DEFINE Forward == \A i \in Intents : intent'[i].db = intent[i].db \/ <<intent[i].db, intent'[i].db>> \in RowMoves
<1>1. TypeOK /\ MInv /\ [Next]_vars => Forward
  <2> SUFFICES ASSUME TypeOK, MInv, [Next]_vars PROVE Forward
    OBVIOUS
  <2>1. ASSUME NEW i \in Intents, Settle(i) PROVE Forward
    BY <2>1 DEF Settle, RowMoves, TypeOK, Intent
  <2>2. ASSUME NEW o \in Orders, NEW s \in {"released", "refunded"}, ClaimHeld(o, s) PROVE Forward
    BY <2>2 DEF ClaimHeld, IntentsOf, RowMoves, TypeOK, Intent
  <2>3. ASSUME NEW h \in Handlers, NEW i \in Intents, RecordPaymentIntent(h, i) PROVE Forward
    <3>1. intent[i].db = "none"
      BY <2>3 DEF RecordPaymentIntent, MInv, Recording
    <3> QED BY <2>3, <3>1 DEF RecordPaymentIntent, RowMoves, TypeOK, Intent
  <2>4. ASSUME NEW h \in Handlers, NEW i \in Intents, CancelAttempt(h, i) PROVE Forward
    BY <2>4 DEF CancelAttempt, RowMoves, TypeOK, Intent
  <2>5. ASSUME NEW h \in Handlers, NEW i \in Intents, CreatePaymentIntent(h, i) PROVE Forward
    BY <2>5 DEF CreatePaymentIntent, TypeOK, Intent
  <2>6. ASSUME NEW i \in Intents, ConfirmInBrowser(i) \/ StripeAnswers(i) PROVE Forward
    <3>1. \A k \in Intents : intent'[k].db = intent[k].db
      <4>1. CASE ConfirmInBrowser(i)
        BY <4>1 DEF ConfirmInBrowser, TypeOK, Intent
      <4>2. CASE StripeAnswers(i)
        BY <4>2 DEF StripeAnswers, TypeOK, Intent
      <4> QED BY <2>6, <4>1, <4>2
    <3> QED BY <3>1
  <2>7. CASE UNCHANGED intent
    BY <2>7
  <2>8. CASE UNCHANGED vars
    BY <2>8 DEF vars
  <2>9. ASSUME NEW h \in Handlers, HandlerStep(h) PROVE Forward
    <3>1. ASSUME NEW i \in Intents, SettleOutstanding(h, i) PROVE Forward
      BY <2>1, <2>7, <3>1 DEF SettleOutstanding
    <3>2. ASSUME NEW i \in Intents, RefundPayment(h, i) PROVE Forward
      BY <2>7, <3>2 DEF RefundPayment
    <3>3. CASE \/ RefuseAlreadyPaid(h) \/ GiveUpOrder(h) \/ PayWithSessions(h) \/ ConfirmFreeBooking(h) \/ QuotePayment(h)
               \/ ListOutstanding(h) \/ ListAttempts(h) \/ AttemptsCleared(h) \/ RedeemGiftCard(h) \/ RedeemSession(h) \/ ReleaseOrder(h)
               \/ CancellationDone(h) \/ MoveOrder(h) \/ HandlerFails(h)
      BY <2>7, <3>3 DEF RefuseAlreadyPaid, GiveUpOrder, PayWithSessions, ConfirmFreeBooking, QuotePayment, ListOutstanding, ListAttempts,
                        AttemptsCleared, RedeemGiftCard, RedeemSession, ReleaseOrder, CancellationDone, MoveOrder, HandlerFails
    <3> QED BY <2>3, <2>4, <2>5, <2>9, <3>1, <3>2, <3>3 DEF HandlerStep
  <2>10. ASSUME NEW h \in Handlers, NEW o \in Orders, Request(h, o) PROVE Forward
    <3>1. ASSUME NEW early \in BOOLEAN, CancelBooking(h, o, early) PROVE Forward
      BY <2>2, <3>1 DEF CancelBooking
    <3>2. CASE CancelBookingBySalon(h, o)
      BY <2>2, <3>2 DEF CancelBookingBySalon
    <3> QED BY <2>7, <2>10, <3>1, <3>2 DEF Request, StartPayment, AbandonBooking, BeginMove
  <2>11. ASSUME NEW o \in Orders, NEW out \in {"Completed", "No Show"}, Finish(o, out) PROVE Forward
    BY <2>2, <2>11 DEF Finish
  <2> QED BY <2>1, <2>6, <2>7, <2>8, <2>9, <2>10, <2>11 DEF Next, ServerExits, Crash, ServerEnds, CreateBooking, HoldRunsOut, RescheduleBySalon, SettlePaidIntent
<1>2. Init => TypeOK /\ MInv
  BY TypeInit, MoneyInit
<1>3. TypeOK /\ MInv /\ [Next]_vars => (TypeOK /\ MInv)'
  BY TypeStep, MoneyStep
<1> QED BY <1>1, <1>2, <1>3, PTL DEF Spec, RowsMoveForward, Forward

-----------------------------------------------------------------------------
(* Escrow is implemented. *)


Places == [i \in Intents |-> Place(i)]

\* Exactly where the money is, in terms of the rows.
LEMMA WhereMoneyIs ==
  ASSUME TypeOK, MInv, NEW i \in Intents
  PROVE  /\ credited[i] + returned[i] \in {0, 1}
         /\ credited[i] + returned[i] = 1 => intent[i].stripe = "succeeded"
         /\ intent[i].db = "held" => Place(i) = "kept" /\ credited[i] = 0 /\ returned[i] = 0
         /\ intent[i].db = "refunded" => credited[i] = 0
<1>1. credited[i] = (IF intent[i].db = "released" THEN 1 ELSE 0)
  BY DEF MInv, Claimed
<1>2. returned[i] \in {0, 1} /\ (returned[i] = 1 => intent[i].db = "refunded")
  BY DEF MInv, Claimed
<1>3. intent[i].db \in {"held", "released", "refunded"} => intent[i].stripe = "succeeded"
  BY DEF MInv, RowsAgreeWithStripe
<1> QED BY <1>1, <1>2, <1>3 DEF Place

EscrowStep == Money!Next \/ Places' = Places

\* Nothing Stripe took changes, and nothing is given back or paid out.
LEMMA StillStep ==
  ASSUME UNCHANGED <<credited, returned>>,
         \A i \in Intents : (intent'[i].stripe = "succeeded") <=> (intent[i].stripe = "succeeded")
  PROVE  EscrowStep
<1>1. \A i \in Intents : Place(i)' = Place(i)
  BY DEF Place
<1> QED BY <1>1 DEF EscrowStep, Places

\* Paying out what an order held.
LEMMA PayOutStep ==
  ASSUME TypeOK, MInv, NEW o \in Orders, ClaimHeld(o, "released"), returned' = returned,
         credited' = CountUp(credited, IntentsOf(o, "held"))
  PROVE  EscrowStep
<1> DEFINE S == IntentsOf(o, "held")
<1>1. S \subseteq Intents /\ \A i \in S : Place(i) = "kept" /\ credited[i] = 0 /\ returned[i] = 0
  BY WhereMoneyIs DEF IntentsOf
<1>2. \A i \in Intents : intent'[i].stripe = intent[i].stripe
  BY DEF ClaimHeld, TypeOK, Intent
<1>3. \A i \in Intents : credited'[i] = IF i \in S THEN credited[i] + 1 ELSE credited[i]
  BY CountType DEF TypeOK
<1>4. ASSUME NEW i \in Intents PROVE Place(i)' = IF i \in S THEN "salon" ELSE Place(i)
  <2>1. CASE i \in S
    <3>1. credited'[i] = 1 /\ returned'[i] = 0
      BY <1>1, <1>3, <2>1
    <3> QED BY <2>1, <3>1 DEF Place
  <2>2. CASE i \notin S
    BY <1>2, <1>3, <2>2 DEF Place
  <2> QED BY <2>1, <2>2
<1>5. Money!PayOut(S)
  <2> HIDE DEF S
  <2> QED BY <1>1, <1>4 DEF Money!PayOut, Money!Move
<1> QED BY <1>1, <1>5 DEF EscrowStep, Money!Next

\* Giving one payment back that was not given back before.
LEMMA ReturnStep ==
  ASSUME TypeOK, MInv, NEW i \in Intents, intent[i].db = "refunded", returned[i] = 0, UNCHANGED <<intent, credited>>,
         returned' = CountUp(returned, {i})
  PROVE  EscrowStep
<1>1. credited[i] = 0 /\ intent[i].stripe = "succeeded"
  BY WhereMoneyIs DEF MInv, RowsAgreeWithStripe
<1>2. returned'[i] = 1 /\ \A k \in Intents : k # i => returned'[k] = returned[k]
  BY CountType DEF TypeOK
<1>3. Place(i) = "kept" /\ Place(i)' = "returned"
  BY <1>1, <1>2 DEF Place
<1>4. \A k \in Intents : k # i => Place(k)' = Place(k)
  BY <1>2 DEF Place
<1>5. Money!Return(i)
  BY <1>3, <1>4 DEF Money!Return, Money!Move
<1> QED BY <1>5 DEF EscrowStep, Money!Next

\* Stripe takes the money, or the customer may try again.
LEMMA TakeStep ==
  ASSUME TypeOK, MInv, NEW i \in Intents, StripeAnswers(i)
  PROVE  EscrowStep
<1>1. UNCHANGED <<credited, returned>>
  BY DEF StripeAnswers, money
<1>2. intent'[i].stripe \in {"succeeded", "open"} /\ intent[i].stripe = "processing"
  BY DEF StripeAnswers, TypeOK, Intent
<1>3. \A k \in Intents : k # i => intent'[k] = intent[k]
  BY DEF StripeAnswers, TypeOK
<1>4. CASE intent'[i].stripe = "open"
  BY <1>1, <1>2, <1>3, <1>4, StillStep
<1>5. CASE intent'[i].stripe = "succeeded"
  <2>1. credited[i] + returned[i] = 0 /\ credited[i] = 0 /\ returned[i] = 0
    BY <1>2, WhereMoneyIs DEF TypeOK
  <2>2. Place(i) = "customer" /\ Place(i)' = "kept"
    BY <1>1, <1>2, <1>5, <2>1 DEF Place
  <2>3. \A k \in Intents : k # i => Place(k)' = Place(k)
    BY <1>1, <1>3 DEF Place
  <2>4. Money!Take(i)
    BY <2>2, <2>3 DEF Money!Take, Money!Move
  <2> QED BY <2>4 DEF EscrowStep, Money!Next
<1> QED BY <1>2, <1>4, <1>5

LEMMA EscrowSteps == TypeOK /\ MInv /\ [Next]_vars => EscrowStep
<1> SUFFICES ASSUME TypeOK, MInv, [Next]_vars PROVE EscrowStep
  OBVIOUS
<1> DEFINE SameAtStripe == \A i \in Intents : (intent'[i].stripe = "succeeded") <=> (intent[i].stripe = "succeeded")
<1>1. ASSUME NEW i \in Intents, Settle(i) PROVE SameAtStripe
  BY <1>1 DEF Settle, TypeOK, Intent
<1>2. ASSUME NEW o \in Orders, NEW s \in {"released", "refunded"}, ClaimHeld(o, s) PROVE SameAtStripe
  BY <1>2 DEF ClaimHeld, TypeOK, Intent
<1>3. CASE UNCHANGED vars
  BY <1>3, StillStep DEF vars
<1>4. ASSUME NEW h \in Handlers, HandlerStep(h) PROVE EscrowStep
  <2>1. ASSUME NEW i \in Intents, SettleOutstanding(h, i) PROVE EscrowStep
    BY <1>1, <2>1, StillStep DEF SettleOutstanding, money
  <2>2. ASSUME NEW i \in Intents, CancelAttempt(h, i) PROVE EscrowStep
    <3>1. SameAtStripe
      BY <2>2 DEF CancelAttempt, TypeOK, Intent
    <3> QED BY <2>2, <3>1, StillStep DEF CancelAttempt, money
  <2>3. ASSUME NEW i \in Intents, CreatePaymentIntent(h, i) \/ RecordPaymentIntent(h, i) PROVE EscrowStep
    <3>1. SameAtStripe
      BY <2>3 DEF CreatePaymentIntent, RecordPaymentIntent, TypeOK, Intent
    <3> QED BY <2>3, <3>1, StillStep DEF CreatePaymentIntent, RecordPaymentIntent, money
  <2>4. ASSUME NEW i \in Intents, RefundPayment(h, i) PROVE EscrowStep
    <3>1. intent[i].db = "refunded" /\ returned[i] = 0 /\ UNCHANGED <<intent, credited>>
      BY <2>4 DEF RefundPayment, MInv, Claimed
    <3>2. returned' = CountUp(returned, {i}) \/ UNCHANGED returned
      BY <2>4 DEF RefundPayment
    <3> QED BY <3>1, <3>2, ReturnStep, StillStep
  <2>5. CASE \/ RefuseAlreadyPaid(h) \/ GiveUpOrder(h) \/ PayWithSessions(h) \/ ConfirmFreeBooking(h) \/ QuotePayment(h)
             \/ ListOutstanding(h) \/ ListAttempts(h) \/ AttemptsCleared(h) \/ RedeemGiftCard(h) \/ RedeemSession(h) \/ ReleaseOrder(h)
             \/ CancellationDone(h) \/ MoveOrder(h) \/ HandlerFails(h)
    <3>1. UNCHANGED <<intent, credited, returned>>
      BY <2>5 DEF RefuseAlreadyPaid, GiveUpOrder, PayWithSessions, ConfirmFreeBooking, QuotePayment, ListOutstanding, ListAttempts, AttemptsCleared,
                  RedeemGiftCard, RedeemSession, ReleaseOrder, CancellationDone, MoveOrder, HandlerFails, money
    <3> QED BY <3>1, StillStep
  <2> QED BY <1>4, <2>1, <2>2, <2>3, <2>4, <2>5 DEF HandlerStep
<1>5. ASSUME NEW h \in Handlers, NEW o \in Orders, Request(h, o) PROVE EscrowStep
  <2>1. ASSUME NEW early \in BOOLEAN, CancelBooking(h, o, early) PROVE EscrowStep
    <3>1. CASE early
      BY <1>2, <2>1, <3>1, StillStep DEF CancelBooking
    <3>2. CASE ~early
      BY <2>1, <3>2, PayOutStep DEF CancelBooking
    <3> QED BY <3>1, <3>2
  <2>2. CASE CancelBookingBySalon(h, o)
    BY <1>2, <2>2, StillStep DEF CancelBookingBySalon, money
  <2>3. CASE AbandonBooking(h, o) \/ BeginMove(h, o) \/ \E m \in Methods : StartPayment(h, o, m)
    BY <2>3, StillStep DEF StartPayment, AbandonBooking, BeginMove, money
  <2> QED BY <1>5, <2>1, <2>2, <2>3 DEF Request
<1>6. ASSUME NEW o \in Orders, NEW out \in {"Completed", "No Show"}, Finish(o, out) PROVE EscrowStep
  BY <1>6, PayOutStep DEF Finish
<1>7. ASSUME NEW h \in Handlers, ServerExits(h) \/ Crash(h) PROVE EscrowStep
  BY <1>7, StillStep DEF ServerExits, Crash, ServerEnds
<1>8. ASSUME NEW o \in Orders, CreateBooking(o) \/ HoldRunsOut(o) \/ RescheduleBySalon(o) PROVE EscrowStep
  BY <1>8, StillStep DEF CreateBooking, HoldRunsOut, RescheduleBySalon, money
<1>9. ASSUME NEW i \in Intents, ConfirmInBrowser(i) PROVE EscrowStep
  <2>1. SameAtStripe
    BY <1>9 DEF ConfirmInBrowser, TypeOK, Intent
  <2> QED BY <1>9, <2>1, StillStep DEF ConfirmInBrowser, money
<1>10. ASSUME NEW i \in Intents, SettlePaidIntent(i) PROVE EscrowStep
  BY <1>1, <1>10, StillStep DEF SettlePaidIntent, money
<1> QED BY <1>3, <1>4, <1>5, <1>6, <1>7, <1>8, <1>9, <1>10, TakeStep DEF Next

\* For any number of orders, payments and requests: a payment's money is taken
\* once, kept, and then either given back or paid to the salon, never both.
THEOREM EscrowImplemented == Spec => EscrowKept
<1>1. Init => Money!Init
  BY DEF Init, Money!Init, Place
<1>2. TypeOK /\ MInv /\ [Next]_vars => [Money!Next]_[i \in Intents |-> Place(i)]
  BY EscrowSteps DEF EscrowStep, Places
<1>3. Init => TypeOK /\ MInv
  BY TypeInit, MoneyInit
<1>4. TypeOK /\ MInv /\ [Next]_vars => (TypeOK /\ MInv)'
  BY TypeStep, MoneyStep
<1> QED BY <1>1, <1>2, <1>3, <1>4, PTL DEF Spec, EscrowKept, Money!Spec

-----------------------------------------------------------------------------
(* The bookings. *)

BInv == ConfirmedIsBacked /\ FinishedIsSettled

LEMMA BookingInit == Init => BInv
BY DEF Init, BInv, ConfirmedIsBacked, FinishedIsSettled

Finished == {"Completed", "No Show"}
SameHeld == \A i \in Intents : intent'[i].db = "held" <=> intent[i].db = "held"

\* A step that confirms and finishes nothing, and leaves what is held alone.
LEMMA BookingQuiet ==
  ASSUME BInv, SameHeld,
         \A o \in Orders : /\ status'[o] = "Confirmed" => status[o] = "Confirmed" /\ (o \in covered => o \in covered')
                           /\ status'[o] \in Finished => status[o] = status'[o]
  PROVE  BInv'
<1>1. \A o \in Orders : IntentsOf(o, "held")' = IntentsOf(o, "held")
  BY DEF IntentsOf, SameHeld
<1> QED BY <1>1 DEF BInv, ConfirmedIsBacked, FinishedIsSettled, Finished

\* A step that confirms one order without a card payment.
LEMMA BookingConfirmed ==
  ASSUME TypeOK, BInv, NEW o \in Orders, UNCHANGED intent,
         (ConfirmByCard(o) /\ Price[o] = 0) \/ ConfirmCovered(o)
  PROVE  BInv'
<1>1. \A p \in Orders : IntentsOf(p, "held")' = IntentsOf(p, "held")
  BY DEF IntentsOf
<1>2. \A p \in Orders : p # o => status'[p] = status[p]
  BY DEF ConfirmByCard, ConfirmCovered, ConfirmOrder, TypeOK
<1>3. covered \subseteq covered'
  BY DEF ConfirmByCard, ConfirmCovered
<1>4. CASE status[o] \in {"Cancelled", "None"}
  BY <1>1, <1>3, <1>4 DEF ConfirmByCard, ConfirmCovered, ConfirmOrder, BInv, ConfirmedIsBacked, FinishedIsSettled
<1>5. CASE status[o] \notin {"Cancelled", "None"}
  <2>1. status'[o] = "Confirmed" /\ (Price[o] = 0 \/ o \in covered')
    BY <1>5 DEF ConfirmByCard, ConfirmCovered, ConfirmOrder, TypeOK
  <2> QED BY <1>1, <1>2, <1>3, <2>1 DEF BInv, ConfirmedIsBacked, FinishedIsSettled
<1> QED BY <1>4, <1>5

\* Settling holds the payment and confirms its order in one transaction.
LEMMA BookingSettled ==
  ASSUME TypeOK, BInv, NEW i \in Intents, Settle(i)
  PROVE  BInv'
<1>1. CASE intent[i].db # "pending"
  BY <1>1, BookingQuiet DEF Settle, SameHeld, order, Finished
<1>2. CASE intent[i].db = "pending"
  <2> DEFINE o == OrderOf[i]
  <2>1. o \in Orders
    BY PaymentAssumptions
  <2>2. intent'[i].db = "held" /\ \A k \in Intents : k # i => intent'[k] = intent[k]
    BY <1>2 DEF Settle, TypeOK, Intent
  <2>3. covered' = covered /\ ConfirmOrder(o)
    BY <1>2 DEF Settle, ConfirmByCard
  <2>4. i \in IntentsOf(o, "held")' /\ \A p \in Orders : IntentsOf(p, "held") \subseteq IntentsOf(p, "held")'
    BY <1>2, <2>2 DEF IntentsOf
  <2>5. \A p \in Orders : p # o => IntentsOf(p, "held")' = IntentsOf(p, "held") /\ status'[p] = status[p]
    BY <1>2, <2>2, <2>3 DEF IntentsOf, ConfirmOrder, TypeOK
  <2>6. status'[o] \in {"Confirmed", "Cancelled", "None"}
    BY <2>1, <2>3 DEF ConfirmOrder, TypeOK
  <2> HIDE DEF o
  <2> QED BY <2>3, <2>4, <2>5, <2>6 DEF BInv, ConfirmedIsBacked, FinishedIsSettled
<1> QED BY <1>1, <1>2

\* Claiming what an order held takes it out of Confirmed.
LEMMA BookingClaimed ==
  ASSUME TypeOK, BInv, NEW o \in Orders, NEW s \in {"released", "refunded"}, ClaimHeld(o, s), UNCHANGED covered,
         NEW t \in Finished \union {"Cancelled"}, status' = [status EXCEPT ![o] = t]
  PROVE  BInv'
<1>1. \A i \in Intents : intent'[i].db = IF i \in IntentsOf(o, "held") THEN s ELSE intent[i].db
  BY DEF ClaimHeld, TypeOK, Intent
<1>2. IntentsOf(o, "held")' = {}
  BY <1>1 DEF IntentsOf
<1>3. \A p \in Orders : p # o => IntentsOf(p, "held")' = IntentsOf(p, "held") /\ status'[p] = status[p]
  BY <1>1 DEF IntentsOf, TypeOK
<1>4. status'[o] = t
  BY DEF TypeOK
<1> QED BY <1>2, <1>3, <1>4 DEF BInv, ConfirmedIsBacked, FinishedIsSettled, Finished

LEMMA BookingStep == TypeOK /\ MInv /\ BInv /\ [Next]_vars => BInv'
<1> SUFFICES ASSUME TypeOK, MInv, BInv, [Next]_vars PROVE BInv'
  OBVIOUS
<1>1. ASSUME UNCHANGED <<status, covered, intent>> PROVE BInv'
  BY <1>1, BookingQuiet DEF SameHeld
<1>2. ASSUME UNCHANGED <<status, covered>>, SameHeld PROVE BInv'
  BY <1>2, BookingQuiet
<1>3. CASE UNCHANGED vars
  BY <1>1, <1>3 DEF vars
<1>4. ASSUME NEW h \in Handlers, HandlerStep(h) PROVE BInv'
  <2>0. job[h].order \in Orders
    BY DEF TypeOK, Job
  <2>1. CASE \/ RefuseAlreadyPaid(h) \/ GiveUpOrder(h) \/ PayWithSessions(h) \/ QuotePayment(h) \/ ListOutstanding(h) \/ ListAttempts(h)
             \/ AttemptsCleared(h) \/ CancellationDone(h) \/ HandlerFails(h)
    BY <1>1, <2>1 DEF RefuseAlreadyPaid, GiveUpOrder, PayWithSessions, QuotePayment, ListOutstanding, ListAttempts, AttemptsCleared,
                      CancellationDone, HandlerFails, order
  <2>2. CASE ConfirmFreeBooking(h)
    BY <2>0, <2>2, BookingConfirmed DEF ConfirmFreeBooking
  <2>3. CASE RedeemGiftCard(h)
    <3>1. CASE giftLeft >= Price[job[h].order]
      BY <2>0, <2>3, <3>1, BookingConfirmed DEF RedeemGiftCard
    <3>2. CASE ~(giftLeft >= Price[job[h].order])
      BY <1>1, <2>3, <3>2 DEF RedeemGiftCard, order
    <3> QED BY <3>1, <3>2
  <2>4. CASE RedeemSession(h)
    <3>1. CASE sessions >= 1
      BY <2>0, <2>4, <3>1, BookingConfirmed DEF RedeemSession
    <3>2. CASE ~(sessions >= 1)
      BY <1>1, <2>4, <3>2 DEF RedeemSession, order
    <3> QED BY <3>1, <3>2
  <2>5. CASE ReleaseOrder(h)
    BY <2>5, BookingQuiet DEF ReleaseOrder, SameHeld, Finished, TypeOK
  <2>6. CASE MoveOrder(h)
    BY <2>0, <2>6, BookingQuiet DEF MoveOrder, SameHeld, Finished, StillBooked, TypeOK
  <2>7. ASSUME NEW i \in Intents, SettleOutstanding(h, i) PROVE BInv'
    BY <1>1, <2>7, BookingSettled DEF SettleOutstanding, order
  <2>8. ASSUME NEW i \in Intents, CancelAttempt(h, i) PROVE BInv'
    <3>1. SameHeld
      BY <2>8 DEF CancelAttempt, SameHeld, TypeOK, Intent
    <3> QED BY <1>2, <2>8, <3>1 DEF CancelAttempt, order
  <2>9. ASSUME NEW i \in Intents, CreatePaymentIntent(h, i) PROVE BInv'
    <3>1. SameHeld
      BY <2>9 DEF CreatePaymentIntent, SameHeld, TypeOK, Intent
    <3> QED BY <1>2, <2>9, <3>1 DEF CreatePaymentIntent, order
  <2>10. ASSUME NEW i \in Intents, RecordPaymentIntent(h, i) PROVE BInv'
    <3>1. intent[i].db = "none"
      BY <2>10 DEF RecordPaymentIntent, MInv, Recording
    <3>2. SameHeld
      BY <2>10, <3>1 DEF RecordPaymentIntent, SameHeld, TypeOK, Intent
    <3> QED BY <1>2, <2>10, <3>2 DEF RecordPaymentIntent, order
  <2>11. ASSUME NEW i \in Intents, RefundPayment(h, i) PROVE BInv'
    BY <1>1, <2>11 DEF RefundPayment, order
  <2> QED BY <1>4, <2>1, <2>2, <2>3, <2>4, <2>5, <2>6, <2>7, <2>8, <2>9, <2>10, <2>11 DEF HandlerStep
<1>5. ASSUME NEW h \in Handlers, NEW o \in Orders, Request(h, o) PROVE BInv'
  <2>1. ASSUME NEW early \in BOOLEAN, CancelBooking(h, o, early) PROVE BInv'
    <3>1. CASE early
      BY <2>1, <3>1, BookingClaimed DEF CancelBooking
    <3>2. CASE ~early
      BY <2>1, <3>2, BookingClaimed DEF CancelBooking
    <3> QED BY <3>1, <3>2
  <2>2. CASE CancelBookingBySalon(h, o)
    BY <2>2, BookingClaimed DEF CancelBookingBySalon
  <2>3. CASE AbandonBooking(h, o) \/ BeginMove(h, o) \/ \E m \in Methods : StartPayment(h, o, m)
    BY <1>1, <2>3 DEF StartPayment, AbandonBooking, BeginMove, order
  <2> QED BY <1>5, <2>1, <2>2, <2>3 DEF Request
<1>6. ASSUME NEW o \in Orders, NEW out \in {"Completed", "No Show"}, Finish(o, out) PROVE BInv'
  BY <1>6, BookingClaimed DEF Finish, Finished
<1>7. ASSUME NEW h \in Handlers, ServerExits(h) \/ Crash(h) PROVE BInv'
  BY <1>1, <1>7 DEF ServerExits, Crash, ServerEnds, order
<1>8. ASSUME NEW o \in Orders, HoldRunsOut(o) PROVE BInv'
  BY <1>1, <1>8 DEF HoldRunsOut
<1>9. ASSUME NEW o \in Orders, CreateBooking(o) \/ RescheduleBySalon(o) PROVE BInv'
  BY <1>9, BookingQuiet DEF CreateBooking, RescheduleBySalon, SameHeld, Finished, TypeOK
<1>10. ASSUME NEW i \in Intents, ConfirmInBrowser(i) \/ StripeAnswers(i) PROVE BInv'
  <2>1. SameHeld
    BY <1>10 DEF ConfirmInBrowser, StripeAnswers, SameHeld, TypeOK, Intent
  <2> QED BY <1>2, <1>10, <2>1 DEF ConfirmInBrowser, StripeAnswers, order
<1>11. ASSUME NEW i \in Intents, SettlePaidIntent(i) PROVE BInv'
  BY <1>11, BookingSettled DEF SettlePaidIntent
<1> QED BY <1>3, <1>4, <1>5, <1>6, <1>7, <1>8, <1>9, <1>10, <1>11 DEF Next

\* For any number of orders, payments, requests and crashes: a Confirmed booking
\* is backed by held money, a gift card, a session or a price of nothing, and a
\* finished one leaves no card payment held.
THEOREM BookingsHold == Spec => [](ConfirmedIsBacked /\ FinishedIsSettled)
<1>1. Init => TypeOK /\ MInv /\ BInv
  BY TypeInit, MoneyInit, BookingInit
<1>2. TypeOK /\ MInv /\ BInv /\ [Next]_vars => (TypeOK /\ MInv /\ BInv)'
  BY TypeStep, MoneyStep, BookingStep
<1>3. BInv => ConfirmedIsBacked /\ FinishedIsSettled
  BY DEF BInv
<1> QED BY <1>1, <1>2, <1>3, PTL DEF Spec
=============================================================================
