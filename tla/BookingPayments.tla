---------------------------- MODULE BookingPayments ----------------------------
(***************************************************************************)
(* Paying for a booking, and what happens to the money afterwards.         *)
(*                                                                         *)
(* An order is every appointment sharing one order id; every handler acts  *)
(* on all of its rows at once, so it has one status here.  Its card        *)
(* payments are Stripe payment intents, each with a row of                 *)
(* stripe_payment_intents ("db") and a life of its own at Stripe           *)
(* ("stripe").  A handler is one HTTP request being served.  Each of its   *)
(* database transactions and each of its Stripe calls is one action, so    *)
(* two requests, a webhook and the customer's browser interleave wherever  *)
(* the code awaits.                                                        *)
(***************************************************************************)
EXTENDS Integers

CONSTANTS
  Orders,       \* order ids
  Intents,      \* Stripe payment intents that may be created
  OrderOf,      \* the order in each intent's metadata
  Handlers,     \* requests that may be served at once
  Price,        \* each order's service total
  GiftValue,    \* what is on the customer's gift card at the start
  Sessions,     \* what is left on the customer's membership at the start
  MaxCrashes    \* server crashes considered (a bound of the model)

ASSUME PaymentAssumptions ==
  /\ Orders # {}
  /\ OrderOf \in [Intents -> Orders]
  /\ Price \in [Orders -> Nat]
  /\ GiftValue \in Nat
  /\ Sessions \in Nat
  /\ MaxCrashes \in Nat

VARIABLES
  status,     \* of each order's appointments
  paid,       \* orders whose appointments say Paid
  live,       \* orders whose unpaid hold has not run out
  covered,    \* orders confirmed by a gift card or membership session alone
  intent,     \* each card payment, in the database and at Stripe
  returned,   \* how often Stripe has refunded each intent to the customer
  credited,   \* how often each intent's money was paid into the salon's wallet
  alerted,    \* intents whose failed refund was reported to KHS
  cutOff,     \* intents whose refund was still to be made when the server ended (history)
  giftLeft,   \* remainingAmount of the gift card
  sessions,   \* remainingSessions of the membership
  job,        \* what each handler is doing
  crashes     \* crashes so far

vars == <<status, paid, live, covered, intent, returned, credited, alerted, cutOff, giftLeft, sessions, job, crashes>>
order == <<status, paid, live, covered>>
money == <<returned, credited, alerted, cutOff>>
prepaid == <<giftLeft, sessions>>

OrderStatus == {"None", "Pending", "Confirmed", "Rescheduled", "Cancelled", "Completed", "No Show"}
StillBooked == {"Pending", "Confirmed", "Rescheduled"}
RowStatus == {"none", "pending", "held", "released", "refunded", "cancelled"}
StripeStatus == {"none", "open", "processing", "succeeded", "canceled"}
Methods == {"card", "gift", "membership"}
Moves == {"keep paid", "hold afresh", "bring back"}
AfterClearing == {"idle", "charge", "redeem gift", "redeem session", "release", "refund"}
Steps == AfterClearing \union {"outstanding", "settle", "list", "cancelling", "record", "move"}

Intent == [db : RowStatus, stripe : StripeStatus, gift : Nat]

\* What a handler is at, where it goes on after clearing earlier attempts, its
\* order, why it was called (as decided from the rows it read), the attempts
\* still to look at, those found paid, the refunds it still owes, and the gift
\* card's part of the quote.
Job == [pc : Steps, then : AfterClearing, order : Orders, for : Methods \union Moves \union {"give up"},
        todo : SUBSET Intents, found : SUBSET Intents, owed : SUBSET Intents, gift : Nat]

IdleJob == [pc |-> "idle", then |-> "idle", order |-> CHOOSE o \in Orders : TRUE, for |-> "give up",
            todo |-> {}, found |-> {}, owed |-> {}, gift |-> 0]

TypeOK ==
  /\ status \in [Orders -> OrderStatus]
  /\ paid \subseteq Orders
  /\ live \subseteq Orders
  /\ covered \subseteq Orders
  /\ intent \in [Intents -> Intent]
  /\ returned \in [Intents -> Nat]
  /\ credited \in [Intents -> Nat]
  /\ alerted \subseteq Intents
  /\ cutOff \subseteq Intents
  /\ giftLeft \in Nat
  /\ sessions \in Nat
  /\ job \in [Handlers -> Job]
  /\ crashes \in 0..MaxCrashes

Init ==
  /\ status = [o \in Orders |-> "None"]
  /\ paid = {} /\ live = {} /\ covered = {}
  /\ intent = [i \in Intents |-> [db |-> "none", stripe |-> "none", gift |-> 0]]
  /\ returned = [i \in Intents |-> 0]
  /\ credited = [i \in Intents |-> 0]
  /\ alerted = {} /\ cutOff = {}
  /\ giftLeft = GiftValue
  /\ sessions = Sessions
  /\ job = [h \in Handlers |-> IdleJob]
  /\ crashes = 0

-----------------------------------------------------------------------------
(* The parts the handlers share. *)

IntentsOf(o, s) == {i \in Intents : OrderOf[i] = o /\ intent[i].db = s}
Lesser(a, b) == IF a <= b THEN a ELSE b

IsOrderConfirmed(o) == status[o] \in {"Confirmed", "Completed"}

\* confirmOrder: confirmed and paid, unless it was cancelled.
ConfirmOrder(o) ==
  /\ UNCHANGED live
  /\ IF status[o] \in {"Cancelled", "None"}
     THEN UNCHANGED <<status, paid>>
     ELSE status' = [status EXCEPT ![o] = "Confirmed"] /\ paid' = paid \union {o}

ConfirmByCard(o) == ConfirmOrder(o) /\ UNCHANGED covered
ConfirmCovered(o) == ConfirmOrder(o) /\ covered' = IF status[o] \in {"Cancelled", "None"} THEN covered ELSE covered \union {o}

\* Mutant: the order is confirmed even when the row was settled before.
SettleConfirmsAnyway(i) ==
  /\ intent' = [intent EXCEPT ![i].db = IF @ = "pending" THEN "held" ELSE @]
  /\ ConfirmByCard(OrderOf[i])
  /\ UNCHANGED giftLeft

\* Mutant: a payment that arrives for a cancelled order is ignored.
SettleUnlessCancelled(i) ==
  IF intent[i].db = "pending" /\ status[OrderOf[i]] # "Cancelled"
  THEN /\ intent' = [intent EXCEPT ![i].db = "held"]
       /\ ConfirmByCard(OrderOf[i])
       /\ giftLeft' = giftLeft - Lesser(giftLeft, intent[i].gift)
  ELSE UNCHANGED <<intent, order, giftLeft>>

\* The settling transaction: claims the pending row as held, confirms the order
\* and takes the gift card's part.  It changes nothing for a row settled before.
Settle(i) ==
  IF intent[i].db = "pending"
  THEN /\ intent' = [intent EXCEPT ![i].db = "held"]
       /\ ConfirmByCard(OrderOf[i])
       /\ giftLeft' = giftLeft - Lesser(giftLeft, intent[i].gift)
  ELSE UNCHANGED <<intent, order, giftLeft>>

\* Mutant: the rows are read but not marked, so another request finds them held.
ClaimNone(o, s) == UNCHANGED intent

\* The order's held payments, claimed for a refund or for the salon.
ClaimHeld(o, s) ==
  intent' = [i \in Intents |-> IF i \in IntentsOf(o, "held") THEN [intent[i] EXCEPT !.db = s] ELSE intent[i]]

\* Once more for each payment of S.
CountUp(count, S) == [i \in Intents |-> IF i \in S THEN count[i] + 1 ELSE count[i]]

Continue(h, j) == job' = [job EXCEPT ![h] = j]
Done(h) == Continue(h, IdleJob)

-----------------------------------------------------------------------------
(* The booking itself (its slot is claimed in SalonCalendar). *)

CreateBooking(o) ==
  /\ status[o] = "None"
  /\ status' = [status EXCEPT ![o] = "Pending"]
  /\ live' = live \union {o}
  /\ UNCHANGED <<paid, covered, intent, money, prepaid, job, crashes>>

\* PENDING_HOLD_MINUTES after createdAt.  A handler that has read the rows and
\* not yet compared their createdAt with the clock finds the hold gone.
HoldRunsOut(o) ==
  /\ o \in live
  /\ live' = live \ {o}
  /\ job' = [h \in Handlers |-> IF job[h].pc \in {"outstanding", "settle"} /\ job[h].order = o THEN [job[h] EXCEPT !.for = "give up"] ELSE job[h]]
  /\ UNCHANGED <<status, paid, covered, intent, money, prepaid, crashes>>

-----------------------------------------------------------------------------
(* startPayment and abandonBooking: first, whatever is already paid is settled. *)

\* The rows were read; the pending attempts are read after them.
SettlingJob(o, why) == [IdleJob EXCEPT !.pc = "outstanding", !.order = o, !.for = why]

\* With the hold run out, all it may still do is settle and give the time back.
StartPayment(h, o, method) ==
  /\ job[h].pc = "idle"
  /\ ~IsOrderConfirmed(o)
  /\ status[o] \notin {"None", "Cancelled"}
  /\ Continue(h, SettlingJob(o, IF o \in live THEN method ELSE "give up"))
  /\ UNCHANGED <<order, intent, money, prepaid, crashes>>

AbandonBooking(h, o) ==
  /\ job[h].pc = "idle"
  /\ status[o] # "None"
  /\ ~IsOrderConfirmed(o)
  /\ Continue(h, SettlingJob(o, "give up"))
  /\ UNCHANGED <<order, intent, money, prepaid, crashes>>

\* settleOutstandingPayments: the pending attempts, then one at a time.
ListOutstanding(h) ==
  /\ job[h].pc = "outstanding"
  /\ Continue(h, [job[h] EXCEPT !.pc = "settle", !.todo = IntentsOf(job[h].order, "pending")])
  /\ UNCHANGED <<order, intent, money, prepaid, crashes>>

SettleOutstanding(h, i) ==
  /\ job[h].pc = "settle"
  /\ i \in job[h].todo
  /\ LET succeeded == intent[i].stripe = "succeeded" IN
     /\ IF succeeded THEN Settle(i) ELSE UNCHANGED <<intent, order, giftLeft>>
     /\ Continue(h, [job[h] EXCEPT !.todo = @ \ {i}, !.found = IF succeeded THEN @ \union {i} ELSE @])
  /\ UNCHANGED <<money, sessions, crashes>>

\* Something was paid after all: ALREADY_CONFIRMED.
RefuseAlreadyPaid(h) ==
  /\ job[h].pc = "settle"
  /\ job[h].todo = {}
  /\ job[h].found # {}
  /\ Done(h)
  /\ UNCHANGED <<order, intent, money, prepaid, crashes>>

Unpaid(h) == job[h].pc = "settle" /\ job[h].todo = {} /\ job[h].found = {}

\* cancelUnpaidAttempts is entered at "list"; the handler goes on at next.
ClearAttempts(h, next, gift) ==
  Continue(h, [IdleJob EXCEPT !.pc = "list", !.then = next, !.order = job[h].order, !.gift = gift])

\* The customer left, or came back after the hold ran out.
GiveUpOrder(h) ==
  /\ Unpaid(h)
  /\ job[h].for = "give up"
  /\ ClearAttempts(h, "release", 0)
  /\ UNCHANGED <<order, intent, money, prepaid, crashes>>

PayWithSessions(h) ==
  /\ Unpaid(h)
  /\ job[h].for = "membership"
  /\ ClearAttempts(h, "redeem session", 0)
  /\ UNCHANGED <<order, intent, money, prepaid, crashes>>

ConfirmFreeBooking(h) ==
  /\ Unpaid(h)
  /\ job[h].for \in {"card", "gift"}
  /\ Price[job[h].order] = 0
  /\ ConfirmByCard(job[h].order)
  /\ Done(h)
  /\ UNCHANGED <<intent, money, prepaid, crashes>>

\* The quote: the gift card pays first, the card pays what is left.
QuotePayment(h) ==
  /\ Unpaid(h)
  /\ Price[job[h].order] > 0
  /\ \/ /\ job[h].for = "card"
        /\ ClearAttempts(h, "charge", 0)
     \/ /\ job[h].for = "gift"
        /\ giftLeft > 0
        /\ LET applied == Lesser(giftLeft, Price[job[h].order]) IN
           ClearAttempts(h, IF applied = Price[job[h].order] THEN "redeem gift" ELSE "charge", applied)
  /\ UNCHANGED <<order, intent, money, prepaid, crashes>>

-----------------------------------------------------------------------------
(* cancelUnpaidAttempts leaves what is being paid alone.  "Never throws" holds
   of its loop, not of the list it begins with: see HandlerFails, ServerExits. *)

ListAttempts(h) ==
  /\ job[h].pc = "list"
  /\ Continue(h, [job[h] EXCEPT !.pc = "cancelling", !.todo = IntentsOf(job[h].order, "pending")])
  /\ UNCHANGED <<order, intent, money, prepaid, crashes>>

\* Mutant: the row is cancelled whether or not Stripe would cancel the payment.
CancelAttemptBlindly(h, i) ==
  /\ job[h].pc = "cancelling"
  /\ i \in job[h].todo
  /\ intent' = [intent EXCEPT ![i].db = IF @ = "pending" THEN "cancelled" ELSE @]
  /\ Continue(h, [job[h] EXCEPT !.todo = @ \ {i}])
  /\ UNCHANGED <<order, money, prepaid, crashes>>

\* Stripe refuses to cancel a payment that is processing or succeeded, so a
\* payment racing the cancel is left alone; so is one whose Stripe call failed.
\* Cancelled at Stripe, its row may still not be updated (the error is swallowed).
CancelAttempt(h, i) ==
  /\ job[h].pc = "cancelling"
  /\ i \in job[h].todo
  /\ \/ /\ intent[i].stripe \in {"open", "canceled"}
        /\ \E recorded \in BOOLEAN :
             intent' = [intent EXCEPT ![i].stripe = "canceled", ![i].db = IF @ = "pending" /\ recorded THEN "cancelled" ELSE @]
     \/ UNCHANGED intent
  /\ Continue(h, [job[h] EXCEPT !.todo = @ \ {i}])
  /\ UNCHANGED <<order, money, prepaid, crashes>>

AttemptsCleared(h) ==
  /\ job[h].pc = "cancelling"
  /\ job[h].todo = {}
  /\ Continue(h, [job[h] EXCEPT !.pc = job[h].then, !.then = "idle"])
  /\ UNCHANGED <<order, intent, money, prepaid, crashes>>

-----------------------------------------------------------------------------
(* The ways to pay, once earlier attempts are out of the way. *)

CreatePaymentIntent(h, i) ==
  /\ job[h].pc = "charge"
  /\ OrderOf[i] = job[h].order
  /\ intent[i].stripe = "none"
  /\ intent' = [intent EXCEPT ![i].stripe = "open", ![i].gift = job[h].gift]
  /\ Continue(h, [job[h] EXCEPT !.pc = "record", !.todo = {i}])
  /\ UNCHANGED <<order, money, prepaid, crashes>>

\* The row and its ledger rows, in one transaction; then the client secret is returned.
RecordPaymentIntent(h, i) ==
  /\ job[h].pc = "record"
  /\ i \in job[h].todo
  /\ intent' = [intent EXCEPT ![i].db = "pending"]
  /\ Done(h)
  /\ UNCHANGED <<order, money, prepaid, crashes>>

\* payWithGiftCard: the card is locked and its balance checked again.
RedeemGiftCard(h) ==
  /\ job[h].pc = "redeem gift"
  /\ IF giftLeft >= Price[job[h].order]
     THEN /\ giftLeft' = giftLeft - Price[job[h].order]
          /\ ConfirmCovered(job[h].order)
     ELSE UNCHANGED <<giftLeft, order>>
  /\ Done(h)
  /\ UNCHANGED <<intent, money, sessions, crashes>>

\* payWithMembership: one session, with the purchase locked.
RedeemSession(h) ==
  /\ job[h].pc = "redeem session"
  /\ IF sessions >= 1
     THEN /\ sessions' = sessions - 1
          /\ ConfirmCovered(job[h].order)
     ELSE UNCHANGED <<sessions, order>>
  /\ Done(h)
  /\ UNCHANGED <<intent, money, giftLeft, crashes>>

\* The end of releaseOrder: only what is still Pending and Unpaid is cancelled.
ReleaseOrder(h) ==
  /\ job[h].pc = "release"
  /\ LET o == job[h].order IN
     status' = [status EXCEPT ![o] = IF @ = "Pending" /\ o \notin paid THEN "Cancelled" ELSE @]
  /\ Done(h)
  /\ UNCHANGED <<paid, live, covered, intent, money, prepaid, crashes>>

-----------------------------------------------------------------------------
(* Stripe and the customer's browser (external). *)

\* The card form is only shown for a recorded attempt.
ConfirmInBrowser(i) ==
  /\ intent[i].db # "none"
  /\ intent[i].stripe = "open"
  /\ intent' = [intent EXCEPT ![i].stripe = "processing"]
  /\ UNCHANGED <<order, money, prepaid, job, crashes>>

StripeAnswers(i) ==
  /\ intent[i].stripe = "processing"
  /\ \E s \in {"succeeded", "open"} : intent' = [intent EXCEPT ![i].stripe = s]
  /\ UNCHANGED <<order, money, prepaid, job, crashes>>

\* completeCardPayment from the browser, or the payment_intent.succeeded webhook.
SettlePaidIntent(i) ==
  /\ intent[i].stripe = "succeeded"
  /\ intent[i].db = "pending"
  /\ Settle(i)
  /\ UNCHANGED <<money, sessions, job, crashes>>

-----------------------------------------------------------------------------
(* Cancelling, finishing and moving a booking. *)

\* The cancelled order's cleanup: attempts still open are cancelled while what
\* was claimed for a refund is refunded.
CleanupJob(o, owed) == [IdleJob EXCEPT !.pc = "list", !.then = "refund", !.order = o, !.owed = owed]

\* The customer cancels.  Before the salon's window ("early") held payments are
\* claimed for a refund; inside it they are released and the salon keeps its share.
CancelBooking(h, o, early) ==
  /\ job[h].pc = "idle"
  /\ status[o] \in StillBooked
  /\ status' = [status EXCEPT ![o] = "Cancelled"]
  /\ paid' = paid \ {o}
  /\ ClaimHeld(o, IF early THEN "refunded" ELSE "released")
  /\ credited' = IF early THEN credited ELSE CountUp(credited, IntentsOf(o, "held"))
  /\ Continue(h, CleanupJob(o, IF early THEN IntentsOf(o, "held") ELSE {}))
  /\ UNCHANGED <<live, covered, returned, alerted, cutOff, prepaid, crashes>>

\* The salon cancels: a full refund; the rows keep their payment status.
CancelBookingBySalon(h, o) ==
  /\ job[h].pc = "idle"
  /\ status[o] \in StillBooked
  /\ status' = [status EXCEPT ![o] = "Cancelled"]
  /\ ClaimHeld(o, "refunded")
  /\ Continue(h, CleanupJob(o, IntentsOf(o, "held")))
  /\ UNCHANGED <<paid, live, covered, money, prepaid, crashes>>

\* Mutant: a refund that fails is not caught, so it and those after it are dropped.
RefundPaymentThrows(h, i) ==
  /\ i \in job[h].owed
  /\ \/ /\ returned' = CountUp(returned, {i})
        /\ Continue(h, [job[h] EXCEPT !.owed = @ \ {i}])
     \/ UNCHANGED returned /\ Done(h)
  /\ UNCHANGED <<order, intent, alerted, credited, cutOff, prepaid, crashes>>

\* Mutant: the refunds of one cancellation are made and left to be made again.
RefundPaymentAgain(h, i) ==
  /\ i \in job[h].owed
  /\ returned[i] < 2
  /\ returned' = CountUp(returned, {i})
  /\ UNCHANGED <<order, intent, alerted, credited, cutOff, prepaid, job, crashes>>

\* refundPayments: one attempt per payment, with no idempotency key.  A failed refund is reported to KHS;
\* so is one that went through at Stripe but could not be recorded.
RefundPayment(h, i) ==
  /\ i \in job[h].owed
  /\ \/ returned' = CountUp(returned, {i}) /\ UNCHANGED alerted
     \/ alerted' = alerted \union {i} /\ UNCHANGED returned
     \/ returned' = CountUp(returned, {i}) /\ alerted' = alerted \union {i}
  /\ Continue(h, [job[h] EXCEPT !.owed = @ \ {i}])
  /\ UNCHANGED <<order, intent, credited, cutOff, prepaid, crashes>>

CancellationDone(h) ==
  /\ job[h].pc = "refund"
  /\ job[h].owed = {}
  /\ Done(h)
  /\ UNCHANGED <<order, intent, money, prepaid, crashes>>

\* Mutant: a no-show releases nothing to the salon.
FinishServedOnly(o, outcome) ==
  /\ status[o] \in {"Confirmed", "Rescheduled"}
  /\ status' = [status EXCEPT ![o] = outcome]
  /\ paid' = paid \union {o}
  /\ IF outcome = "Completed" THEN ClaimHeld(o, "released") ELSE UNCHANGED intent
  /\ credited' = IF outcome = "Completed" THEN CountUp(credited, IntentsOf(o, "held")) ELSE credited
  /\ UNCHANGED <<live, covered, returned, alerted, cutOff, prepaid, job, crashes>>

\* The salon finishes a booking; held payments are released to it in the same transaction.
Finish(o, outcome) ==
  /\ status[o] \in {"Confirmed", "Rescheduled"}
  /\ status' = [status EXCEPT ![o] = outcome]
  /\ paid' = paid \union {o}
  /\ ClaimHeld(o, "released")
  /\ credited' = CountUp(credited, IntentsOf(o, "held"))
  /\ UNCHANGED <<live, covered, returned, alerted, cutOff, prepaid, job, crashes>>

\* rescheduleBooking and restoreBooking: what the move will do to the rows is
\* decided from the rows as first read ...
BeginMove(h, o) ==
  /\ job[h].pc = "idle"
  /\ status[o] \in StillBooked \union {"Cancelled"}
  /\ LET move == IF status[o] = "Cancelled" THEN "bring back" ELSE IF o \in paid THEN "keep paid" ELSE "hold afresh" IN
     Continue(h, [IdleJob EXCEPT !.pc = "move", !.order = o, !.for = move])
  /\ UNCHANGED <<order, intent, money, prepaid, crashes>>

\* ... and done under the locks, if their status is still an expected one.
MoveOrder(h) ==
  /\ job[h].pc = "move"
  /\ LET o == job[h].order IN
     \/ /\ job[h].for = "bring back" /\ status[o] = "Cancelled"
        /\ status' = [status EXCEPT ![o] = "Pending"]
        /\ paid' = paid \ {o} /\ live' = live \union {o} /\ covered' = covered \ {o}
     \/ /\ job[h].for = "keep paid" /\ status[o] \in StillBooked
        /\ status' = [status EXCEPT ![o] = "Rescheduled"]
        /\ UNCHANGED <<paid, live, covered>>
     \/ /\ job[h].for = "hold afresh" /\ status[o] \in StillBooked
        /\ live' = live \union {o}
        /\ UNCHANGED <<status, paid, covered>>
  /\ Done(h)
  /\ UNCHANGED <<intent, money, prepaid, crashes>>

\* The salon moves a paid booking (an unpaid checkout it may not move).
RescheduleBySalon(o) ==
  /\ status[o] \in {"Confirmed", "Rescheduled"}
  /\ status' = [status EXCEPT ![o] = "Rescheduled"]
  /\ UNCHANGED <<paid, live, covered, intent, money, prepaid, job, crashes>>

-----------------------------------------------------------------------------
(* A request that ends early: refused, a read or a Stripe call that throws, or
   a move whose slot is gone or whose rows changed.  Nothing is rolled back but
   the transaction it was in. *)
HandlerFails(h) ==
  /\ \/ job[h].pc \in {"outstanding", "settle", "charge", "record", "redeem gift", "redeem session", "release", "move"}
     \/ job[h].pc = "list" /\ job[h].then # "refund"
  /\ Done(h)
  /\ UNCHANGED <<order, intent, money, prepaid, crashes>>

\* A server process ends, and with it the requests it was serving.
ServerEnds(serving) ==
  /\ job' = [h \in Handlers |-> IF h \in serving THEN IdleJob ELSE job[h]]
  /\ cutOff' = cutOff \union UNION {job[h].owed : h \in serving}
  /\ UNCHANGED <<order, intent, returned, credited, alerted, prepaid>>

\* A cancellation does not await cancelUnpaidAttempts: when the list of attempts
\* cannot be read, the rejection is nobody's and server.ts exits the process.
ServerExits(h) ==
  /\ job[h].pc = "list"
  /\ job[h].then = "refund"
  /\ \E others \in SUBSET Handlers : ServerEnds(others \union {h})
  /\ UNCHANGED crashes

\* The server dies under a request, between any two of its steps.
Crash(h) ==
  /\ crashes < MaxCrashes
  /\ job[h].pc # "idle"
  /\ crashes' = crashes + 1
  /\ \E others \in SUBSET Handlers : ServerEnds(others \union {h})

HandlerStep(h) ==
  \/ RefuseAlreadyPaid(h) \/ GiveUpOrder(h) \/ PayWithSessions(h) \/ ConfirmFreeBooking(h) \/ QuotePayment(h)
  \/ ListOutstanding(h) \/ ListAttempts(h) \/ AttemptsCleared(h)
  \/ RedeemGiftCard(h) \/ RedeemSession(h) \/ ReleaseOrder(h) \/ CancellationDone(h) \/ MoveOrder(h)
  \/ HandlerFails(h)
  \/ \E i \in Intents :
       SettleOutstanding(h, i) \/ CancelAttempt(h, i) \/ CreatePaymentIntent(h, i) \/ RecordPaymentIntent(h, i) \/ RefundPayment(h, i)

Request(h, o) ==
  \/ \E m \in Methods : StartPayment(h, o, m)
  \/ AbandonBooking(h, o)
  \/ \E early \in BOOLEAN : CancelBooking(h, o, early)
  \/ CancelBookingBySalon(h, o)
  \/ BeginMove(h, o)

Next ==
  \/ \E h \in Handlers : HandlerStep(h) \/ ServerExits(h) \/ Crash(h) \/ \E o \in Orders : Request(h, o)
  \/ \E o \in Orders : CreateBooking(o) \/ HoldRunsOut(o) \/ RescheduleBySalon(o) \/ \E out \in {"Completed", "No Show"} : Finish(o, out)
  \/ \E i \in Intents : ConfirmInBrowser(i) \/ StripeAnswers(i) \/ SettlePaidIntent(i)

Spec == Init /\ [][Next]_vars

\* A request being served goes on, and Stripe redelivers payment_intent.succeeded
\* until the webhook has handled it.  Nobody has to pay, cancel or move anything.
Fairness ==
  /\ \A h \in Handlers : WF_vars(HandlerStep(h))
  /\ \A i \in Intents : WF_vars(SettlePaidIntent(i))

FairSpec == Spec /\ Fairness

-----------------------------------------------------------------------------
(* What holds. *)

\* A confirmed booking is paid for: by a card payment KHS holds for it, by a gift
\* card or a membership session, or because it is free (confirmOrder runs only
\* in the transaction that takes the money).
ConfirmedIsBacked ==
  \A o \in Orders : status[o] = "Confirmed" => IntentsOf(o, "held") # {} \/ o \in covered \/ Price[o] = 0

\* A booking the salon finished leaves no card payment held: finishing releases
\* it, and a payment settled later confirms the booking again.
FinishedIsSettled ==
  \A o \in Orders : status[o] \in {"Completed", "No Show"} => IntentsOf(o, "held") = {}

\* The ledger agrees with Stripe: money recorded as held, released or refunded
\* was taken, and a payment whose row is cancelled can never be taken
\* (cancelUnpaidAttempts against a payment being made at the same moment).
RowsAgreeWithStripe ==
  \A i \in Intents :
    /\ intent[i].db \in {"held", "released", "refunded"} => intent[i].stripe = "succeeded"
    /\ intent[i].db = "cancelled" => intent[i].stripe = "canceled"

\* A payment's row only moves forward: pending, then held or cancelled, and from
\* held to released or refunded, once (every claim is conditional on the status).
RowMoves == {<<"none", "pending">>, <<"pending", "held">>, <<"pending", "cancelled">>, <<"held", "released">>, <<"held", "refunded">>}
RowsMoveForward == [][\A i \in Intents : intent'[i].db = intent[i].db \/ <<intent[i].db, intent'[i].db>> \in RowMoves]_vars

\* Every payment's money is where Escrow says: taken once, then given back once
\* or paid to the salon once, never both and never again.  What left KHS a second
\* time, to either side, is at a place no step of Escrow leads to.
Place(i) ==
  IF credited[i] + returned[i] > 1 THEN "overpaid"
  ELSE IF credited[i] = 1 THEN "salon"
  ELSE IF returned[i] = 1 THEN "returned"
  ELSE IF intent[i].stripe = "succeeded" THEN "kept" ELSE "customer"

Money == INSTANCE Escrow WITH Payments <- Intents, place <- [i \in Intents |-> Place(i)]
EscrowKept == Money!Spec

\* A payment Stripe took does not stay pending, whichever of the browser, the
\* payment page and the webhook is lost, and even if the order was cancelled meanwhile.
PaidIsSettled == \A i \in Intents : intent[i].stripe = "succeeded" /\ intent[i].db = "pending" ~> intent[i].db # "pending"

\* A payment claimed for a refund is refunded or reported to KHS, unless the
\* server ended with the refund still to be made.
Refunded == {i \in Intents : returned[i] > 0}
RefundAccounted == \A i \in Intents : intent[i].db = "refunded" ~> i \in Refunded \union alerted \union cutOff

\* Every request is answered: settling and cancelling attempts come to an end.
RequestsEnd == \A h \in Handlers : job[h].pc # "idle" ~> job[h].pc = "idle"

-----------------------------------------------------------------------------
(* What the comments and documents say that the code does not keep. *)

\* "The card payment is refunded minus the platform's early-cancellation fee":
\* no payment stays held for a booking that stays cancelled.
CancelledNotHeld == \A i \in Intents :
  status[OrderOf[i]] = "Cancelled" /\ intent[i].db = "held"
    ~> status[OrderOf[i]] # "Cancelled" \/ intent[i].db # "held"

\* "Paid already? Settle it instead of charging again": no new charge is started
\* for an order whose rows say Paid when the request begins.
PaidNotChargedAgain == [][\A h \in Handlers : job[h].pc = "idle" /\ job'[h].pc = "outstanding" /\ job'[h].for = "card"
                           => job'[h].order \notin paid]_vars

\* "A cancelled booking comes back ... to be paid again": what is on the calendar
\* as Rescheduled was paid.
RescheduledIsPaid == \A o \in Orders : status[o] = "Rescheduled" => o \in paid

\* "Claims the order's held card payments ... so they're settled exactly once":
\* a claimed refund is returned, reported or still being made, across a restart.
RefundNotLost == \A i \in Intents :
  intent[i].db = "refunded" => i \in Refunded \union alerted \/ \E h \in Handlers : i \in job[h].owed
=============================================================================
