-------------------------------- MODULE Prepaid --------------------------------
(***************************************************************************)
(* What customers pay for in advance: a salon's gift cards and membership  *)
(* packages, from the sale to the last cent or session, or to the expiry   *)
(* date.                                                                   *)
(*                                                                         *)
(* A gift card is one row for sale to one buyer.  A checkout holds it in   *)
(* Redis for 30 minutes, which may run out before the buyer has paid; the  *)
(* browser and Stripe's webhook then both complete the payment, any number *)
(* of times.  The salon meanwhile changes its cards, bookings spend them,  *)
(* and the nightly sweep splits what is left of the expired ones.          *)
(*                                                                         *)
(* A handler is one request or delivery; a database transaction, a Redis   *)
(* command and a Stripe call are each one step.                            *)
(***************************************************************************)
EXTENDS Naturals

CONSTANTS
  Cards,
  Values,       \* what the salon may sell a card for
  Payments,     \* card payments for gift cards
  CardOf,       \* the gift card each is for
  Buyers,
  BuyerOf,
  Nobody,
  Memberships,  \* card payments for a package, and the membership each may become
  Sessions,     \* the package's number of sessions
  Handlers,
  NoJob,
  MaxCrashes    \* server crashes considered (a bound of the model)

ASSUME PrepaidAssumptions ==
  /\ Values \subseteq Nat \ {0} /\ Values # {}
  /\ CardOf \in [Payments -> Cards]
  /\ BuyerOf \in [Payments -> Buyers]
  /\ Nobody \notin Buyers
  /\ Payments \intersect Memberships = {}
  /\ Cards \intersect Memberships = {}
  /\ Sessions \in Nat \ {0}
  /\ MaxCrashes \in Nat

VARIABLES
  card,        \* the business_gift_cards rows
  hold,        \* the buyer whose checkout holds each card
  pay,         \* the payments for cards: at Stripe, and their ledger rows
  refunded,    \* payments Stripe gave back
  earned,      \* payments the salon's wallet was credited with, and how often
  membership,  \* each package payment and the purchase it was granted
  spent,       \* cents of each card, sessions of each membership, that bookings used
  past,        \* cards and memberships beyond their expiry date
  onSale,      \* the package can be bought
  split,       \* what the expiry sweep took to be unused and divided
  overtaken,   \* history: spent between the sweep's read and its claim
  job,         \* what each handler is doing
  sweep,       \* the expiry sweep: its step, what it has still to claim and the balance it read of each
  crashes

cards == <<card, hold>>
sales == <<pay, refunded, earned>>
expiry == <<past, split, overtaken>>
vars == <<card, hold, pay, refunded, earned, membership, spent, past, onSale, split, overtaken, job, sweep, crashes>>

Goods == Cards \union Memberships
CardStatus == {"None", "Active", "Inactive", "Used", "Expired", "deleted"}
Card == [status : CardStatus, sold : {"available", "purchased"}, amount : Nat, left : Nat, by : {"nobody", "merchant", "admin"}]
Payment == [stripe : {"none", "open", "succeeded"}, value : Nat, ledger : {"none", "pending", "completed", "cancelled"}]
Membership == [stripe : {"none", "open", "succeeded"}, rows : Nat, left : Nat, status : {"None", "ACTIVE", "FULLY_REDEEMED", "EXPIRED"}]

Changes == {"update", "deactivate", "reactivate", "delete"}
\* A handler's step, the card, payment or membership it serves, and what it
\* has read: the card as it was, or the number of sessions asked for.
SaleJob == [pc : {"hold", "charge", "sell", "unhold", "refund"}, of : Payments, value : Nat, ok : {"sold", "refund"}]
ChangeJob == [pc : {"busy", "apply"}, of : Cards, change : Changes, seen : CardStatus \X {"available", "purchased"}]
MembershipJob == [pc : {"lock", "grant", "redeem"}, of : Memberships, sessions : Nat]
Job == SaleJob \union ChangeJob \union MembershipJob \union {NoJob}

TypeOK ==
  /\ card \in [Cards -> Card]
  /\ hold \in [Cards -> Buyers \union {Nobody}]
  /\ pay \in [Payments -> Payment]
  /\ refunded \subseteq Payments
  /\ earned \in [Payments -> Nat]
  /\ membership \in [Memberships -> Membership]
  /\ spent \in [Goods -> Nat]
  /\ past \subseteq Goods
  /\ onSale \in BOOLEAN
  /\ split \in [Goods -> Nat]
  /\ overtaken \subseteq Goods
  /\ \A h \in Handlers : job[h] \in Job
  /\ sweep.pc \in {"idle", "memberships", "cards"}
  /\ DOMAIN sweep.due \subseteq Goods
  /\ \A g \in DOMAIN sweep.due : sweep.due[g] \in Nat
  /\ crashes \in 0..MaxCrashes

None == [g \in Goods |-> 0]
Resting == [pc |-> "idle", due |-> <<>>]

Init ==
  /\ card = [c \in Cards |-> [status |-> "None", sold |-> "available", amount |-> 0, left |-> 0, by |-> "nobody"]]
  /\ hold = [c \in Cards |-> Nobody]
  /\ pay = [p \in Payments |-> [stripe |-> "none", value |-> 0, ledger |-> "none"]]
  /\ refunded = {}
  /\ earned = [p \in Payments |-> 0]
  /\ membership = [m \in Memberships |-> [stripe |-> "none", rows |-> 0, left |-> 0, status |-> "None"]]
  /\ spent = None
  /\ past = {}
  /\ onSale = TRUE
  /\ split = None
  /\ overtaken = {}
  /\ job = [h \in Handlers |-> NoJob]
  /\ sweep = Resting
  /\ crashes = 0

Idle(h) == job[h] = NoJob
At(h, step) == job[h] # NoJob /\ job[h].pc = step
Continue(h, j) == job' = [job EXCEPT ![h] = j]
Done(h) == Continue(h, NoJob)
Goto(h, step) == Continue(h, [job[h] EXCEPT !.pc = step])

-----------------------------------------------------------------------------
(* startGiftCardPurchase. *)

ReadCardForSale(h, p) ==
  /\ Idle(h)
  /\ pay[p].stripe = "none"
  /\ \A g \in Handlers : job[g] # NoJob => job[g].of # p
  /\ LET c == card[CardOf[p]] IN
     /\ c.sold = "available" /\ c.status = "Active"
     /\ Continue(h, [pc |-> "hold", of |-> p, value |-> c.amount, ok |-> "sold"])
  /\ UNCHANGED <<cards, sales, membership, spent, expiry, onSale, sweep, crashes>>

\* SET NX: a buyer's own hold is as good as a new one, and keeps its time.
HoldCard(h) ==
  /\ At(h, "hold")
  /\ LET c == CardOf[job[h].of]
         b == BuyerOf[job[h].of] IN
     IF hold[c] \in {Nobody, b}
       THEN hold' = [hold EXCEPT ![c] = b] /\ Goto(h, "charge")
       ELSE Done(h) /\ UNCHANGED hold
  /\ UNCHANGED <<card, sales, membership, spent, expiry, onSale, sweep, crashes>>

\* The Stripe payment for the value read before, then its pending ledger rows.
ChargeBuyer(h) ==
  /\ At(h, "charge")
  /\ pay' = [pay EXCEPT ![job[h].of] = [stripe |-> "open", value |-> job[h].value, ledger |-> "pending"]]
  /\ Done(h)
  /\ UNCHANGED <<cards, refunded, earned, membership, spent, expiry, onSale, sweep, crashes>>

\* HOLD_SECONDS pass (Redis).
HoldExpires(c) ==
  /\ hold[c] # Nobody
  /\ hold' = [hold EXCEPT ![c] = Nobody]
  /\ UNCHANGED <<card, sales, membership, spent, expiry, onSale, job, sweep, crashes>>

\* The card form accepts the buyer's card (external: Stripe).
BuyerPays(p) ==
  /\ pay[p].stripe = "open"
  /\ pay' = [pay EXCEPT ![p].stripe = "succeeded"]
  /\ UNCHANGED <<cards, refunded, earned, membership, spent, expiry, onSale, job, sweep, crashes>>

-----------------------------------------------------------------------------
(* completeGiftCardPurchase, called by the browser and by Stripe's webhook. *)

BeginSale(h, p) ==
  /\ Idle(h)
  /\ pay[p].stripe = "succeeded"
  /\ Continue(h, [pc |-> "sell", of |-> p, value |-> 0, ok |-> "sold"])
  /\ UNCHANGED <<cards, sales, membership, spent, expiry, onSale, sweep, crashes>>

Sell(p) ==
  /\ card' = [card EXCEPT ![CardOf[p]] = [@ EXCEPT !.sold = "purchased", !.left = pay[p].value]]
  /\ pay' = [pay EXCEPT ![p].ledger = "completed"]
  /\ earned' = [earned EXCEPT ![p] = @ + 1]

\* Mutant: whether the card is already sold is not looked at.
SellCardAgain(h) ==
  /\ At(h, "sell")
  /\ LET p == job[h].of IN
     IF card[CardOf[p]].status = "Active"
       THEN Sell(p) /\ Goto(h, "unhold")
       ELSE Continue(h, [job[h] EXCEPT !.pc = "unhold", !.ok = "refund"]) /\ UNCHANGED <<card, pay, earned>>
  /\ UNCHANGED <<hold, refunded, membership, spent, expiry, onSale, sweep, crashes>>

\* With the card's row locked: sold to this payment now or before, or to be
\* given back because it is another's or off sale.
SellCard(h) ==
  /\ At(h, "sell")
  /\ LET p == job[h].of
         c == card[CardOf[p]] IN
     IF c.sold = "available" /\ c.status = "Active"
       THEN Sell(p) /\ Goto(h, "unhold")
       ELSE /\ Continue(h, [job[h] EXCEPT !.pc = "unhold",
                              !.ok = IF c.sold = "purchased" /\ pay[p].ledger = "completed" THEN "sold" ELSE "refund"])
            /\ UNCHANGED <<card, pay, earned>>
  /\ UNCHANGED <<hold, refunded, membership, spent, expiry, onSale, sweep, crashes>>

\* The hold is dropped whoever has it by now.
DropHold(h) ==
  /\ At(h, "unhold")
  /\ hold' = [hold EXCEPT ![CardOf[job[h].of]] = Nobody]
  /\ IF job[h].ok = "refund" THEN Goto(h, "refund") ELSE Done(h)
  /\ UNCHANGED <<card, sales, membership, spent, expiry, onSale, sweep, crashes>>

\* refundUnfulfilled: one refund under the payment's key; when Stripe fails a
\* person is told.
RefundUnfulfilled(h) ==
  /\ At(h, "refund")
  /\ LET p == job[h].of IN
     \/ /\ refunded' = refunded \union {p}
        /\ pay' = [pay EXCEPT ![p].ledger = IF @ = "pending" THEN "cancelled" ELSE @]
     \/ UNCHANGED <<refunded, pay>>
  /\ Done(h)
  /\ UNCHANGED <<cards, earned, membership, spent, expiry, onSale, sweep, crashes>>

-----------------------------------------------------------------------------
(* The salon's changes: read, see that nobody is paying, write. *)

CreateGiftCard(c) ==
  /\ card[c].status = "None"
  /\ \E v \in Values : card' = [card EXCEPT ![c].status = "Active", ![c].amount = v]
  /\ UNCHANGED <<hold, sales, membership, spent, expiry, onSale, job, sweep, crashes>>

Allowed(c, change) ==
  LET r == card[c] IN
  CASE change = "update"     -> r.sold = "available" /\ r.status = "Active"
    [] change = "deactivate" -> r.status \notin {"Inactive", "Used"} /\ ~(r.sold = "purchased" /\ r.left > 0)
    [] change = "reactivate" -> r.status = "Inactive" /\ r.by = "merchant" /\ ~(r.sold = "purchased" /\ c \in past)
    [] change = "delete"     -> r.sold = "available"

BeginChange(h, c, change) ==
  /\ Idle(h)
  /\ card[c].status \notin {"None", "deleted"}
  /\ Allowed(c, change)
  /\ Continue(h, [pc |-> IF change = "reactivate" THEN "apply" ELSE "busy", of |-> c, change |-> change, seen |-> <<card[c].status, card[c].sold>>])
  /\ UNCHANGED <<cards, sales, membership, spent, expiry, onSale, sweep, crashes>>

AssertNotInCheckout(h) ==
  /\ At(h, "busy")
  /\ IF hold[job[h].of] = Nobody THEN Goto(h, "apply") ELSE Done(h)
  /\ UNCHANGED <<cards, sales, membership, spent, expiry, onSale, sweep, crashes>>

\* What the update's WHERE still asks of the row.
StillAllowed(r, seen, change) ==
  CASE change = "update"     -> r.sold = "available" /\ r.status = "Active"
    [] change = "deactivate" -> <<r.status, r.sold>> = seen
    [] change = "reactivate" -> r.status = "Inactive" /\ r.by = "merchant"
    [] change = "delete"     -> r.sold = "available"

Changed(r, change) ==
  CASE change = "update"     -> {[r EXCEPT !.amount = v] : v \in Values}
    [] change = "deactivate" -> {[r EXCEPT !.status = "Inactive", !.by = "merchant"]}
    [] change = "reactivate" -> {[r EXCEPT !.status = "Active", !.by = "nobody"]}
    [] change = "delete"     -> {[r EXCEPT !.status = "deleted"]}

ApplyChange(h) ==
  /\ At(h, "apply")
  /\ LET c == job[h].of IN
     IF StillAllowed(card[c], job[h].seen, job[h].change)
       THEN \E r \in Changed(card[c], job[h].change) : card' = [card EXCEPT ![c] = r]
       ELSE UNCHANGED card
  /\ Done(h)
  /\ UNCHANGED <<hold, sales, membership, spent, expiry, onSale, sweep, crashes>>

\* KHS stops a card (external: the staff backend).
KhsDeactivates(c) ==
  /\ card[c].status = "Active"
  /\ card' = [card EXCEPT ![c].status = "Inactive", ![c].by = "admin"]
  /\ UNCHANGED <<hold, sales, membership, spent, expiry, onSale, job, sweep, crashes>>

-----------------------------------------------------------------------------
(* Spending a card (the bookings are BookingPayments'). *)

\* What has been read by the sweep and not yet claimed.
Overtakes(g) == overtaken' = IF g \in DOMAIN sweep.due THEN overtaken \union {g} ELSE overtaken

Take(c, n) ==
  /\ card' = [card EXCEPT ![c].left = @ - n, ![c].status = IF card[c].left = n THEN "Used" ELSE @]
  /\ spent' = [spent EXCEPT ![c] = @ + n]
  /\ Overtakes(c)
  /\ UNCHANGED <<hold, sales, membership, past, onSale, split, job, sweep, crashes>>

\* giftCardRefusal and payWithGiftCard, with the card locked.
PayWithGiftCard(c, n) ==
  /\ card[c].sold = "purchased" /\ card[c].status = "Active" /\ c \notin past
  /\ n \in 1..card[c].left
  /\ Take(c, n)

\* settlePaidIntent: of the n cents quoted, what the card still has, whatever
\* has become of it since.
SettleGiftPart(c, n) ==
  /\ card[c].sold = "purchased" /\ card[c].left > 0
  /\ Take(c, IF n <= card[c].left THEN n ELSE card[c].left)

-----------------------------------------------------------------------------
(* Memberships. *)

StartMembershipPurchase(m) ==
  /\ onSale
  /\ membership[m].stripe = "none"
  /\ membership' = [membership EXCEPT ![m].stripe = "open"]
  /\ UNCHANGED <<cards, sales, spent, expiry, onSale, job, sweep, crashes>>

\* External: Stripe.
MemberPays(m) ==
  /\ membership[m].stripe = "open"
  /\ membership' = [membership EXCEPT ![m].stripe = "succeeded"]
  /\ UNCHANGED <<cards, sales, spent, expiry, onSale, job, sweep, crashes>>

\* deactivatePackage: stops new purchases only.
DeactivatePackage ==
  /\ onSale
  /\ onSale' = FALSE
  /\ UNCHANGED <<cards, sales, membership, spent, expiry, job, sweep, crashes>>

\* completeMembershipPurchase, called by the browser and by Stripe's webhook.
BeginGrant(h, m) ==
  /\ Idle(h)
  /\ membership[m].stripe = "succeeded"
  /\ Continue(h, [pc |-> "lock", of |-> m, sessions |-> 0])
  /\ UNCHANGED <<cards, sales, membership, spent, expiry, onSale, sweep, crashes>>

\* Mutant: the payment's advisory lock is not taken.
LookForGrantUnlocked(h) ==
  /\ At(h, "lock")
  /\ IF membership[job[h].of].rows = 0 THEN Goto(h, "grant") ELSE Done(h)
  /\ UNCHANGED <<cards, sales, membership, spent, expiry, onSale, sweep, crashes>>

\* Locked until the grant commits; a payment already granted is left alone.
LookForGrant(h) ==
  /\ At(h, "lock")
  /\ \A g \in Handlers : ~(At(g, "grant") /\ job[g].of = job[h].of)
  /\ IF membership[job[h].of].rows = 0 THEN Goto(h, "grant") ELSE Done(h)
  /\ UNCHANGED <<cards, sales, membership, spent, expiry, onSale, sweep, crashes>>

Grant(h) ==
  /\ At(h, "grant")
  /\ LET m == job[h].of IN
     membership' = [membership EXCEPT ![m].rows = @ + 1, ![m].left = Sessions, ![m].status = "ACTIVE"]
  /\ Done(h)
  /\ UNCHANGED <<cards, sales, spent, expiry, onSale, sweep, crashes>>

\* A row locked by a redemption that has not committed.
RowLocked(m) == \E h \in Handlers : At(h, "redeem") /\ job[h].of = m

\* payWithMembership: the row is locked and found good for n sessions; the
\* expiry date may pass before it commits.
CheckMembership(h, m, n) ==
  /\ Idle(h)
  /\ ~RowLocked(m)
  /\ membership[m].status = "ACTIVE" /\ m \notin past
  /\ n \in 1..membership[m].left
  /\ Continue(h, [pc |-> "redeem", of |-> m, sessions |-> n])
  /\ UNCHANGED <<cards, sales, membership, spent, expiry, onSale, sweep, crashes>>

RedeemSessions(h) ==
  /\ At(h, "redeem")
  /\ LET m == job[h].of
         left == membership[m].left - job[h].sessions IN
     /\ membership' = [membership EXCEPT ![m].left = left, ![m].status = IF left = 0 THEN "FULLY_REDEEMED" ELSE @]
     /\ spent' = [spent EXCEPT ![m] = @ + job[h].sessions]
     /\ Overtakes(m)
  /\ Done(h)
  /\ UNCHANGED <<cards, sales, past, onSale, split, sweep, crashes>>

-----------------------------------------------------------------------------
(* prepaidExpiry, once a day: memberships, then gift cards. *)

\* The expiry date of a card or membership passes (the clock).
DatePasses(g) ==
  /\ g \notin past
  /\ IF g \in Cards THEN card[g].sold = "purchased" ELSE membership[g].rows > 0
  /\ past' = past \union {g}
  /\ UNCHANGED <<cards, sales, membership, spent, onSale, split, overtaken, job, sweep, crashes>>

ReadDueMemberships ==
  /\ sweep.pc = "idle"
  /\ sweep' = [pc |-> "memberships",
               due |-> [m \in {x \in Memberships \intersect past : membership[x].status = "ACTIVE"} |-> membership[m].left]]
  /\ UNCHANGED <<cards, sales, membership, spent, expiry, onSale, job, crashes>>

Claimed(g) == sweep' = [sweep EXCEPT !.due = [x \in DOMAIN @ \ {g} |-> @[x]]]

\* Claimed by its status; the sessions divided are those read before.
ExpireMembership(m) ==
  /\ sweep.pc = "memberships" /\ m \in DOMAIN sweep.due
  /\ ~RowLocked(m)
  /\ Claimed(m)
  /\ IF membership[m].status = "ACTIVE"
       THEN /\ membership' = [membership EXCEPT ![m].status = "EXPIRED", ![m].left = 0]
            /\ split' = [split EXCEPT ![m] = @ + sweep.due[m]]
       ELSE UNCHANGED <<membership, split>>
  /\ UNCHANGED <<cards, sales, spent, past, onSale, overtaken, job, crashes>>

ReadDueCards ==
  /\ sweep.pc = "memberships" /\ DOMAIN sweep.due = {}
  /\ sweep' = [pc |-> "cards",
               due |-> [c \in {x \in Cards \intersect past : card[x].status = "Active" /\ card[x].sold = "purchased"} |-> card[c].left]]
  /\ UNCHANGED <<cards, sales, membership, spent, expiry, onSale, job, crashes>>

\* Mutant: the balance is divided before the row is claimed.
ExpireGiftCardUnclaimed(c) ==
  /\ sweep.pc = "cards" /\ c \in DOMAIN sweep.due
  /\ Claimed(c)
  /\ card' = [card EXCEPT ![c] = IF @.status = "Active" THEN [@ EXCEPT !.status = "Expired", !.left = 0] ELSE @]
  /\ split' = [split EXCEPT ![c] = @ + sweep.due[c]]
  /\ UNCHANGED <<hold, sales, membership, spent, past, onSale, overtaken, job, crashes>>

ExpireGiftCard(c) ==
  /\ sweep.pc = "cards" /\ c \in DOMAIN sweep.due
  /\ Claimed(c)
  /\ IF card[c].status = "Active"
       THEN /\ card' = [card EXCEPT ![c].status = "Expired", ![c].left = 0]
            /\ split' = [split EXCEPT ![c] = @ + sweep.due[c]]
       ELSE UNCHANGED <<card, split>>
  /\ UNCHANGED <<hold, sales, membership, spent, past, onSale, overtaken, job, crashes>>

SweepEnds ==
  /\ sweep.pc = "cards" /\ DOMAIN sweep.due = {}
  /\ sweep' = Resting
  /\ UNCHANGED <<cards, sales, membership, spent, expiry, onSale, job, crashes>>

\* The server stops under a handler or under the sweep.
Crash ==
  /\ crashes < MaxCrashes
  /\ crashes' = crashes + 1
  /\ \/ \E h \in Handlers : ~Idle(h) /\ Done(h) /\ UNCHANGED sweep
     \/ sweep.pc # "idle" /\ sweep' = Resting /\ UNCHANGED job
  /\ UNCHANGED <<cards, sales, membership, spent, expiry, onSale>>

-----------------------------------------------------------------------------

HandlerStep(h) ==
  \/ HoldCard(h) \/ ChargeBuyer(h)
  \/ SellCard(h) \/ DropHold(h) \/ RefundUnfulfilled(h)
  \/ AssertNotInCheckout(h) \/ ApplyChange(h)
  \/ LookForGrant(h) \/ Grant(h) \/ RedeemSessions(h)

Request(h) ==
  \/ \E p \in Payments : ReadCardForSale(h, p) \/ BeginSale(h, p)
  \/ \E c \in Cards, change \in Changes : BeginChange(h, c, change)
  \/ \E m \in Memberships : BeginGrant(h, m) \/ \E n \in 1..Sessions : CheckMembership(h, m, n)

Sweep ==
  \/ ReadDueMemberships \/ ReadDueCards \/ SweepEnds
  \/ \E m \in Memberships : ExpireMembership(m)
  \/ \E c \in Cards : ExpireGiftCard(c)

Outside ==
  \/ \E c \in Cards : HoldExpires(c) \/ CreateGiftCard(c) \/ KhsDeactivates(c)
  \/ \E c \in Cards, n \in Values : PayWithGiftCard(c, n) \/ SettleGiftPart(c, n)
  \/ \E p \in Payments : BuyerPays(p)
  \/ \E m \in Memberships : StartMembershipPurchase(m) \/ MemberPays(m)
  \/ DeactivatePackage
  \/ \E g \in Goods : DatePasses(g)

Next ==
  \/ \E h \in Handlers : HandlerStep(h) \/ Request(h)
  \/ Sweep \/ Outside \/ Crash

Spec == Init /\ [][Next]_vars

-----------------------------------------------------------------------------
(* Properties. *)

\* A gift card has one buyer: of all payments for it one at most is kept, the
\* salon is paid that one and once, and the card holds that payment's money.
\* (completeGiftCardPurchase, by browser and webhook, after holds that ran out.)
SoldOnce ==
  \A p \in Payments :
    /\ earned[p] = IF pay[p].ledger = "completed" THEN 1 ELSE 0
    /\ pay[p].ledger = "completed" => card[CardOf[p]].sold = "purchased"
    /\ \A q \in Payments \ {p} : CardOf[p] = CardOf[q] => ~(pay[p].ledger = "completed" /\ pay[q].ledger = "completed")

Bought(g) == IF g \in Memberships THEN membership[g].rows * Sessions
             ELSE IF \E p \in Payments : CardOf[p] = g /\ pay[p].ledger = "completed"
                    THEN pay[CHOOSE p \in Payments : CardOf[p] = g /\ pay[p].ledger = "completed"].value ELSE 0
Left(g) == IF g \in Memberships THEN membership[g].left ELSE card[g].left

\* Every cent and session bought is on the card, spent, or divided at expiry,
\* exactly once; only what a booking takes while the sweep is between reading
\* the row and claiming it is divided besides having been spent.
WorthKept ==
  \A g \in Goods :
    IF g \in overtaken THEN spent[g] + Left(g) <= Bought(g)
                       ELSE spent[g] + Left(g) + split[g] = Bought(g)

\* A payment makes one membership, however often it is completed at once.
OneGrantPerPayment == \A m \in Memberships : membership[m].rows <= 1

\* giftCardChanges: "once sold its value, expiry and code never change, it
\* can't be deleted, and stopping it is left to KHS" as long as there is money
\* on it, whatever the salon read before the sale.
SoldCardIsTheBuyers ==
  [][\A c \in Cards : (card[c].sold = "purchased" /\ card[c].left > 0) =>
       /\ card'[c].amount = card[c].amount
       /\ card'[c].status # "deleted"
       /\ card'[c].status = "Inactive" /\ card[c].status # "Inactive" => card'[c].by = "admin"]_vars

\* completeGiftCardPurchase: "Safe to call again", and "Taken off sale while
\* the buyer was paying: refunded".  A payment given back is not also kept.
RefundedNotKept == \A p \in refunded : pay[p].ledger # "completed"

\* "The unused value is split between the salon and KHS": what a booking used is
\* not divided as well.
OnlyUnusedIsSplit == \A g \in Goods : spent[g] + Left(g) + split[g] <= Bought(g)
=============================================================================
