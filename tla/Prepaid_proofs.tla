---------------------------- MODULE Prepaid_proofs ----------------------------
(***************************************************************************)
(* A gift card has one buyer, a payment makes one membership, and what was *)
(* bought is on the card, spent or divided, for any number of cards,       *)
(* buyers, payments and overlapping requests.                              *)
(***************************************************************************)
EXTENDS Prepaid, TLAPS

-----------------------------------------------------------------------------
(* The invariant. *)

Due == sweep.due

Typed ==
  /\ card \in [Cards -> Card]
  /\ pay \in [Payments -> Payment]
  /\ earned \in [Payments -> Nat]
  /\ membership \in [Memberships -> Membership]
  /\ spent \in [Goods -> Nat]
  /\ split \in [Goods -> Nat]
  /\ job \in [Handlers -> Job]
  /\ sweep = [pc |-> sweep.pc, due |-> sweep.due]

Starting(h) == At(h, "hold") \/ At(h, "charge")

\* A payment is being started by one request, and is not at Stripe yet.
StartsHold ==
  \A h \in Handlers : Starting(h) =>
    /\ pay[job[h].of].stripe = "none"
    /\ \A g \in Handlers : Starting(g) /\ job[g].of = job[h].of => g = h

\* Only a payment Stripe took is sold for.
SalesHold == \A h \in Handlers : At(h, "sell") => pay[job[h].of].stripe # "none"

\* The lock of a payment's grant.
GrantsHold ==
  \A h \in Handlers : At(h, "grant") =>
    /\ membership[job[h].of].rows = 0
    /\ \A g \in Handlers : At(g, "grant") /\ job[g].of = job[h].of => g = h

\* The lock of a membership's row.
RedemptionsHold ==
  \A h \in Handlers : At(h, "redeem") =>
    /\ job[h].sessions \in 1..membership[job[h].of].left
    /\ \A g \in Handlers : At(g, "redeem") /\ job[g].of = job[h].of => g = h

JobsHold == StartsHold /\ SalesHold /\ GrantsHold /\ RedemptionsHold

UnpaidHasNoRows == \A p \in Payments : pay[p].stripe = "none" => pay[p].ledger = "none"

BoughtByPayment(c, p) == CardOf[p] = c /\ pay[p].ledger = "completed"

PurchasedIsPaid == \A c \in Cards : card[c].sold = "purchased" => \E p \in Payments : BoughtByPayment(c, p)

OneRow == \A m \in Memberships : membership[m].rows \in {0, 1}

SalesInv == UnpaidHasNoRows /\ SoldOnce /\ PurchasedIsPaid /\ OneRow

\* Of v bought, with a part of it left.
Balanced(g, left, v) ==
  IF g \in overtaken THEN spent[g] + left <= v ELSE spent[g] + left + split[g] = v

CardsBalance ==
  \A c \in Cards :
    /\ card[c].sold = "available" => card[c].left = 0 /\ spent[c] = 0 /\ split[c] = 0
    /\ \A p \in Payments : BoughtByPayment(c, p) => Balanced(c, card[c].left, pay[p].value)

MembershipsBalance ==
  \A m \in Memberships :
    /\ membership[m].rows = 0 => membership[m].left = 0 /\ membership[m].status = "None" /\ spent[m] = 0 /\ split[m] = 0
    /\ membership[m].rows = 1 => Balanced(m, membership[m].left, Sessions)

\* What the sweep has read of a good nobody spent from since is what is left.
SweepHolds ==
  \A g \in DOMAIN Due :
    /\ g \in Goods
    /\ Due[g] \in Nat
    /\ g \in Cards => card[g].sold = "purchased" /\ (g \notin overtaken => Due[g] = card[g].left)
    /\ g \in Memberships => membership[g].rows = 1 /\ (g \notin overtaken => Due[g] = membership[g].left)

WorthInv == CardsBalance /\ MembershipsBalance /\ SweepHolds

IInv == Typed /\ JobsHold /\ SalesInv /\ WorthInv

-----------------------------------------------------------------------------
(* What a job is. *)

LEMMA KindOf ==
  ASSUME NEW j \in Job, j # NoJob
  PROVE  /\ j.pc \in {"hold", "charge", "sell", "unhold", "refund"} => j \in SaleJob
         /\ j.pc \in {"busy", "apply"} => j \in ChangeJob
         /\ j.pc \in {"lock", "grant", "redeem"} => j \in MembershipJob
BY DEF Job, SaleJob, ChangeJob, MembershipJob

LEMMA JobAt ==
  ASSUME Typed, NEW h \in Handlers, NEW step, At(h, step)
  PROVE  /\ job[h] \in Job /\ job[h] # NoJob /\ job[h].pc = step
         /\ step \in {"hold", "charge", "sell", "unhold", "refund"} => job[h] \in SaleJob
         /\ step \in {"busy", "apply"} => job[h] \in ChangeJob
         /\ step \in {"lock", "grant", "redeem"} => job[h] \in MembershipJob
BY KindOf DEF Typed, At

\* The goods of the two kinds are apart.
LEMMA GoodsApart == \A c \in Cards, m \in Memberships : c # m /\ c \in Goods /\ m \in Goods
BY PrepaidAssumptions DEF Goods

LEMMA InitHolds == Init => IInv
<1> SUFFICES ASSUME Init PROVE IInv
  OBVIOUS
<1>1. Typed
  BY DEF Init, Typed, Card, CardStatus, Payment, Membership, Job, None, Resting
<1>2. \A h \in Handlers : job[h] = NoJob
  BY DEF Init
<1>3. JobsHold
  BY <1>2 DEF JobsHold, StartsHold, Starting, SalesHold, GrantsHold, RedemptionsHold, At
<1>4. /\ \A p \in Payments : pay[p].stripe = "none" /\ pay[p].ledger = "none" /\ earned[p] = 0
      /\ \A c \in Cards : card[c].sold = "available" /\ card[c].left = 0
      /\ \A m \in Memberships : membership[m].rows = 0 /\ membership[m].left = 0 /\ membership[m].status = "None"
      /\ \A g \in Goods : spent[g] = 0 /\ split[g] = 0
  BY DEF Init, None
<1>d. DOMAIN Due = {}
  <2>1. Due = <<>>
    BY DEF Init, Due, Resting
  <2>2. DOMAIN <<>> = {}
    OBVIOUS
  <2> QED BY <2>1, <2>2
<1>5. SalesInv
  BY <1>4 DEF SalesInv, UnpaidHasNoRows, SoldOnce, PurchasedIsPaid, OneRow
<1>6. CardsBalance
  BY <1>4, GoodsApart DEF CardsBalance, BoughtByPayment, Goods
<1>7. MembershipsBalance
  BY <1>4 DEF MembershipsBalance, Goods
<1>8. SweepHolds
  BY <1>d DEF SweepHolds
<1> QED BY <1>1, <1>3, <1>5, <1>6, <1>7, <1>8 DEF IInv, WorthInv

-----------------------------------------------------------------------------
(* Steps that sell, spend and divide nothing. *)

\* What is bought, spent, left and divided stays; payments may be started,
\* paid or given up.
LEMMA WorthStays ==
  ASSUME IInv, Typed', JobsHold',
         \A c \in Cards : card'[c].sold = card[c].sold /\ card'[c].left = card[c].left,
         \A p \in Payments :
           /\ pay'[p].ledger = "completed" <=> pay[p].ledger = "completed"
           /\ pay[p].ledger = "completed" => pay'[p].value = pay[p].value
           /\ pay'[p].stripe = "none" => pay'[p].ledger = "none",
         \A m \in Memberships :
           /\ membership'[m].rows = membership[m].rows
           /\ membership'[m].left = membership[m].left
           /\ membership'[m].status = membership[m].status,
         UNCHANGED <<earned, spent, split, overtaken>>, SweepHolds'
  PROVE  IInv'
<1>1. \A c \in Cards, p \in Payments : BoughtByPayment(c, p)' <=> BoughtByPayment(c, p)
  BY DEF BoughtByPayment
<1>2. UnpaidHasNoRows' /\ OneRow'
  BY DEF IInv, SalesInv, UnpaidHasNoRows, OneRow
<1>3. SoldOnce'
  BY PrepaidAssumptions DEF IInv, SalesInv, SoldOnce
<1>4. PurchasedIsPaid'
  BY <1>1 DEF IInv, SalesInv, PurchasedIsPaid
<1>5. CardsBalance'
  BY <1>1 DEF IInv, WorthInv, CardsBalance, Balanced, BoughtByPayment
<1>6. MembershipsBalance'
  BY DEF IInv, WorthInv, MembershipsBalance, Balanced
<1> QED BY <1>2, <1>3, <1>4, <1>5, <1>6 DEF IInv, SalesInv, WorthInv

\* The same, with the sweep where it was.
LEMMA NothingSold ==
  ASSUME IInv, Typed', JobsHold', UNCHANGED <<pay, earned, membership, spent, split, overtaken, sweep>>,
         \A c \in Cards : card'[c].sold = card[c].sold /\ card'[c].left = card[c].left
  PROVE  IInv'
<1>1. SweepHolds'
  BY DEF IInv, WorthInv, SweepHolds, Due
<1>2. \A p \in Payments : pay[p].stripe = "none" => pay[p].ledger = "none"
  BY DEF IInv, SalesInv, UnpaidHasNoRows
<1> QED BY <1>1, <1>2, WorthStays

\* One request moves on.
LEMMA OneMoves ==
  ASSUME IInv, NEW h \in Handlers, NEW j \in Job, Continue(h, j), UNCHANGED <<pay, membership>>,
         (j # NoJob /\ j.pc \in {"hold", "charge"}) =>
           /\ pay[j.of].stripe = "none"
           /\ \A g \in Handlers \ {h} : Starting(g) => job[g].of # j.of,
         (j # NoJob /\ j.pc = "sell") => pay[j.of].stripe # "none",
         (j # NoJob /\ j.pc = "grant") =>
           /\ membership[j.of].rows = 0
           /\ \A g \in Handlers \ {h} : At(g, "grant") => job[g].of # j.of,
         (j # NoJob /\ j.pc = "redeem") =>
           /\ j.sessions \in 1..membership[j.of].left
           /\ \A g \in Handlers \ {h} : At(g, "redeem") => job[g].of # j.of
  PROVE  JobsHold' /\ job' \in [Handlers -> Job]
<1>1. job'[h] = j /\ (\A g \in Handlers \ {h} : job'[g] = job[g]) /\ job' \in [Handlers -> Job]
  BY DEF IInv, Typed, Continue
<1>2. StartsHold'
  BY <1>1 DEF IInv, JobsHold, StartsHold, Starting, At
<1>3. SalesHold'
  BY <1>1 DEF IInv, JobsHold, SalesHold, At
<1>4. GrantsHold'
  BY <1>1 DEF IInv, JobsHold, GrantsHold, At
<1>5. RedemptionsHold'
  BY <1>1 DEF IInv, JobsHold, RedemptionsHold, At
<1> QED BY <1>1, <1>2, <1>3, <1>4, <1>5 DEF JobsHold

\* A request that ends.
LEMMA OneEnds ==
  ASSUME IInv, NEW h \in Handlers, Done(h), UNCHANGED <<pay, membership>>
  PROVE  JobsHold' /\ job' \in [Handlers -> Job]
<1>1. NoJob \in Job
  BY DEF Job
<1> QED BY <1>1, OneMoves DEF Done

-----------------------------------------------------------------------------
(* The steps. *)

LEMMA KeepsRequest ==
  ASSUME IInv, NEW h \in Handlers, Request(h)
  PROVE  IInv'
<1> USE DEF cards, sales, expiry
<1>0. Typed
  BY DEF IInv
<1>1. ASSUME NEW j \in Job, Continue(h, j), UNCHANGED <<card, pay, earned, membership, spent, split, overtaken, sweep>>,
             JobsHold', job' \in [Handlers -> Job]
      PROVE  IInv'
  <2>1. Typed'
    BY <1>0, <1>1 DEF Typed
  <2> QED BY <1>1, <2>1, NothingSold
<1>2. ASSUME NEW p \in Payments, ReadCardForSale(h, p) PROVE IInv'
  <2> DEFINE j == [pc |-> "hold", of |-> p, value |-> card[CardOf[p]].amount, ok |-> "sold"]
  <2>1. j \in Job /\ j.pc = "hold" /\ j.of = p
    BY <1>0, PrepaidAssumptions DEF Typed, Card, Job, SaleJob
  <2>2. /\ Continue(h, j) /\ pay[p].stripe = "none"
        /\ \A g \in Handlers \ {h} : Starting(g) => job[g].of # p
        /\ UNCHANGED <<card, pay, earned, membership, spent, split, overtaken, sweep>>
    BY <1>2 DEF ReadCardForSale, Starting, At
  <2> HIDE DEF j
  <2> QED BY <1>1, <2>1, <2>2, OneMoves
<1>3. ASSUME NEW p \in Payments, BeginSale(h, p) PROVE IInv'
  <2> DEFINE j == [pc |-> "sell", of |-> p, value |-> 0, ok |-> "sold"]
  <2>1. j \in Job /\ j.pc = "sell" /\ j.of = p
    BY DEF Job, SaleJob
  <2>2. /\ Continue(h, j) /\ pay[p].stripe # "none"
        /\ UNCHANGED <<card, pay, earned, membership, spent, split, overtaken, sweep>>
    BY <1>3 DEF BeginSale
  <2> HIDE DEF j
  <2> QED BY <1>1, <2>1, <2>2, OneMoves
<1>4. ASSUME NEW c \in Cards, NEW change \in Changes, BeginChange(h, c, change) PROVE IInv'
  <2> DEFINE j == [pc |-> IF change = "reactivate" THEN "apply" ELSE "busy", of |-> c, change |-> change, seen |-> <<card[c].status, card[c].sold>>]
  <2>1. j \in Job /\ j.pc \in {"apply", "busy"}
    BY <1>0 DEF Typed, Card, Job, ChangeJob
  <2>2. Continue(h, j) /\ UNCHANGED <<card, pay, earned, membership, spent, split, overtaken, sweep>>
    BY <1>4 DEF BeginChange
  <2> HIDE DEF j
  <2> QED BY <1>1, <2>1, <2>2, OneMoves
<1>5. ASSUME NEW m \in Memberships, BeginGrant(h, m) PROVE IInv'
  <2> DEFINE j == [pc |-> "lock", of |-> m, sessions |-> 0]
  <2>1. j \in Job /\ j.pc = "lock"
    BY DEF Job, MembershipJob
  <2>2. Continue(h, j) /\ UNCHANGED <<card, pay, earned, membership, spent, split, overtaken, sweep>>
    BY <1>5 DEF BeginGrant
  <2> HIDE DEF j
  <2> QED BY <1>1, <2>1, <2>2, OneMoves
<1>6. ASSUME NEW m \in Memberships, NEW n \in 1..Sessions, CheckMembership(h, m, n) PROVE IInv'
  <2> DEFINE j == [pc |-> "redeem", of |-> m, sessions |-> n]
  <2>1. j \in Job /\ j.pc = "redeem" /\ j.of = m /\ j.sessions = n
    BY PrepaidAssumptions DEF Job, MembershipJob
  <2>2. /\ Continue(h, j) /\ n \in 1..membership[m].left
        /\ \A g \in Handlers : At(g, "redeem") => job[g].of # m
        /\ UNCHANGED <<card, pay, earned, membership, spent, split, overtaken, sweep>>
    BY <1>6 DEF CheckMembership, RowLocked
  <2> HIDE DEF j
  <2> QED BY <1>1, <2>1, <2>2, OneMoves
<1> QED BY <1>2, <1>3, <1>4, <1>5, <1>6 DEF Request

\* A handler that moves from one step to the next and sells nothing.
LEMMA KeepsMoving ==
  ASSUME IInv, NEW h \in Handlers, HoldCard(h) \/ DropHold(h) \/ AssertNotInCheckout(h) \/ LookForGrant(h)
  PROVE  IInv'
<1> USE DEF cards, sales, expiry
<1>0. Typed
  BY DEF IInv
<1>1. ASSUME UNCHANGED <<card, pay, earned, membership, spent, split, overtaken, sweep>>, JobsHold', job' \in [Handlers -> Job]
      PROVE  IInv'
  <2>1. Typed'
    BY <1>0, <1>1 DEF Typed
  <2> QED BY <1>1, <2>1, NothingSold
<1>2. UNCHANGED <<card, pay, earned, membership, spent, split, overtaken, sweep>>
  BY DEF HoldCard, DropHold, AssertNotInCheckout, LookForGrant
<1>3. CASE Done(h)
  BY <1>1, <1>2, <1>3, OneEnds
<1>4. CASE HoldCard(h) /\ Goto(h, "charge")
  <2> DEFINE j == [job[h] EXCEPT !.pc = "charge"]
  <2>1. job[h] \in SaleJob /\ Starting(h)
    BY <1>0, <1>4, JobAt DEF HoldCard, Starting
  <2>2. j \in SaleJob /\ j.pc = "charge" /\ j.of = job[h].of
    BY <2>1 DEF SaleJob
  <2>3. Continue(h, j) /\ j \in Job
    BY <1>4, <2>2 DEF Goto, Job
  <2> HIDE DEF j
  <2>4. pay[j.of].stripe = "none" /\ \A g \in Handlers \ {h} : Starting(g) => job[g].of # j.of
    BY <2>1, <2>2 DEF IInv, JobsHold, StartsHold
  <2> QED BY <1>1, <1>2, <2>2, <2>3, <2>4, OneMoves
<1>5. CASE DropHold(h) /\ Goto(h, "refund")
  <2> DEFINE j == [job[h] EXCEPT !.pc = "refund"]
  <2>1. job[h] \in SaleJob
    BY <1>0, <1>5, JobAt DEF DropHold
  <2>2. j \in SaleJob /\ j.pc = "refund"
    BY <2>1 DEF SaleJob
  <2>3. Continue(h, j) /\ j \in Job
    BY <1>5, <2>2 DEF Goto, Job
  <2> HIDE DEF j
  <2> QED BY <1>1, <1>2, <2>2, <2>3, OneMoves
<1>6. CASE AssertNotInCheckout(h) /\ Goto(h, "apply")
  <2> DEFINE j == [job[h] EXCEPT !.pc = "apply"]
  <2>1. job[h] \in ChangeJob
    BY <1>0, <1>6, JobAt DEF AssertNotInCheckout
  <2>2. j \in ChangeJob /\ j.pc = "apply"
    BY <2>1 DEF ChangeJob
  <2>3. Continue(h, j) /\ j \in Job
    BY <1>6, <2>2 DEF Goto, Job
  <2> HIDE DEF j
  <2> QED BY <1>1, <1>2, <2>2, <2>3, OneMoves
<1>7. CASE LookForGrant(h) /\ Goto(h, "grant")
  <2> DEFINE j == [job[h] EXCEPT !.pc = "grant"]
  <2>1. job[h] \in MembershipJob
    BY <1>0, <1>7, JobAt DEF LookForGrant
  <2>2. j \in MembershipJob /\ j.pc = "grant" /\ j.of = job[h].of
    BY <2>1 DEF MembershipJob
  <2>3. Continue(h, j) /\ j \in Job
    BY <1>7, <2>2 DEF Goto, Job
  <2>4. /\ Done(h) \/ membership[job[h].of].rows = 0
        /\ \A g \in Handlers : At(g, "grant") => job[g].of # job[h].of
    BY <1>7 DEF LookForGrant
  <2> HIDE DEF j
  <2> QED BY <1>1, <1>2, <1>3, <2>2, <2>3, <2>4, OneMoves
<1> QED BY <1>3, <1>4, <1>5, <1>6, <1>7 DEF HoldCard, DropHold, AssertNotInCheckout, LookForGrant

\* Whatever the salon or KHS changes of a card, it stays sold or for sale, and
\* worth what it is.
LEMMA ChangedKeeps ==
  ASSUME NEW r \in Card, NEW change \in Changes, NEW k \in Changed(r, change)
  PROVE  k \in Card /\ k.sold = r.sold /\ k.left = r.left
<1>1. CASE change = "update"
  <2>1. Changed(r, change) = {[r EXCEPT !.amount = v] : v \in Values}
    BY <1>1 DEF Changed
  <2> QED BY <2>1, PrepaidAssumptions DEF Card
<1>2. CASE change = "deactivate"
  <2>1. Changed(r, change) = {[r EXCEPT !.status = "Inactive", !.by = "merchant"]}
    BY <1>2 DEF Changed
  <2> QED BY <2>1 DEF Card, CardStatus
<1>3. CASE change = "reactivate"
  <2>1. Changed(r, change) = {[r EXCEPT !.status = "Active", !.by = "nobody"]}
    BY <1>3 DEF Changed
  <2> QED BY <2>1 DEF Card, CardStatus
<1>4. CASE change = "delete"
  <2>1. Changed(r, change) = {[r EXCEPT !.status = "deleted"]}
    BY <1>4 DEF Changed
  <2> QED BY <2>1 DEF Card, CardStatus
<1> QED BY <1>1, <1>2, <1>3, <1>4 DEF Changes

\* A change of one card's row that neither sells nor spends it.
LEMMA CardChanges ==
  ASSUME IInv, NEW c \in Cards, NEW r \in Card, r.sold = card[c].sold, r.left = card[c].left,
         card' = [card EXCEPT ![c] = r], job' \in [Handlers -> Job], JobsHold',
         UNCHANGED <<pay, earned, membership, spent, split, overtaken, sweep>>
  PROVE  IInv'
<1>1. Typed'
  BY DEF IInv, Typed
<1>2. \A d \in Cards : card'[d].sold = card[d].sold /\ card'[d].left = card[d].left
  BY DEF IInv, Typed
<1> QED BY <1>1, <1>2, NothingSold

LEMMA JobsStay ==
  ASSUME IInv, UNCHANGED <<pay, membership, job>>
  PROVE  JobsHold' /\ job' \in [Handlers -> Job]
BY DEF IInv, Typed, JobsHold, StartsHold, Starting, SalesHold, GrantsHold, RedemptionsHold, At

LEMMA KeepsApplyChange ==
  ASSUME IInv, NEW h \in Handlers, ApplyChange(h)
  PROVE  IInv'
<1>0. Typed
  BY DEF IInv
<1>1. Done(h) /\ UNCHANGED <<pay, earned, membership, spent, split, overtaken, sweep>>
  BY DEF ApplyChange, sales, expiry
<1>2. JobsHold' /\ job' \in [Handlers -> Job]
  BY <1>1, OneEnds
<1>3. job[h] \in ChangeJob
  BY <1>0, JobAt DEF ApplyChange
<1>4. job[h].of \in Cards /\ job[h].change \in Changes
  BY <1>3 DEF ChangeJob
<1>5. CASE UNCHANGED card
  <2>1. Typed'
    BY <1>0, <1>1, <1>2, <1>5 DEF Typed
  <2> QED BY <1>1, <1>2, <1>5, <2>1, NothingSold
<1>6. CASE card' # card
  <2>1. PICK r \in Changed(card[job[h].of], job[h].change) : card' = [card EXCEPT ![job[h].of] = r]
    BY <1>6 DEF ApplyChange
  <2>2. r \in Card /\ r.sold = card[job[h].of].sold /\ r.left = card[job[h].of].left
    BY <1>0, <1>4, ChangedKeeps DEF Typed
  <2> QED BY <1>1, <1>2, <1>4, <2>1, <2>2, CardChanges
<1> QED BY <1>5, <1>6

LEMMA KeepsCardRows ==
  ASSUME IInv, NEW c \in Cards, CreateGiftCard(c) \/ KhsDeactivates(c)
  PROVE  IInv'
<1>0. Typed /\ UNCHANGED <<pay, earned, membership, spent, split, overtaken, sweep, job>>
  BY DEF IInv, CreateGiftCard, KhsDeactivates, sales, expiry
<1>1. JobsHold' /\ job' \in [Handlers -> Job]
  BY <1>0, JobsStay
<1>2. card[c] \in Card
  BY <1>0 DEF Typed
<1>3. CASE CreateGiftCard(c)
  <2>1. PICK v \in Values : card' = [card EXCEPT ![c].status = "Active", ![c].amount = v]
    BY <1>3 DEF CreateGiftCard
  <2> DEFINE r == [card[c] EXCEPT !.status = "Active", !.amount = v]
  <2>2. card' = [card EXCEPT ![c] = r]
    BY <1>0, <2>1 DEF Typed
  <2>3. r \in Card /\ r.sold = card[c].sold /\ r.left = card[c].left
    BY <1>2, PrepaidAssumptions DEF Card, CardStatus
  <2> HIDE DEF r
  <2> QED BY <1>0, <1>1, <2>2, <2>3, CardChanges
<1>4. CASE KhsDeactivates(c)
  <2> DEFINE r == [card[c] EXCEPT !.status = "Inactive", !.by = "admin"]
  <2>2. card' = [card EXCEPT ![c] = r]
    BY <1>0, <1>4 DEF Typed, KhsDeactivates
  <2>3. r \in Card /\ r.sold = card[c].sold /\ r.left = card[c].left
    BY <1>2 DEF Card, CardStatus
  <2> HIDE DEF r
  <2> QED BY <1>0, <1>1, <2>2, <2>3, CardChanges
<1> QED BY <1>3, <1>4

\* Redis, the calendar, the package's sale and crashes change nothing of it.
LEMMA KeepsUnchanged ==
  ASSUME IInv, UNCHANGED <<card, pay, earned, membership, spent, split, overtaken, sweep, job>>
  PROVE  IInv'
<1>1. Typed'
  BY DEF IInv, Typed
<1> QED BY <1>1, JobsStay, NothingSold

\* The sweep at rest has read nothing.
LEMMA SweepRests ==
  ASSUME IInv, sweep' = Resting, UNCHANGED <<card, pay, earned, membership, spent, split, overtaken, job>>
  PROVE  IInv'
<1>1. Typed'
  BY DEF IInv, Typed, Resting
<1>2. SweepHolds'
  <2>1. Due' = <<>>
    BY DEF Due, Resting
  <2>2. DOMAIN <<>> = {}
    OBVIOUS
  <2> QED BY <2>1, <2>2 DEF SweepHolds
<1>3. \A p \in Payments : pay[p].stripe = "none" => pay[p].ledger = "none"
  BY DEF IInv, SalesInv, UnpaidHasNoRows
<1> QED BY <1>1, <1>2, <1>3, JobsStay, WorthStays

LEMMA KeepsCrash == ASSUME IInv, Crash PROVE IInv'
<1>0. Typed /\ UNCHANGED <<card, pay, earned, membership, spent, split, overtaken>>
  BY DEF IInv, Crash, cards, sales, expiry
<1>1. ASSUME NEW h \in Handlers, Done(h), UNCHANGED sweep PROVE IInv'
  <2>1. JobsHold' /\ job' \in [Handlers -> Job]
    BY <1>0, <1>1, OneEnds
  <2>2. Typed'
    BY <1>0, <1>1, <2>1 DEF Typed
  <2> QED BY <1>0, <1>1, <2>1, <2>2, NothingSold
<1>2. CASE sweep' = Resting /\ UNCHANGED job
  BY <1>0, <1>2, SweepRests
<1> QED BY <1>1, <1>2 DEF Crash

-----------------------------------------------------------------------------
(* The steps of a payment. *)

\* What happens to one payment that is not, and does not get, completed.
LEMMA PaymentChanges ==
  ASSUME IInv, NEW p \in Payments, NEW q \in Payment, pay' = [pay EXCEPT ![p] = q],
         pay[p].ledger = "completed" <=> q.ledger = "completed",
         pay[p].ledger = "completed" => q.value = pay[p].value,
         q.stripe = "none" => q.ledger = "none",
         JobsHold', job' \in [Handlers -> Job],
         UNCHANGED <<card, earned, membership, spent, split, overtaken, sweep>>
  PROVE  IInv'
<1>1. Typed'
  BY DEF IInv, Typed
<1>2. pay'[p] = q /\ \A u \in Payments \ {p} : pay'[u] = pay[u]
  BY DEF IInv, Typed
<1>3. SweepHolds'
  BY DEF IInv, WorthInv, SweepHolds, Due
<1>4. \A u \in Payments : pay[u].stripe = "none" => pay[u].ledger = "none"
  BY DEF IInv, SalesInv, UnpaidHasNoRows
<1> QED BY <1>1, <1>2, <1>3, <1>4, WorthStays

LEMMA KeepsChargeBuyer ==
  ASSUME IInv, NEW h \in Handlers, ChargeBuyer(h)
  PROVE  IInv'
<1> DEFINE p == job[h].of
           q == [stripe |-> "open", value |-> job[h].value, ledger |-> "pending"]
<1>0. Typed /\ Done(h) /\ UNCHANGED <<card, earned, membership, spent, split, overtaken, sweep>>
  BY DEF IInv, ChargeBuyer, cards, expiry
<1>1. job[h] \in SaleJob /\ Starting(h)
  BY <1>0, JobAt DEF ChargeBuyer, Starting
<1>2. p \in Payments /\ q \in Payment
  BY <1>1 DEF SaleJob, Payment
<1>3. pay' = [pay EXCEPT ![p] = q]
  BY DEF ChargeBuyer
<1>4. pay[p].stripe = "none" /\ \A g \in Handlers \ {h} : Starting(g) => job[g].of # p
  BY <1>1 DEF IInv, JobsHold, StartsHold
<1>5. pay[p].ledger = "none"
  BY <1>2, <1>4 DEF IInv, SalesInv, UnpaidHasNoRows
<1>6. q.stripe = "open" /\ q.ledger = "pending"
  OBVIOUS
<1> HIDE DEF p, q
<1>7. job'[h] = NoJob /\ \A g \in Handlers \ {h} : job'[g] = job[g]
  BY <1>0 DEF Typed, Done, Continue
<1>8. job' \in [Handlers -> Job]
  BY <1>0 DEF Typed, Done, Continue, Job
<1>9. \A u \in Payments \ {p} : pay'[u] = pay[u]
  BY <1>0, <1>3 DEF Typed
<1>10. \A step : \A g \in Handlers : At(g, step)' <=> g # h /\ At(g, step)
  BY <1>7 DEF At
<1>11. StartsHold'
  <2> SUFFICES ASSUME NEW g \in Handlers, Starting(g)'
               PROVE  /\ pay'[job'[g].of].stripe = "none"
                      /\ \A f \in Handlers : Starting(f)' /\ job'[f].of = job'[g].of => f = g
    BY DEF StartsHold
  <2>1. g # h /\ Starting(g) /\ job'[g] = job[g]
    BY <1>7, <1>10 DEF Starting
  <2>2. job[g] \in SaleJob
    BY <1>0, <2>1, JobAt DEF Starting
  <2>3. job[g].of \in Payments
    BY <2>2 DEF SaleJob
  <2> QED BY <1>4, <1>7, <1>9, <1>10, <2>1, <2>3 DEF IInv, JobsHold, StartsHold, Starting
<1>12. SalesHold'
  <2> SUFFICES ASSUME NEW g \in Handlers, At(g, "sell")'
               PROVE  pay'[job'[g].of].stripe # "none"
    BY DEF SalesHold
  <2>1. At(g, "sell") /\ job'[g] = job[g]
    BY <1>7, <1>10
  <2>2. job[g] \in SaleJob
    BY <1>0, <2>1, JobAt
  <2>3. job[g].of \in Payments
    BY <2>2 DEF SaleJob
  <2> QED BY <1>4, <1>9, <2>1, <2>3 DEF IInv, JobsHold, SalesHold
<1>13. GrantsHold' /\ RedemptionsHold'
  BY <1>0, <1>7, <1>10 DEF IInv, JobsHold, GrantsHold, RedemptionsHold
<1> QED BY <1>0, <1>2, <1>3, <1>5, <1>6, <1>8, <1>11, <1>12, <1>13, PaymentChanges DEF JobsHold

LEMMA KeepsBuyerPays ==
  ASSUME IInv, NEW p \in Payments, BuyerPays(p)
  PROVE  IInv'
<1> DEFINE q == [pay[p] EXCEPT !.stripe = "succeeded"]
<1>0. Typed /\ UNCHANGED <<card, earned, membership, spent, split, overtaken, sweep, job>>
  BY DEF IInv, BuyerPays, cards, expiry
<1>1. pay[p] \in Payment
  BY <1>0 DEF Typed
<1>2. q \in Payment /\ q.stripe = "succeeded" /\ q.ledger = pay[p].ledger /\ q.value = pay[p].value
  BY <1>1 DEF Payment
<1>3. pay' = [pay EXCEPT ![p] = q] /\ pay[p].stripe = "open"
  BY <1>0 DEF BuyerPays, Typed
<1> HIDE DEF q
<1>4. \A u \in Payments : pay'[u].stripe = "none" <=> pay[u].stripe = "none"
  BY <1>0, <1>2, <1>3 DEF Typed
<1>5. \A g \in Handlers : (Starting(g) \/ At(g, "sell")) => job[g].of \in Payments
  <2> SUFFICES ASSUME NEW g \in Handlers, Starting(g) \/ At(g, "sell") PROVE job[g].of \in Payments
    OBVIOUS
  <2>1. job[g] \in SaleJob
    BY <1>0, JobAt DEF Starting
  <2> QED BY <2>1 DEF SaleJob
<1>6. JobsHold'
  BY <1>0, <1>4, <1>5 DEF IInv, JobsHold, StartsHold, Starting, SalesHold, GrantsHold, RedemptionsHold, At
<1> QED BY <1>0, <1>2, <1>3, <1>6, PaymentChanges DEF Typed

LEMMA KeepsRefundUnfulfilled ==
  ASSUME IInv, NEW h \in Handlers, RefundUnfulfilled(h)
  PROVE  IInv'
<1>0. Typed /\ Done(h) /\ UNCHANGED <<card, earned, membership, spent, split, overtaken, sweep>>
  BY DEF IInv, RefundUnfulfilled, cards, expiry
<1>1. job[h] \in SaleJob
  BY <1>0, JobAt DEF RefundUnfulfilled
<1> DEFINE p == job[h].of
<1>2. p \in Payments
  BY <1>1 DEF SaleJob
<1>3. CASE UNCHANGED pay
  <2>1. JobsHold' /\ job' \in [Handlers -> Job]
    BY <1>0, <1>3, OneEnds
  <2>2. Typed'
    BY <1>0, <1>3, <2>1 DEF Typed
  <2> QED BY <1>0, <1>3, <2>1, <2>2, NothingSold
<1>4. CASE pay' = [pay EXCEPT ![p].ledger = IF @ = "pending" THEN "cancelled" ELSE @]
  <2> DEFINE q == [pay[p] EXCEPT !.ledger = IF pay[p].ledger = "pending" THEN "cancelled" ELSE pay[p].ledger]
  <2>1. pay[p] \in Payment /\ (pay[p].stripe = "none" => pay[p].ledger = "none")
    BY <1>0, <1>2 DEF Typed, IInv, SalesInv, UnpaidHasNoRows
  <2>2. /\ q \in Payment /\ q.stripe = pay[p].stripe /\ q.value = pay[p].value
        /\ q.ledger = IF pay[p].ledger = "pending" THEN "cancelled" ELSE pay[p].ledger
    BY <2>1 DEF Payment
  <2>3. pay' = [pay EXCEPT ![p] = q]
    BY <1>0, <1>2, <1>4 DEF Typed
  <2> HIDE DEF q
  <2>4. job'[h] = NoJob /\ (\A g \in Handlers \ {h} : job'[g] = job[g]) /\ job' \in [Handlers -> Job]
    BY <1>0 DEF Typed, Done, Continue, Job
  <2>5. \A u \in Payments : pay'[u].stripe = "none" <=> pay[u].stripe = "none"
    BY <1>0, <1>2, <2>2, <2>3 DEF Typed
  <2>6. \A g \in Handlers : (Starting(g) \/ At(g, "sell")) => job[g].of \in Payments
    <3> SUFFICES ASSUME NEW g \in Handlers, Starting(g) \/ At(g, "sell") PROVE job[g].of \in Payments
      OBVIOUS
    <3>1. job[g] \in SaleJob
      BY <1>0, JobAt DEF Starting
    <3> QED BY <3>1 DEF SaleJob
  <2>7. \A step : \A g \in Handlers : At(g, step)' <=> g # h /\ At(g, step)
    BY <2>4 DEF At
  <2>8. StartsHold' /\ SalesHold'
    BY <2>4, <2>5, <2>6, <2>7 DEF IInv, JobsHold, StartsHold, Starting, SalesHold
  <2>9. GrantsHold' /\ RedemptionsHold'
    BY <1>0, <2>4, <2>7 DEF IInv, JobsHold, GrantsHold, RedemptionsHold
  <2> QED BY <1>0, <1>2, <2>1, <2>2, <2>3, <2>4, <2>8, <2>9, PaymentChanges DEF JobsHold
<1> QED BY <1>3, <1>4 DEF RefundUnfulfilled

-----------------------------------------------------------------------------
(* What happens to cards leaves the memberships alone, and the reverse. *)

LEMMA CardsAlone ==
  ASSUME IInv, UNCHANGED <<card, pay, earned>>,
         \A c \in Cards : spent'[c] = spent[c] /\ split'[c] = split[c] /\ (c \in overtaken' <=> c \in overtaken)
  PROVE  UnpaidHasNoRows' /\ SoldOnce' /\ PurchasedIsPaid' /\ CardsBalance'
<1>1. UnpaidHasNoRows' /\ SoldOnce'
  BY DEF IInv, SalesInv, UnpaidHasNoRows, SoldOnce
<1>2. \A c \in Cards, p \in Payments : BoughtByPayment(c, p)' <=> BoughtByPayment(c, p)
  BY DEF BoughtByPayment
<1>3. PurchasedIsPaid'
  BY <1>2 DEF IInv, SalesInv, PurchasedIsPaid
<1>4. CardsBalance'
  BY <1>2 DEF IInv, WorthInv, CardsBalance, Balanced
<1> QED BY <1>1, <1>3, <1>4

LEMMA MembershipsAlone ==
  ASSUME IInv, UNCHANGED membership,
         \A m \in Memberships : spent'[m] = spent[m] /\ split'[m] = split[m] /\ (m \in overtaken' <=> m \in overtaken)
  PROVE  OneRow' /\ MembershipsBalance'
BY DEF IInv, SalesInv, WorthInv, OneRow, MembershipsBalance, Balanced

\* The sale.
LEMMA KeepsSale ==
  ASSUME IInv, NEW h \in Handlers, SellCard(h), Sell(job[h].of),
         card[CardOf[job[h].of]].sold = "available", Goto(h, "unhold")
  PROVE  IInv'
<1>0. Typed /\ UNCHANGED <<membership, spent, split, overtaken, sweep>>
  BY DEF IInv, SellCard, expiry
<1>1. job[h] \in SaleJob /\ At(h, "sell")
  BY <1>0, JobAt DEF SellCard
<1>p. PICK p \in Payments : p = job[h].of
  BY <1>1 DEF SaleJob
<1>c. PICK c \in Cards : c = CardOf[p]
  BY PrepaidAssumptions
<1>2. p = job[h].of /\ c = CardOf[p]
  BY <1>p, <1>c
<1>3. pay[p] \in Payment /\ card[c] \in Card /\ pay[p].stripe # "none" /\ card[c].sold = "available"
  BY <1>0, <1>1, <1>2 DEF Typed, IInv, JobsHold, SalesHold
<1>4. \A u \in Payments : CardOf[u] = c => pay[u].ledger # "completed"
  BY <1>3 DEF IInv, SalesInv, SoldOnce
<1> DEFINE q == [pay[p] EXCEPT !.ledger = "completed"]
           r == [card[c] EXCEPT !.sold = "purchased", !.left = pay[p].value]
<1>5. q \in Payment /\ q.stripe = pay[p].stripe /\ q.value = pay[p].value /\ q.ledger = "completed"
  BY <1>3 DEF Payment
<1>6. r \in Card /\ r.sold = "purchased" /\ r.left = pay[p].value
  BY <1>3 DEF Card, Payment
<1>7. /\ pay' = [pay EXCEPT ![p] = q]
      /\ card' = [card EXCEPT ![c] = r]
      /\ earned' = [earned EXCEPT ![p] = earned[p] + 1]
  BY <1>0, <1>2 DEF Typed, Sell
<1> HIDE DEF q, r
<1>8. /\ pay'[p] = q /\ \A u \in Payments \ {p} : pay'[u] = pay[u]
      /\ card'[c] = r /\ \A d \in Cards \ {c} : card'[d] = card[d]
      /\ \A u \in Payments \ {p} : earned'[u] = earned[u]
      /\ earned'[p] = 1
  BY <1>0, <1>2, <1>4, <1>7 DEF Typed, IInv, SalesInv, SoldOnce
<1>9. JobsHold' /\ job' \in [Handlers -> Job]
  <2> DEFINE j == [job[h] EXCEPT !.pc = "unhold"]
  <2>1. j \in SaleJob /\ j.pc = "unhold"
    BY <1>1 DEF SaleJob
  <2>2. j \in Job /\ job' = [job EXCEPT ![h] = j]
    BY <2>1 DEF Goto, Continue, Job
  <2> HIDE DEF j
  <2>3. job'[h] = j /\ (\A g \in Handlers \ {h} : job'[g] = job[g]) /\ job' \in [Handlers -> Job]
    BY <1>0, <2>2 DEF Typed
  <2>4. \A g \in Handlers, step \in {"hold", "charge", "sell", "grant", "redeem"} : At(g, step)' <=> g # h /\ At(g, step)
    BY <1>1, <2>1, <2>3 DEF At
  <2>5. \A u \in Payments : pay'[u].stripe = pay[u].stripe
    BY <1>2, <1>5, <1>8
  <2>6. \A g \in Handlers : (Starting(g) \/ At(g, "sell")) => job[g].of \in Payments
    <3> SUFFICES ASSUME NEW g \in Handlers, Starting(g) \/ At(g, "sell") PROVE job[g].of \in Payments
      OBVIOUS
    <3>1. job[g] \in SaleJob
      BY <1>0, JobAt DEF Starting
    <3> QED BY <3>1 DEF SaleJob
  <2>7. StartsHold' /\ SalesHold'
    BY <2>3, <2>4, <2>5, <2>6 DEF IInv, JobsHold, StartsHold, Starting, SalesHold
  <2>8. GrantsHold' /\ RedemptionsHold'
    BY <1>0, <2>3, <2>4 DEF IInv, JobsHold, GrantsHold, RedemptionsHold
  <2> QED BY <2>3, <2>7, <2>8 DEF JobsHold
<1>10. Typed'
  BY <1>0, <1>2, <1>5, <1>6, <1>7, <1>9 DEF Typed
<1>11. UnpaidHasNoRows'
  BY <1>3, <1>5, <1>8 DEF IInv, SalesInv, UnpaidHasNoRows
<1>12. \A d \in Cards, u \in Payments : BoughtByPayment(d, u)' <=> IF d = c THEN u = p ELSE BoughtByPayment(d, u)
  BY <1>2, <1>4, <1>5, <1>8 DEF BoughtByPayment
<1>13. SoldOnce'
  <2> SUFFICES ASSUME NEW u \in Payments
               PROVE  /\ earned'[u] = IF pay'[u].ledger = "completed" THEN 1 ELSE 0
                      /\ pay'[u].ledger = "completed" => card'[CardOf[u]].sold = "purchased"
                      /\ \A w \in Payments \ {u} : CardOf[u] = CardOf[w] => ~(pay'[u].ledger = "completed" /\ pay'[w].ledger = "completed")
    BY DEF SoldOnce
  <2>1. CASE u = p
    BY <1>2, <1>4, <1>5, <1>6, <1>8, <2>1
  <2>2. CASE u # p
    <3>1. CardOf[u] \in Cards /\ pay'[u] = pay[u]
      BY <1>8, <2>2, PrepaidAssumptions
    <3>2. \A w \in Payments \ {u} : CardOf[u] = CardOf[w] => ~(pay'[u].ledger = "completed" /\ pay'[w].ledger = "completed")
      BY <1>2, <1>4, <1>8, <2>2, <3>1 DEF IInv, SalesInv, SoldOnce
    <3>3. earned'[u] = IF pay'[u].ledger = "completed" THEN 1 ELSE 0
      BY <1>8, <2>2, <3>1 DEF IInv, SalesInv, SoldOnce
    <3>4. pay'[u].ledger = "completed" => card'[CardOf[u]].sold = "purchased"
      BY <1>4, <1>8, <3>1 DEF IInv, SalesInv, SoldOnce
    <3> QED BY <3>2, <3>3, <3>4
  <2> QED BY <2>1, <2>2
<1>14. PurchasedIsPaid'
  <2> SUFFICES ASSUME NEW d \in Cards, card'[d].sold = "purchased" PROVE \E u \in Payments : BoughtByPayment(d, u)'
    BY DEF PurchasedIsPaid
  <2>1. CASE d = c
    BY <1>2, <1>12, <2>1
  <2>2. CASE d # c
    BY <1>8, <1>12, <2>2 DEF IInv, SalesInv, PurchasedIsPaid
  <2> QED BY <2>1, <2>2
<1>15. CardsBalance'
  <2> SUFFICES ASSUME NEW d \in Cards
               PROVE  /\ card'[d].sold = "available" => card'[d].left = 0 /\ spent'[d] = 0 /\ split'[d] = 0
                      /\ \A u \in Payments : BoughtByPayment(d, u)' => Balanced(d, card[d].left, pay[u].value)'
    BY DEF CardsBalance
  <2>1. CASE d = c
    <3>1. spent[c] = 0 /\ split[c] = 0 /\ pay[p].value \in Nat
      BY <1>2, <1>3 DEF IInv, WorthInv, CardsBalance, Payment
    <3>2. Balanced(c, card[c].left, pay[p].value)'
      BY <1>0, <1>5, <1>6, <1>8, <3>1 DEF Balanced
    <3> QED BY <1>2, <1>6, <1>8, <1>12, <2>1, <3>2
  <2>2. CASE d # c
    <3>1. \A u \in Payments : BoughtByPayment(d, u)' => BoughtByPayment(d, u) /\ pay'[u] = pay[u]
      BY <1>2, <1>8, <1>12, <2>2 DEF BoughtByPayment
    <3> QED BY <1>0, <1>8, <2>2, <3>1 DEF IInv, WorthInv, CardsBalance, Balanced
  <2> QED BY <2>1, <2>2
<1>16. SweepHolds'
  BY <1>0, <1>2, <1>3, <1>8 DEF IInv, WorthInv, SweepHolds, Due
<1>17. OneRow' /\ MembershipsBalance'
  BY <1>0, MembershipsAlone
<1> QED BY <1>9, <1>10, <1>11, <1>13, <1>14, <1>15, <1>16, <1>17 DEF IInv, SalesInv, WorthInv

LEMMA KeepsSellCard ==
  ASSUME IInv, NEW h \in Handlers, SellCard(h)
  PROVE  IInv'
<1>0. Typed /\ At(h, "sell") /\ UNCHANGED <<membership, spent, split, overtaken, sweep>>
  BY DEF IInv, SellCard, expiry
<1>1. job[h] \in SaleJob
  BY <1>0, JobAt
<1>2. CASE card[CardOf[job[h].of]].sold = "available" /\ card[CardOf[job[h].of]].status = "Active"
  BY <1>2, KeepsSale DEF SellCard
<1>3. CASE ~(card[CardOf[job[h].of]].sold = "available" /\ card[CardOf[job[h].of]].status = "Active")
  <2>1. UNCHANGED <<card, pay, earned>>
    BY <1>3 DEF SellCard
  <2> DEFINE o == IF /\ card[CardOf[job[h].of]].sold = "purchased"
                     /\ pay[job[h].of].ledger = "completed" THEN "sold" ELSE "refund"
  <2>2. Continue(h, [job[h] EXCEPT !.pc = "unhold", !.ok = o])
    BY <1>3 DEF SellCard
  <2>x. o \in {"sold", "refund"}
    OBVIOUS
  <2> HIDE DEF o
  <2> DEFINE j == [job[h] EXCEPT !.pc = "unhold", !.ok = o]
  <2>3. j \in SaleJob /\ j.pc = "unhold"
    BY <1>1, <2>x DEF SaleJob
  <2>4. j \in Job /\ Continue(h, j)
    BY <2>2, <2>3 DEF Job
  <2> HIDE DEF j
  <2>5. JobsHold' /\ job' \in [Handlers -> Job]
    BY <1>0, <2>1, <2>3, <2>4, OneMoves
  <2>6. Typed'
    BY <1>0, <2>1, <2>5 DEF Typed
  <2> QED BY <1>0, <2>1, <2>5, <2>6, NothingSold
<1> QED BY <1>2, <1>3

-----------------------------------------------------------------------------
(* Spending. *)

\* k of a good's l are spent; the sweep may have read it.
LEMMA SpendingBalances ==
  ASSUME Typed, NEW g \in Goods, NEW k \in Nat, NEW l \in Nat, k <= l, NEW v \in Nat, Balanced(g, l, v),
         spent' = [spent EXCEPT ![g] = spent[g] + k], Overtakes(g), UNCHANGED split
  PROVE  /\ IF g \in overtaken' THEN spent'[g] + (l - k) <= v ELSE spent'[g] + (l - k) + split'[g] = v
         /\ g \in DOMAIN Due => g \in overtaken'
         /\ \A x \in Goods \ {g} : spent'[x] = spent[x] /\ split'[x] = split[x] /\ (x \in overtaken' <=> x \in overtaken)
<1>1. spent[g] \in Nat /\ split[g] \in Nat /\ spent'[g] = spent[g] + k /\ split'[g] = split[g]
  BY DEF Typed
<1>2. overtaken' = IF g \in DOMAIN Due THEN overtaken \union {g} ELSE overtaken
  BY DEF Overtakes, Due
<1>3. spent[g] + l <= v /\ (g \notin overtaken' => spent[g] + l + split[g] = v)
  BY <1>1, <1>2 DEF Balanced
<1>4. spent'[g] + (l - k) <= v /\ (g \notin overtaken' => spent'[g] + (l - k) + split'[g] = v)
  BY <1>1, <1>3
<1> QED BY <1>2, <1>4 DEF Typed

LEMMA KeepsTake ==
  ASSUME IInv, NEW c \in Cards, NEW k \in Nat, k <= card[c].left, card[c].sold = "purchased", Take(c, k)
  PROVE  IInv'
<1>0. Typed /\ UNCHANGED <<pay, earned, membership, split, job, sweep>>
  BY DEF IInv, Take, sales
<1>1. card[c] \in Card /\ c \in Goods
  BY <1>0 DEF Typed, Goods
<1> DEFINE s == IF card[c].left = k THEN "Used" ELSE card[c].status
           l == card[c].left
<1>9. l \in Nat /\ k <= l /\ l - k \in Nat /\ s \in CardStatus
  BY <1>1 DEF Card, CardStatus
<1> DEFINE r == [card[c] EXCEPT !.left = l - k, !.status = s]
<1>3. card' = [card EXCEPT ![c] = r] /\ spent' = [spent EXCEPT ![c] = spent[c] + k] /\ Overtakes(c)
  BY <1>0 DEF Take, Typed
<1>l. l = card[c].left
  OBVIOUS
<1> HIDE DEF s, l
<1>2. r \in Card /\ r.sold = "purchased" /\ r.left = l - k
  BY <1>1, <1>9 DEF Card
<1> HIDE DEF r
<1>4. card'[c] = r /\ \A d \in Cards \ {c} : card'[d] = card[d]
  BY <1>0, <1>3 DEF Typed
<1>5. spent' \in [Goods -> Nat] /\ card' \in [Cards -> Card]
  BY <1>0, <1>1, <1>2, <1>3 DEF Typed
<1>6. JobsHold' /\ Typed'
  BY <1>0, <1>5, JobsStay DEF Typed
<1>7. \A p \in Payments : BoughtByPayment(c, p) => pay[p].value \in Nat /\ Balanced(c, l, pay[p].value)
  BY <1>0, <1>l DEF IInv, WorthInv, CardsBalance, Typed, Payment
<1>8. PICK u \in Payments : BoughtByPayment(c, u)
  BY DEF IInv, SalesInv, PurchasedIsPaid
<1>10. \A p \in Payments : BoughtByPayment(c, p) =>
         IF c \in overtaken' THEN spent'[c] + r.left <= pay[p].value ELSE spent'[c] + r.left + split'[c] = pay[p].value
  <2> SUFFICES ASSUME NEW p \in Payments, BoughtByPayment(c, p)
               PROVE  IF c \in overtaken' THEN spent'[c] + r.left <= pay[p].value ELSE spent'[c] + r.left + split'[c] = pay[p].value
    OBVIOUS
  <2> DEFINE v == pay[p].value
  <2>1. v \in Nat /\ Balanced(c, l, v)
    BY <1>7
  <2> HIDE DEF v
  <2>2. IF c \in overtaken' THEN spent'[c] + (l - k) <= v ELSE spent'[c] + (l - k) + split'[c] = v
    BY <1>0, <1>1, <1>3, <1>9, <2>1, SpendingBalances
  <2> QED BY <1>2, <2>2 DEF v
<1>11. /\ c \in DOMAIN Due => c \in overtaken'
       /\ \A x \in Goods \ {c} : spent'[x] = spent[x] /\ split'[x] = split[x] /\ (x \in overtaken' <=> x \in overtaken)
  BY <1>0, <1>1, <1>3, <1>7, <1>8, <1>9, SpendingBalances
<1>12. \A d \in Cards, p \in Payments : BoughtByPayment(d, p)' <=> BoughtByPayment(d, p)
  BY <1>0 DEF BoughtByPayment
<1>13. UnpaidHasNoRows' /\ SoldOnce' /\ PurchasedIsPaid'
  <2>1. \A d \in Cards : card'[d].sold = card[d].sold
    BY <1>2, <1>4
  <2>2. UnpaidHasNoRows'
    BY <1>0 DEF IInv, SalesInv, UnpaidHasNoRows
  <2>3. SoldOnce'
    BY <1>0, <2>1, PrepaidAssumptions DEF IInv, SalesInv, SoldOnce
  <2>4. PurchasedIsPaid'
    BY <1>12, <2>1 DEF IInv, SalesInv, PurchasedIsPaid
  <2> QED BY <2>2, <2>3, <2>4
<1>14. CardsBalance'
  <2> SUFFICES ASSUME NEW d \in Cards
               PROVE  /\ card'[d].sold = "available" => card'[d].left = 0 /\ spent'[d] = 0 /\ split'[d] = 0
                      /\ \A p \in Payments : BoughtByPayment(d, p) => Balanced(d, card[d].left, pay[p].value)'
    BY <1>12 DEF CardsBalance
  <2>1. CASE d = c
    BY <1>0, <1>2, <1>4, <1>10, <2>1 DEF Balanced
  <2>2. CASE d # c
    <3>1. d \in Goods \ {c}
      BY <2>2 DEF Goods
    <3> QED BY <1>0, <1>4, <1>11, <2>2, <3>1 DEF IInv, WorthInv, CardsBalance, Balanced
  <2> QED BY <2>1, <2>2
<1>15. OneRow' /\ MembershipsBalance'
  BY <1>0, <1>11, GoodsApart, MembershipsAlone
<1>16. SweepHolds'
  <2> SUFFICES ASSUME NEW g \in DOMAIN Due
               PROVE  /\ g \in Goods
                      /\ Due[g] \in Nat
                      /\ g \in Cards => card'[g].sold = "purchased" /\ (g \notin overtaken' => Due[g] = card'[g].left)
                      /\ g \in Memberships => membership[g].rows = 1 /\ (g \notin overtaken' => Due[g] = membership[g].left)
    BY <1>0 DEF SweepHolds, Due
  <2>1. CASE g = c
    BY <1>1, <1>2, <1>4, <1>11, <2>1, GoodsApart DEF IInv, WorthInv, SweepHolds
  <2>2. CASE g # c
    BY <1>4, <1>11, <2>2 DEF IInv, WorthInv, SweepHolds
  <2> QED BY <2>1, <2>2
<1> QED BY <1>6, <1>13, <1>14, <1>15, <1>16 DEF IInv, SalesInv, WorthInv

LEMMA KeepsSpending ==
  ASSUME IInv, NEW c \in Cards, NEW n \in Values, PayWithGiftCard(c, n) \/ SettleGiftPart(c, n)
  PROVE  IInv'
<1>1. n \in Nat /\ card[c].left \in Nat
  BY PrepaidAssumptions DEF IInv, Typed, Card
<1>2. CASE PayWithGiftCard(c, n)
  BY <1>1, <1>2, KeepsTake DEF PayWithGiftCard
<1>3. CASE SettleGiftPart(c, n)
  <2> DEFINE k == IF n <= card[c].left THEN n ELSE card[c].left
  <2>1. k \in Nat /\ k <= card[c].left
    BY <1>1
  <2>2. Take(c, k) /\ card[c].sold = "purchased"
    BY <1>3 DEF SettleGiftPart
  <2> HIDE DEF k
  <2> QED BY <2>1, <2>2, KeepsTake
<1> QED BY <1>2, <1>3

-----------------------------------------------------------------------------
(* The steps of a membership. *)

LEMMA KeepsPurchase ==
  ASSUME IInv, NEW m \in Memberships, StartMembershipPurchase(m) \/ MemberPays(m)
  PROVE  IInv'
<1>0. Typed /\ UNCHANGED <<card, pay, earned, spent, split, overtaken, job, sweep>>
  BY DEF IInv, StartMembershipPurchase, MemberPays, cards, sales, expiry
<1>1. PICK s \in {"open", "succeeded"} : membership' = [membership EXCEPT ![m].stripe = s]
  BY DEF StartMembershipPurchase, MemberPays
<1> DEFINE k == [membership[m] EXCEPT !.stripe = s]
<1>2. membership[m] \in Membership
  BY <1>0 DEF Typed
<1>3. k \in Membership /\ k.rows = membership[m].rows /\ k.left = membership[m].left /\ k.status = membership[m].status
  BY <1>2 DEF Membership
<1>4. membership' = [membership EXCEPT ![m] = k]
  BY <1>0, <1>1 DEF Typed
<1> HIDE DEF k
<1>5. \A x \in Memberships : /\ membership'[x].rows = membership[x].rows
                             /\ membership'[x].left = membership[x].left
                             /\ membership'[x].status = membership[x].status
  BY <1>0, <1>3, <1>4 DEF Typed
<1>6. Typed'
  BY <1>0, <1>3, <1>4 DEF Typed
<1>7. \A g \in Handlers : (At(g, "grant") \/ At(g, "redeem")) => job[g].of \in Memberships
  <2> SUFFICES ASSUME NEW g \in Handlers, At(g, "grant") \/ At(g, "redeem") PROVE job[g].of \in Memberships
    OBVIOUS
  <2>1. job[g] \in MembershipJob
    BY <1>0, JobAt
  <2> QED BY <2>1 DEF MembershipJob
<1>8. JobsHold'
  BY <1>0, <1>5, <1>7 DEF IInv, JobsHold, StartsHold, Starting, SalesHold, GrantsHold, RedemptionsHold, At
<1>9. SweepHolds'
  BY <1>0, <1>5 DEF IInv, WorthInv, SweepHolds, Due
<1>10. \A p \in Payments : pay[p].stripe = "none" => pay[p].ledger = "none"
  BY DEF IInv, SalesInv, UnpaidHasNoRows
<1> QED BY <1>0, <1>5, <1>6, <1>8, <1>9, <1>10, WorthStays

\* When a request on a membership ends, no other holds its locks, and what
\* the others have locked is as it was.
LEMMA MembershipJobEnds ==
  ASSUME IInv, NEW h \in Handlers, Done(h), NEW m \in Memberships,
         \A g \in Handlers \ {h} : (At(g, "grant") \/ At(g, "redeem")) => job[g].of # m,
         \A x \in Memberships \ {m} : membership'[x] = membership[x],
         UNCHANGED pay
  PROVE  JobsHold' /\ job' \in [Handlers -> Job]
<1>0. Typed
  BY DEF IInv
<1>1. job'[h] = NoJob /\ (\A g \in Handlers \ {h} : job'[g] = job[g]) /\ job' \in [Handlers -> Job]
  BY <1>0 DEF Typed, Done, Continue, Job
<1>2. \A step : \A g \in Handlers : At(g, step)' <=> g # h /\ At(g, step)
  BY <1>1 DEF At
<1>3. StartsHold' /\ SalesHold'
  BY <1>1, <1>2 DEF IInv, JobsHold, StartsHold, Starting, SalesHold
<1>4. \A g \in Handlers : (At(g, "grant") \/ At(g, "redeem")) => job[g].of \in Memberships
  <2> SUFFICES ASSUME NEW g \in Handlers, At(g, "grant") \/ At(g, "redeem") PROVE job[g].of \in Memberships
    OBVIOUS
  <2>1. job[g] \in MembershipJob
    BY <1>0, JobAt
  <2> QED BY <2>1 DEF MembershipJob
<1>5. GrantsHold' /\ RedemptionsHold'
  BY <1>1, <1>2, <1>4 DEF IInv, JobsHold, GrantsHold, RedemptionsHold
<1> QED BY <1>1, <1>3, <1>5 DEF JobsHold

\* The membership after a step of its own.
LEMMA MembershipChanges ==
  ASSUME IInv, NEW m \in Memberships, NEW k \in Membership, membership' = [membership EXCEPT ![m] = k],
         k.rows = 1,
         IF m \in overtaken' THEN spent'[m] + k.left <= Sessions ELSE spent'[m] + k.left + split'[m] = Sessions,
         spent' \in [Goods -> Nat], split' \in [Goods -> Nat],
         \A x \in Goods \ {m} : spent'[x] = spent[x] /\ split'[x] = split[x] /\ (x \in overtaken' <=> x \in overtaken),
         JobsHold', job' \in [Handlers -> Job], UNCHANGED <<card, pay, earned>>,
         sweep' = [pc |-> sweep'.pc, due |-> sweep'.due], SweepHolds'
  PROVE  IInv'
<1>1. Typed'
  BY DEF IInv, Typed
<1>2. \A c \in Cards : c \in Goods \ {m}
  BY GoodsApart
<1>3. UnpaidHasNoRows' /\ SoldOnce' /\ PurchasedIsPaid' /\ CardsBalance'
  BY <1>2, CardsAlone
<1>4. membership'[m] = k /\ \A x \in Memberships \ {m} : membership'[x] = membership[x]
  BY DEF IInv, Typed
<1>5. OneRow'
  BY <1>4 DEF IInv, SalesInv, OneRow
<1>6. MembershipsBalance'
  <2> SUFFICES ASSUME NEW x \in Memberships
               PROVE  /\ membership'[x].rows = 0 => membership'[x].left = 0 /\ membership'[x].status = "None" /\ spent'[x] = 0 /\ split'[x] = 0
                      /\ membership'[x].rows = 1 => Balanced(x, membership[x].left, Sessions)'
    BY DEF MembershipsBalance
  <2>1. CASE x = m
    BY <1>4, <2>1 DEF Balanced
  <2>2. CASE x # m
    <3>1. x \in Goods \ {m}
      BY <2>2 DEF Goods
    <3> QED BY <1>4, <2>2, <3>1 DEF IInv, WorthInv, MembershipsBalance, Balanced
  <2> QED BY <2>1, <2>2
<1> QED BY <1>1, <1>3, <1>5, <1>6 DEF IInv, SalesInv, WorthInv

LEMMA KeepsGrant ==
  ASSUME IInv, NEW h \in Handlers, Grant(h)
  PROVE  IInv'
<1>0. Typed /\ At(h, "grant") /\ Done(h) /\ UNCHANGED <<card, pay, earned, spent, split, overtaken, sweep>>
  BY DEF IInv, Grant, cards, sales, expiry
<1>1. job[h] \in MembershipJob
  BY <1>0, JobAt
<1>2. PICK m \in Memberships : m = job[h].of
  BY <1>1 DEF MembershipJob
<1>3. membership[m].rows = 0 /\ \A g \in Handlers \ {h} : At(g, "grant") => job[g].of # m
  BY <1>0, <1>2 DEF IInv, JobsHold, GrantsHold
<1>4. membership[m].left = 0 /\ spent[m] = 0 /\ split[m] = 0
  BY <1>3 DEF IInv, WorthInv, MembershipsBalance
<1>5. \A g \in Handlers : At(g, "redeem") => job[g].of # m
  BY <1>4 DEF IInv, JobsHold, RedemptionsHold
<1> DEFINE k == [membership[m] EXCEPT !.rows = membership[m].rows + 1, !.left = Sessions, !.status = "ACTIVE"]
<1>6. membership[m] \in Membership
  BY <1>0 DEF Typed
<1>8. membership' = [membership EXCEPT ![m] = k]
  BY <1>0, <1>2 DEF Grant, Typed
<1>r. membership[m].rows + 1 = 1 /\ 1 \in Nat /\ Sessions \in Nat
  BY <1>3, PrepaidAssumptions
<1>7. k \in Membership /\ k.rows = 1 /\ k.left = Sessions
  <2>1. k = [membership[m] EXCEPT !.rows = 1, !.left = Sessions, !.status = "ACTIVE"]
    BY <1>r
  <2> HIDE DEF k
  <2> QED BY <1>6, <1>r, <2>1 DEF Membership
<1> HIDE DEF k
<1>9. \A x \in Memberships \ {m} : membership'[x] = membership[x]
  BY <1>0, <1>8 DEF Typed
<1>10. JobsHold' /\ job' \in [Handlers -> Job]
  BY <1>0, <1>3, <1>5, <1>9, MembershipJobEnds
<1>11. SweepHolds'
  <2> SUFFICES ASSUME NEW g \in DOMAIN Due
               PROVE  /\ g \in Goods
                      /\ Due[g] \in Nat
                      /\ g \in Cards => card[g].sold = "purchased" /\ (g \notin overtaken => Due[g] = card[g].left)
                      /\ g \in Memberships => membership'[g].rows = 1 /\ (g \notin overtaken => Due[g] = membership'[g].left)
    BY <1>0 DEF SweepHolds, Due
  <2>1. g # m
    BY <1>3 DEF IInv, WorthInv, SweepHolds
  <2> QED BY <1>9, <2>1 DEF IInv, WorthInv, SweepHolds
<1>12. m \in Goods
  BY DEF Goods
<1>13. IF m \in overtaken' THEN spent'[m] + k.left <= Sessions ELSE spent'[m] + k.left + split'[m] = Sessions
  BY <1>0, <1>4, <1>7, PrepaidAssumptions
<1>14. spent' \in [Goods -> Nat] /\ split' \in [Goods -> Nat] /\ sweep' = [pc |-> sweep'.pc, due |-> sweep'.due]
  BY <1>0 DEF Typed
<1> QED BY <1>0, <1>7, <1>8, <1>10, <1>11, <1>13, <1>14, MembershipChanges

LEMMA KeepsRedeemSessions ==
  ASSUME IInv, NEW h \in Handlers, RedeemSessions(h)
  PROVE  IInv'
<1>0. Typed /\ At(h, "redeem") /\ Done(h) /\ UNCHANGED <<card, pay, earned, split, sweep>>
  BY DEF IInv, RedeemSessions, cards, sales
<1>1. job[h] \in MembershipJob
  BY <1>0, JobAt
<1>2. PICK m \in Memberships : m = job[h].of
  BY <1>1 DEF MembershipJob
<1>3. membership[m] \in Membership /\ m \in Goods
  BY <1>0 DEF Typed, Goods
<1> DEFINE n == job[h].sessions
           l == membership[m].left
           s == IF l - n = 0 THEN "FULLY_REDEEMED" ELSE membership[m].status
<1>4. n \in 1..l /\ \A g \in Handlers \ {h} : At(g, "redeem") => job[g].of # m
  BY <1>0, <1>2 DEF IInv, JobsHold, RedemptionsHold
<1>5. l \in Nat /\ s \in {"None", "ACTIVE", "FULLY_REDEEMED", "EXPIRED"}
  BY <1>3 DEF Membership
<1>n. n \in Nat
  BY <1>1 DEF MembershipJob
<1>6. n \in Nat /\ n <= l /\ l - n \in Nat /\ l # 0
  <2> HIDE DEF n, l
  <2> QED BY <1>4, <1>5, <1>n
<1>7. membership[m].rows = 1
  BY <1>3, <1>6 DEF Membership, IInv, SalesInv, WorthInv, OneRow, MembershipsBalance
<1>8. Balanced(m, l, Sessions)
  BY <1>7 DEF IInv, WorthInv, MembershipsBalance
<1>9. \A g \in Handlers : At(g, "grant") => job[g].of # m
  BY <1>7 DEF IInv, JobsHold, GrantsHold
<1> DEFINE k == [membership[m] EXCEPT !.left = l - n, !.status = s]
<1>10. membership' = [membership EXCEPT ![m] = k] /\ spent' = [spent EXCEPT ![m] = spent[m] + n] /\ Overtakes(m)
  BY <1>0, <1>2 DEF RedeemSessions, Typed
<1> HIDE DEF s, n, l
<1>11. k \in Membership /\ k.rows = 1 /\ k.left = l - n
  BY <1>3, <1>5, <1>6, <1>7 DEF Membership
<1> HIDE DEF k
<1>12. \A x \in Memberships \ {m} : membership'[x] = membership[x]
  BY <1>0, <1>10 DEF Typed
<1>13. JobsHold' /\ job' \in [Handlers -> Job]
  BY <1>0, <1>4, <1>9, <1>12, MembershipJobEnds
<1>14. /\ IF m \in overtaken' THEN spent'[m] + (l - n) <= Sessions ELSE spent'[m] + (l - n) + split'[m] = Sessions
       /\ m \in DOMAIN Due => m \in overtaken'
       /\ \A x \in Goods \ {m} : spent'[x] = spent[x] /\ split'[x] = split[x] /\ (x \in overtaken' <=> x \in overtaken)
  BY <1>0, <1>3, <1>5, <1>6, <1>8, <1>10, SpendingBalances, PrepaidAssumptions
<1>15. SweepHolds'
  <2> SUFFICES ASSUME NEW g \in DOMAIN Due
               PROVE  /\ g \in Goods
                      /\ Due[g] \in Nat
                      /\ g \in Cards => card[g].sold = "purchased" /\ (g \notin overtaken' => Due[g] = card[g].left)
                      /\ g \in Memberships => membership'[g].rows = 1 /\ (g \notin overtaken' => Due[g] = membership'[g].left)
    BY <1>0 DEF SweepHolds, Due
  <2>1. CASE g = m
    <3>1. membership'[m].rows = 1
      BY <1>0, <1>10, <1>11 DEF Typed
    <3> QED BY <1>3, <1>14, <2>1, <3>1, GoodsApart DEF IInv, WorthInv, SweepHolds
  <2>2. CASE g # m
    BY <1>12, <1>14, <2>2 DEF IInv, WorthInv, SweepHolds
  <2> QED BY <2>1, <2>2
<1>16. spent' \in [Goods -> Nat] /\ split' \in [Goods -> Nat] /\ sweep' = [pc |-> sweep'.pc, due |-> sweep'.due]
  BY <1>0, <1>3, <1>6, <1>10 DEF Typed
<1> QED BY <1>0, <1>10, <1>11, <1>13, <1>14, <1>15, <1>16, MembershipChanges

-----------------------------------------------------------------------------
(* The sweep. *)

LEMMA KeepsReading ==
  ASSUME IInv, ReadDueMemberships \/ ReadDueCards
  PROVE  IInv'
<1>0. Typed /\ UNCHANGED <<card, pay, earned, membership, spent, split, overtaken, job>>
  BY DEF IInv, ReadDueMemberships, ReadDueCards, cards, sales, expiry
<1>1. \A m \in Memberships : membership[m].status = "ACTIVE" => membership[m].rows = 1 /\ membership[m].left \in Nat
  BY <1>0 DEF IInv, SalesInv, WorthInv, OneRow, MembershipsBalance, Typed, Membership
<1>2. \A c \in Cards : card[c].left \in Nat
  BY <1>0 DEF Typed, Card
<1>3. SweepHolds' /\ sweep' = [pc |-> sweep'.pc, due |-> sweep'.due]
  <2>1. CASE ReadDueMemberships
    <3>1. sweep' = [pc |-> "memberships", due |-> [m \in {x \in Memberships \intersect past : membership[x].status = "ACTIVE"} |-> membership[m].left]]
      BY <2>1 DEF ReadDueMemberships
    <3>2. /\ \A g \in DOMAIN Due' : g \in Memberships /\ membership[g].status = "ACTIVE" /\ Due'[g] = membership[g].left
          /\ sweep' = [pc |-> sweep'.pc, due |-> sweep'.due]
      BY <3>1 DEF Due
    <3>3. \A g \in Memberships : g \notin Cards /\ g \in Goods
      BY GoodsApart DEF Goods
    <3> QED BY <1>0, <1>1, <3>2, <3>3 DEF SweepHolds
  <2>2. CASE ReadDueCards
    <3>1. sweep' = [pc |-> "cards", due |-> [c \in {x \in Cards \intersect past : card[x].status = "Active" /\ card[x].sold = "purchased"} |-> card[c].left]]
      BY <2>2 DEF ReadDueCards
    <3>2. /\ \A g \in DOMAIN Due' : g \in Cards /\ card[g].sold = "purchased" /\ Due'[g] = card[g].left
          /\ sweep' = [pc |-> sweep'.pc, due |-> sweep'.due]
      BY <3>1 DEF Due
    <3>3. \A g \in Cards : g \notin Memberships /\ g \in Goods
      BY GoodsApart DEF Goods
    <3> QED BY <1>0, <1>2, <3>2, <3>3 DEF SweepHolds
  <2> QED BY <2>1, <2>2
<1>4. Typed'
  BY <1>0, <1>3 DEF Typed
<1>5. \A p \in Payments : pay[p].stripe = "none" => pay[p].ledger = "none"
  BY DEF IInv, SalesInv, UnpaidHasNoRows
<1> QED BY <1>0, <1>3, <1>4, <1>5, JobsStay, WorthStays

LEMMA ClaimedLeaves ==
  ASSUME Typed, NEW g, Claimed(g)
  PROVE  /\ sweep' = [pc |-> sweep'.pc, due |-> sweep'.due]
         /\ DOMAIN Due' = DOMAIN Due \ {g} /\ \A x \in DOMAIN Due' : Due'[x] = Due[x]
<1>1. sweep' = [pc |-> sweep.pc, due |-> [x \in DOMAIN sweep.due \ {g} |-> sweep.due[x]]]
  BY DEF Typed, Claimed
<1> QED BY <1>1 DEF Due

\* A row that was no longer active is passed over.
LEMMA KeepsPassing ==
  ASSUME IInv, NEW g, Claimed(g), UNCHANGED <<card, pay, earned, membership, spent, split, overtaken, job>>
  PROVE  IInv'
<1>1. Typed /\ Typed' /\ JobsHold'
  BY ClaimedLeaves, JobsStay DEF IInv, Typed
<1>2. SweepHolds'
  BY <1>1, ClaimedLeaves DEF IInv, WorthInv, SweepHolds
<1>3. \A p \in Payments : pay[p].stripe = "none" => pay[p].ledger = "none"
  BY DEF IInv, SalesInv, UnpaidHasNoRows
<1> QED BY <1>1, <1>2, <1>3, WorthStays

\* What was read of a good's l is divided.
LEMMA DividingBalances ==
  ASSUME Typed, NEW g \in Goods, NEW n \in Nat, NEW l \in Nat, NEW v \in Nat, Balanced(g, l, v),
         g \notin overtaken => n = l, split' = [split EXCEPT ![g] = split[g] + n], UNCHANGED <<spent, overtaken>>
  PROVE  /\ IF g \in overtaken' THEN spent'[g] + 0 <= v ELSE spent'[g] + 0 + split'[g] = v
         /\ \A x \in Goods \ {g} : spent'[x] = spent[x] /\ split'[x] = split[x] /\ (x \in overtaken' <=> x \in overtaken)
         /\ spent' \in [Goods -> Nat] /\ split' \in [Goods -> Nat]
<1>1. spent[g] \in Nat /\ split[g] \in Nat /\ split'[g] = split[g] + n /\ spent'[g] = spent[g]
  BY DEF Typed
<1>2. CASE g \in overtaken
  BY <1>1, <1>2 DEF Typed, Balanced
<1>3. CASE g \notin overtaken
  BY <1>1, <1>3 DEF Typed, Balanced
<1> QED BY <1>2, <1>3

LEMMA KeepsExpireMembership ==
  ASSUME IInv, NEW m \in Memberships, ExpireMembership(m)
  PROVE  IInv'
<1>0. Typed /\ Claimed(m) /\ m \in DOMAIN Due /\ UNCHANGED <<card, pay, earned, spent, overtaken, job>>
  BY DEF IInv, ExpireMembership, cards, sales, Due
<1>1. CASE UNCHANGED <<membership, split>>
  BY <1>0, <1>1, KeepsPassing
<1>2. CASE membership[m].status = "ACTIVE"
  <2>1. membership[m] \in Membership /\ m \in Goods /\ Due[m] \in Nat
    BY <1>0 DEF Typed, Goods, IInv, WorthInv, SweepHolds
  <2>2. membership[m].rows = 1 /\ membership[m].left \in Nat /\ (m \notin overtaken => Due[m] = membership[m].left)
    BY <1>0, <2>1 DEF IInv, WorthInv, SweepHolds, Membership
  <2>3. Balanced(m, membership[m].left, Sessions)
    BY <2>2 DEF IInv, WorthInv, MembershipsBalance
  <2> DEFINE k == [membership[m] EXCEPT !.status = "EXPIRED", !.left = 0]
  <2>4. k \in Membership /\ k.rows = 1 /\ k.left = 0
    BY <2>1, <2>2 DEF Membership
  <2>5. membership' = [membership EXCEPT ![m] = k] /\ split' = [split EXCEPT ![m] = split[m] + Due[m]]
    BY <1>0, <1>2 DEF ExpireMembership, Typed, Due
  <2> HIDE DEF k
  <2>6. \A x \in Memberships \ {m} : membership'[x] = membership[x]
    BY <1>0, <2>5 DEF Typed
  <2>7. /\ IF m \in overtaken' THEN spent'[m] + 0 <= Sessions ELSE spent'[m] + 0 + split'[m] = Sessions
        /\ \A x \in Goods \ {m} : spent'[x] = spent[x] /\ split'[x] = split[x] /\ (x \in overtaken' <=> x \in overtaken)
        /\ spent' \in [Goods -> Nat] /\ split' \in [Goods -> Nat]
    BY <1>0, <2>1, <2>2, <2>3, <2>5, DividingBalances, PrepaidAssumptions
  <2>8. \A g \in Handlers : (At(g, "grant") \/ At(g, "redeem")) => job[g].of \in Memberships \ {m}
    <3> SUFFICES ASSUME NEW g \in Handlers, At(g, "grant") \/ At(g, "redeem") PROVE job[g].of \in Memberships \ {m}
      OBVIOUS
    <3>1. job[g] \in MembershipJob
      BY <1>0, JobAt
    <3>2. At(g, "grant") => membership[job[g].of].rows = 0
      BY DEF IInv, JobsHold, GrantsHold
    <3>3. At(g, "redeem") => job[g].of # m
      BY DEF ExpireMembership, RowLocked
    <3> QED BY <2>2, <3>1, <3>2, <3>3 DEF MembershipJob
  <2>9. JobsHold' /\ job' \in [Handlers -> Job]
    <3>1. StartsHold' /\ SalesHold'
      BY <1>0 DEF IInv, JobsHold, StartsHold, Starting, SalesHold, At
    <3>2. GrantsHold' /\ RedemptionsHold'
      BY <1>0, <2>6, <2>8 DEF IInv, JobsHold, GrantsHold, RedemptionsHold, At
    <3> QED BY <1>0, <3>1, <3>2 DEF JobsHold, Typed
  <2>10. SweepHolds'
    <3> SUFFICES ASSUME NEW g \in DOMAIN Due, g # m
                 PROVE  /\ g \in Goods
                        /\ Due[g] \in Nat
                        /\ g \in Cards => card[g].sold = "purchased" /\ (g \notin overtaken => Due[g] = card[g].left)
                        /\ g \in Memberships => membership'[g].rows = 1 /\ (g \notin overtaken => Due[g] = membership'[g].left)
      BY <1>0, ClaimedLeaves DEF SweepHolds
    <3> QED BY <2>6 DEF IInv, WorthInv, SweepHolds
  <2>11. sweep' = [pc |-> sweep'.pc, due |-> sweep'.due]
    BY <1>0, ClaimedLeaves
  <2>12. IF m \in overtaken' THEN spent'[m] + k.left <= Sessions ELSE spent'[m] + k.left + split'[m] = Sessions
    BY <2>4, <2>7
  <2> QED BY <1>0, <2>4, <2>5, <2>7, <2>9, <2>10, <2>11, <2>12, MembershipChanges
<1> QED BY <1>1, <1>2 DEF ExpireMembership

LEMMA KeepsExpireGiftCard ==
  ASSUME IInv, NEW c \in Cards, ExpireGiftCard(c)
  PROVE  IInv'
<1>0. Typed /\ Claimed(c) /\ c \in DOMAIN Due /\ UNCHANGED <<pay, earned, membership, spent, overtaken, job>>
  BY DEF IInv, ExpireGiftCard, sales, Due
<1>1. CASE UNCHANGED <<card, split>>
  BY <1>0, <1>1, KeepsPassing
<1>2. CASE card[c].status = "Active"
  <2>1. card[c] \in Card /\ c \in Goods /\ Due[c] \in Nat /\ card[c].sold = "purchased"
    BY <1>0 DEF Typed, Goods, IInv, WorthInv, SweepHolds
  <2>2. card[c].left \in Nat /\ (c \notin overtaken => Due[c] = card[c].left)
    BY <1>0, <2>1 DEF IInv, WorthInv, SweepHolds, Card
  <2> DEFINE r == [card[c] EXCEPT !.status = "Expired", !.left = 0]
  <2>3. r \in Card /\ r.sold = "purchased" /\ r.left = 0
    BY <2>1 DEF Card, CardStatus
  <2>4. card' = [card EXCEPT ![c] = r] /\ split' = [split EXCEPT ![c] = split[c] + Due[c]]
    BY <1>0, <1>2 DEF ExpireGiftCard, Typed, Due
  <2> HIDE DEF r
  <2>5. card'[c] = r /\ (\A d \in Cards \ {c} : card'[d] = card[d]) /\ \A d \in Cards : card'[d].sold = card[d].sold
    BY <1>0, <2>1, <2>3, <2>4 DEF Typed
  <2>6. \A p \in Payments : BoughtByPayment(c, p) => pay[p].value \in Nat /\ Balanced(c, card[c].left, pay[p].value)
    BY <1>0 DEF IInv, WorthInv, CardsBalance, Typed, Payment
  <2>7. \A v \in Nat : Balanced(c, card[c].left, v) =>
          /\ IF c \in overtaken' THEN spent'[c] + 0 <= v ELSE spent'[c] + 0 + split'[c] = v
          /\ \A x \in Goods \ {c} : spent'[x] = spent[x] /\ split'[x] = split[x] /\ (x \in overtaken' <=> x \in overtaken)
          /\ spent' \in [Goods -> Nat] /\ split' \in [Goods -> Nat]
    BY <1>0, <2>1, <2>2, <2>4, DividingBalances
  <2>8. PICK u \in Payments : BoughtByPayment(c, u)
    BY <2>1 DEF IInv, SalesInv, PurchasedIsPaid
  <2>9. /\ \A x \in Goods \ {c} : spent'[x] = spent[x] /\ split'[x] = split[x] /\ (x \in overtaken' <=> x \in overtaken)
        /\ spent' \in [Goods -> Nat] /\ split' \in [Goods -> Nat]
    BY <2>6, <2>7, <2>8
  <2>10. Typed' /\ JobsHold'
    BY <1>0, <2>3, <2>4, <2>9, ClaimedLeaves, JobsStay DEF Typed
  <2>11. \A d \in Cards, p \in Payments : BoughtByPayment(d, p)' <=> BoughtByPayment(d, p)
    BY <1>0 DEF BoughtByPayment
  <2>12. UnpaidHasNoRows' /\ SoldOnce' /\ PurchasedIsPaid'
    <3>1. UnpaidHasNoRows'
      BY <1>0 DEF IInv, SalesInv, UnpaidHasNoRows
    <3>2. SoldOnce'
      BY <1>0, <2>5, PrepaidAssumptions DEF IInv, SalesInv, SoldOnce
    <3>3. PurchasedIsPaid'
      BY <2>5, <2>11 DEF IInv, SalesInv, PurchasedIsPaid
    <3> QED BY <3>1, <3>2, <3>3
  <2>13. CardsBalance'
    <3> SUFFICES ASSUME NEW d \in Cards
                 PROVE  /\ card'[d].sold = "available" => card'[d].left = 0 /\ spent'[d] = 0 /\ split'[d] = 0
                        /\ \A p \in Payments : BoughtByPayment(d, p) => Balanced(d, card[d].left, pay[p].value)'
      BY <2>11 DEF CardsBalance
    <3>1. CASE d = c
      BY <1>0, <2>3, <2>5, <2>6, <2>7, <3>1 DEF Balanced
    <3>2. CASE d # c
      <4>1. d \in Goods \ {c}
        BY <3>2 DEF Goods
      <4> QED BY <1>0, <2>5, <2>9, <3>2, <4>1 DEF IInv, WorthInv, CardsBalance, Balanced
    <3> QED BY <3>1, <3>2
  <2>14. OneRow' /\ MembershipsBalance'
    BY <1>0, <2>9, GoodsApart, MembershipsAlone
  <2>15. SweepHolds'
    <3> SUFFICES ASSUME NEW g \in DOMAIN Due, g # c
                 PROVE  /\ g \in Goods
                        /\ Due[g] \in Nat
                        /\ g \in Cards => card'[g].sold = "purchased" /\ (g \notin overtaken => Due[g] = card'[g].left)
                        /\ g \in Memberships => membership[g].rows = 1 /\ (g \notin overtaken => Due[g] = membership[g].left)
      BY <1>0, ClaimedLeaves DEF SweepHolds
    <3> QED BY <2>5 DEF IInv, WorthInv, SweepHolds
  <2> QED BY <2>10, <2>12, <2>13, <2>14, <2>15 DEF IInv, SalesInv, WorthInv
<1> QED BY <1>1, <1>2 DEF ExpireGiftCard

-----------------------------------------------------------------------------
(* The theorems. *)

LEMMA StepHolds == IInv /\ [Next]_vars => IInv'
<1> SUFFICES ASSUME IInv, [Next]_vars PROVE IInv'
  OBVIOUS
<1>1. ASSUME NEW h \in Handlers, HandlerStep(h) PROVE IInv'
  BY <1>1, KeepsMoving, KeepsChargeBuyer, KeepsSellCard, KeepsRefundUnfulfilled, KeepsApplyChange, KeepsGrant, KeepsRedeemSessions
     DEF HandlerStep
<1>2. ASSUME NEW h \in Handlers, Request(h) PROVE IInv'
  BY <1>2, KeepsRequest
<1>3. CASE Sweep
  <2>1. CASE SweepEnds
    BY <2>1, SweepRests DEF SweepEnds, cards, sales, expiry
  <2> QED BY <1>3, <2>1, KeepsReading, KeepsExpireMembership, KeepsExpireGiftCard DEF Sweep
<1>4. CASE Outside
  <2>1. ASSUME NEW c \in Cards, HoldExpires(c) PROVE IInv'
    BY <2>1, KeepsUnchanged DEF HoldExpires, sales, expiry
  <2>2. CASE DeactivatePackage
    BY <2>2, KeepsUnchanged DEF DeactivatePackage, cards, sales, expiry
  <2>3. ASSUME NEW g \in Goods, DatePasses(g) PROVE IInv'
    BY <2>3, KeepsUnchanged DEF DatePasses, cards, sales
  <2> QED BY <1>4, <2>1, <2>2, <2>3, KeepsCardRows, KeepsSpending, KeepsBuyerPays, KeepsPurchase DEF Outside
<1>5. CASE UNCHANGED vars
  BY <1>5, KeepsUnchanged DEF vars
<1> QED BY <1>1, <1>2, <1>3, <1>4, <1>5, KeepsCrash DEF Next

LEMMA InvariantHolds == Spec => []IInv
BY InitHolds, StepHolds, PTL DEF Spec

\* A gift card has one buyer: the salon is paid once, by the one payment for
\* it that is kept (completeGiftCardPurchase).
THEOREM CardsSoldOnce == Spec => []SoldOnce
<1>1. IInv => SoldOnce
  BY DEF IInv, SalesInv
<1> QED BY <1>1, InvariantHolds, PTL

\* A payment makes one membership, by browser and webhook at once
\* (completeMembershipPurchase, under the payment's lock).
THEOREM GrantedOnce == Spec => []OneGrantPerPayment
<1>1. IInv => OneGrantPerPayment
  BY DEF IInv, SalesInv, OneRow, OneGrantPerPayment
<1> QED BY <1>1, InvariantHolds, PTL

\* Every cent and session bought is left, spent or divided once, but for what
\* is spent between the sweep's read and its claim (prepaidExpiry).
THEOREM WorthIsKept == Spec => []WorthKept
<1>1. IInv => WorthKept
  <2> SUFFICES ASSUME IInv, NEW g \in Goods
               PROVE  IF g \in overtaken THEN spent[g] + Left(g) <= Bought(g) ELSE spent[g] + Left(g) + split[g] = Bought(g)
    BY DEF WorthKept
  <2>1. CASE g \in Memberships
    <3>1. Bought(g) = membership[g].rows * Sessions /\ Left(g) = membership[g].left /\ Sessions \in Nat
      BY <2>1, PrepaidAssumptions DEF Bought, Left
    <3>2. CASE membership[g].rows = 0
      BY <2>1, <3>1, <3>2 DEF IInv, WorthInv, MembershipsBalance
    <3>3. CASE membership[g].rows = 1
      BY <2>1, <3>1, <3>3 DEF IInv, WorthInv, MembershipsBalance, Balanced
    <3> QED BY <2>1, <3>2, <3>3 DEF IInv, SalesInv, OneRow
  <2>2. CASE g \notin Memberships
    <3>1. g \in Cards /\ Left(g) = card[g].left
      BY <2>2 DEF Goods, Left
    <3>2. CASE \E p \in Payments : BoughtByPayment(g, p)
      <4> DEFINE u == CHOOSE p \in Payments : CardOf[p] = g /\ pay[p].ledger = "completed"
      <4>1. u \in Payments /\ BoughtByPayment(g, u)
        BY <3>2 DEF BoughtByPayment
      <4>2. Bought(g) = pay[u].value
        BY <2>2, <3>2 DEF Bought, BoughtByPayment
      <4> HIDE DEF u
      <4> QED BY <3>1, <4>1, <4>2 DEF IInv, WorthInv, CardsBalance, Balanced
    <3>3. CASE ~\E p \in Payments : BoughtByPayment(g, p)
      <4>1. Bought(g) = 0
        BY <2>2, <3>3 DEF Bought, BoughtByPayment
      <4>2. card[g].sold = "available"
        BY <3>1, <3>3 DEF IInv, Typed, Card, SalesInv, PurchasedIsPaid
      <4> QED BY <3>1, <4>1, <4>2 DEF IInv, WorthInv, CardsBalance
    <3> QED BY <3>2, <3>3
  <2> QED BY <2>1, <2>2
<1> QED BY <1>1, InvariantHolds, PTL
=============================================================================
