------------------------------ MODULE SalonWallet ------------------------------
(***************************************************************************)
(* One salon's wallet: what the platform pays into it, what it takes back, *)
(* and what the salon withdraws.  Booking earnings wait 48 hours in the    *)
(* pending balance; an hourly job moves those that are due to the balance  *)
(* the salon can withdraw from.  Fees and lost card disputes take pending  *)
(* money first and may leave the balance negative.                         *)
(*                                                                         *)
(* Every change of the wallet is one relative UPDATE, in one transaction   *)
(* with the record it belongs to, so each is one action.  Amounts are      *)
(* cents; a sum is counted cent by cent, as the size of a set of cents.    *)
(***************************************************************************)
EXTENDS Integers, FiniteSets

CONSTANTS
  Earnings,      \* money the platform pays into the wallet
  Held,          \* those paid with an availableAt: booking money
  Fees,          \* fees taken from the wallet
  Withdrawals,
  Disputes,      \* card disputes that are lost
  DisputeOf,     \* the earning whose payment each dispute is about
  Amount,        \* of each of these, in cents
  ChargebackFee, \* taken with every lost dispute
  Handlers,      \* deliveries of charge.dispute.closed being served
  NoDispute

Items == Earnings \union Fees \union Withdrawals \union Disputes

ASSUME WalletAssumptions ==
  /\ IsFiniteSet(Items)
  /\ Held \subseteq Earnings
  /\ DisputeOf \in [Disputes -> Earnings]
  /\ Amount \in [Items -> Nat]
  /\ ChargebackFee \in Nat
  /\ NoDispute \notin Disputes

\* No earning is also a fee, a withdrawal or a dispute, and so on.
ASSUME ItemsDistinct ==
  /\ Earnings \intersect (Fees \union Withdrawals \union Disputes) = {}
  /\ Fees \intersect (Withdrawals \union Disputes) = {}
  /\ Withdrawals \intersect Disputes = {}

VARIABLES
  balance, pending, income, expenses,  \* the columns of business_wallets
  earning,     \* each earning: not paid yet, waiting for its 48 hours, due, or available
  charged,     \* fees taken
  recovered,   \* disputes with their "Chargeback" record
  withdrawal,  \* status of each withdrawal
  job          \* the dispute each delivery found to be the salon's to pay

vars == <<balance, pending, income, expenses, earning, charged, recovered, withdrawal, job>>
wallet == <<balance, pending, income, expenses>>

EarningState == {"unpaid", "waiting", "due", "available"}
WithdrawalStatus == {"None", "Pending", "Processing", "Completed", "Cancelled", "Rejected"}

TypeOK ==
  /\ balance \in Int
  /\ pending \in Nat
  /\ income \in Nat
  /\ expenses \in Nat
  /\ earning \in [Earnings -> EarningState]
  /\ charged \subseteq Fees
  /\ recovered \subseteq Disputes
  /\ withdrawal \in [Withdrawals -> WithdrawalStatus]
  /\ job \in [Handlers -> Disputes \union {NoDispute}]

Init ==
  /\ balance = 0 /\ pending = 0 /\ income = 0 /\ expenses = 0
  /\ earning = [e \in Earnings |-> "unpaid"]
  /\ charged = {}
  /\ recovered = {}
  /\ withdrawal = [w \in Withdrawals |-> "None"]
  /\ job = [h \in Handlers |-> NoDispute]

\* What an item costs or brings: a dispute costs its fee as well.
Worth(x) == IF x \in Disputes THEN Amount[x] + ChargebackFee ELSE Amount[x]

Cents(S) == UNION {{x} \X (1..Worth(x)) : x \in S}
Total(S) == Cardinality(Cents(S))

In(state) == {e \in Earnings : earning[e] = state}
Paid == {e \in Earnings : earning[e] # "unpaid"}
Owed == In("waiting") \union In("due")
Out == {w \in Withdrawals : withdrawal[w] \in {"Pending", "Processing", "Completed"}}

Lesser(a, b) == IF a <= b THEN a ELSE b
Greater(a, b) == IF a <= b THEN b ELSE a

-----------------------------------------------------------------------------
(* Money in. *)

\* creditSalonWallet, with availableAt or without.
CreditSalonWallet(e) ==
  /\ earning[e] = "unpaid"
  /\ earning' = [earning EXCEPT ![e] = IF e \in Held THEN "waiting" ELSE "available"]
  /\ balance' = IF e \in Held THEN balance ELSE balance + Amount[e]
  /\ pending' = IF e \in Held THEN pending + Amount[e] ELSE pending
  /\ income' = income + Amount[e]
  /\ UNCHANGED <<expenses, charged, recovered, withdrawal, job>>

\* The 48 hours of an earning pass (external: the clock).
HoldEnds(e) ==
  /\ earning[e] = "waiting"
  /\ earning' = [earning EXCEPT ![e] = "due"]
  /\ UNCHANGED <<wallet, charged, recovered, withdrawal, job>>

\* Mutant: an earning's availableAt is cleared, and its money stays where it is.
ReleaseOnlyMarks ==
  /\ In("due") # {}
  /\ earning' = [e \in Earnings |-> IF earning[e] = "due" THEN "available" ELSE earning[e]]
  /\ UNCHANGED <<wallet, charged, recovered, withdrawal, job>>

\* The hourly job: every earning that is due, in one statement.
WalletRelease ==
  /\ In("due") # {}
  /\ earning' = [e \in Earnings |-> IF earning[e] = "due" THEN "available" ELSE earning[e]]
  /\ LET moved == Lesser(Total(In("due")), Greater(pending, 0)) IN
     /\ balance' = balance + moved
     /\ pending' = pending - moved
  /\ UNCHANGED <<income, expenses, charged, recovered, withdrawal, job>>

-----------------------------------------------------------------------------
(* Money taken back: chargeSalonWallet takes pending money first. *)

PendingAfter(p, amount) == p - Lesser(amount, Greater(p, 0))
BalanceAfter(b, p, amount) == b - Greater(amount - Greater(p, 0), 0)

ChargeSalonWallet(f) ==
  /\ f \notin charged
  /\ charged' = charged \union {f}
  /\ pending' = PendingAfter(pending, Amount[f])
  /\ balance' = BalanceAfter(balance, pending, Amount[f])
  /\ expenses' = expenses + Amount[f]
  /\ UNCHANGED <<income, earning, recovered, withdrawal, job>>

\* settleClosedDispute reads the payment before its transaction.  While the
\* salon has not been paid it only tells KHS, and the event is done with.
ReadDisputedPayment(h, d) ==
  /\ job[h] = NoDispute
  /\ earning[DisputeOf[d]] # "unpaid"
  /\ job' = [job EXCEPT ![h] = d]
  /\ UNCHANGED <<wallet, earning, charged, recovered, withdrawal>>

\* Mutant: the record of an earlier delivery is not looked for.
RecoverAgain(h) ==
  LET d == job[h]
      left == PendingAfter(pending, Amount[d]) IN
  /\ d # NoDispute
  /\ job' = [job EXCEPT ![h] = NoDispute]
  /\ recovered' = recovered \union {d}
  /\ pending' = PendingAfter(left, ChargebackFee)
  /\ balance' = BalanceAfter(BalanceAfter(balance, pending, Amount[d]), left, ChargebackFee)
  /\ expenses' = expenses + Amount[d] + ChargebackFee
  /\ UNCHANGED <<income, earning, charged, withdrawal>>

\* Under the dispute's advisory lock: the amount and then the fee, each with
\* chargeSalonWallet, unless an earlier delivery took them.
RecoverDispute(h) ==
  LET d == job[h]
      left == PendingAfter(pending, Amount[d]) IN
  /\ d # NoDispute
  /\ job' = [job EXCEPT ![h] = NoDispute]
  /\ IF d \in recovered
     THEN UNCHANGED <<wallet, recovered>>
     ELSE /\ recovered' = recovered \union {d}
          /\ pending' = PendingAfter(left, ChargebackFee)
          /\ balance' = BalanceAfter(BalanceAfter(balance, pending, Amount[d]), left, ChargebackFee)
          /\ expenses' = expenses + Amount[d] + ChargebackFee
          /\ UNCHANGED income
  /\ UNCHANGED <<earning, charged, withdrawal>>

\* The delivery fails or the server stops; Stripe delivers the event again.
DeliveryFails(h) ==
  /\ job[h] # NoDispute
  /\ job' = [job EXCEPT ![h] = NoDispute]
  /\ UNCHANGED <<wallet, earning, charged, recovered, withdrawal>>

-----------------------------------------------------------------------------
(* Money out: the wallet's side of a withdrawal (its payout is Payouts'). *)

\* One conditional UPDATE.  A request also fails, and changes nothing, when the
\* wallet is suspended or its payout account just changed.
RequestWithdrawal(w) ==
  /\ withdrawal[w] = "None"
  /\ balance >= Amount[w]
  /\ withdrawal' = [withdrawal EXCEPT ![w] = "Pending"]
  /\ balance' = balance - Amount[w]
  /\ expenses' = expenses + Amount[w]
  /\ UNCHANGED <<pending, income, earning, charged, recovered, job>>

\* The money of a withdrawal goes back to the balance.
ReturnMoney(w) ==
  /\ balance' = balance + Amount[w]
  /\ expenses' = Greater(expenses - Amount[w], 0)
  /\ UNCHANGED <<pending, income, earning, charged, recovered, job>>

CancelWithdrawal(w) ==
  /\ withdrawal[w] = "Pending"
  /\ withdrawal' = [withdrawal EXCEPT ![w] = "Cancelled"]
  /\ ReturnMoney(w)

\* KHS rejects a request, or approves it and it is paid (external; Payouts).
RejectWithdrawal(w) ==
  /\ withdrawal[w] = "Pending"
  /\ withdrawal' = [withdrawal EXCEPT ![w] = "Rejected"]
  /\ ReturnMoney(w)

PayWithdrawal(w) ==
  /\ \/ withdrawal[w] = "Pending" /\ withdrawal' = [withdrawal EXCEPT ![w] = "Processing"]
     \/ withdrawal[w] = "Processing" /\ withdrawal' = [withdrawal EXCEPT ![w] = "Completed"]
  /\ UNCHANGED <<wallet, earning, charged, recovered, job>>

Next ==
  \/ \E e \in Earnings : CreditSalonWallet(e) \/ HoldEnds(e)
  \/ WalletRelease
  \/ \E f \in Fees : ChargeSalonWallet(f)
  \/ \E h \in Handlers : RecoverDispute(h) \/ DeliveryFails(h) \/ \E d \in Disputes : ReadDisputedPayment(h, d)
  \/ \E w \in Withdrawals : RequestWithdrawal(w) \/ CancelWithdrawal(w) \/ RejectWithdrawal(w) \/ PayWithdrawal(w)

Spec == Init /\ [][Next]_vars

-----------------------------------------------------------------------------
(* What holds. *)

\* The wallet agrees with the records of the transactions table: the two
\* balances are what came in less what went out, each earning, fee, lost dispute
\* (however often Stripe delivers it) and open or paid withdrawal counted once.
Reconciles ==
  /\ income = Total(Paid)
  /\ expenses = Total(charged \union recovered \union Out)
  /\ balance + pending = income - expenses

\* No money is stuck in the pending balance: all of it belongs to earnings
\* walletRelease has still to move, charges or not.
PendingIsOwed == pending <= Total(Owed)

\* Only fees and lost disputes overdraw the wallet: whatever order withdrawals,
\* charges and releases come in, no withdrawal is paid with money that isn't there.
OnlyChargesOverdraw == balance + Total(charged \union recovered) >= 0

\* A fee or a lost dispute touches the money the salon may withdraw only once
\* the pending balance is used up (chargeSalonWallet, twice for a dispute).
PendingGoesFirst ==
  [][balance' < balance /\ withdrawal' = withdrawal => pending' = 0]_vars
=============================================================================
