--------------------------- MODULE SalonWallet_proofs ---------------------------
(***************************************************************************)
(* Proofs about SalonWallet: its books balance for every number of         *)
(* earnings, fees, disputes, withdrawals and deliveries, and all amounts.  *)
(***************************************************************************)
EXTENDS SalonWallet, FiniteSetTheorems, TLAPS

USE WalletAssumptions, ItemsDistinct

-----------------------------------------------------------------------------
(* Sums. *)

LEMMA WorthType == ASSUME NEW x \in Items PROVE Worth(x) \in Nat
BY DEF Worth, Items

\* The cents of one item are as many as it is worth.
LEMMA CentsOfOne ==
  ASSUME NEW x \in Items
  PROVE  IsFiniteSet({x} \X (1..Worth(x))) /\ Total({x}) = Worth(x)
<1> DEFINE n == Worth(x)
<1>1. n \in Nat BY WorthType
<1>2. IsFiniteSet(1..n) /\ Cardinality(1..n) = n
  BY <1>1, FS_Interval
<1>3. IsFiniteSet({x}) /\ Cardinality({x}) = 1
  BY FS_Singleton
<1>4. IsFiniteSet({x} \X (1..n)) /\ Cardinality({x} \X (1..n)) = 1 * n
  BY <1>2, <1>3, FS_Product
<1>5. Cents({x}) = {x} \X (1..n)
  BY DEF Cents
<1>6. 1 * n = n BY <1>1
<1> QED BY <1>4, <1>5, <1>6 DEF Total

LEMMA CentsFinite ==
  ASSUME NEW S \in SUBSET Items
  PROVE  IsFiniteSet(Cents(S)) /\ Total(S) \in Nat
<1> DEFINE f == [x \in S |-> {x} \X (1..Worth(x))]
           T == {{x} \X (1..Worth(x)) : x \in S}
<1>1. IsFiniteSet(S) BY FS_Subset
<1>2. f \in Surjection(S, T) BY DEF Surjection
<1>3. IsFiniteSet(T) BY <1>1, <1>2, FS_Surjection
<1>4. \A U \in T : IsFiniteSet(U) BY CentsOfOne
<1>5. IsFiniteSet(UNION T) BY <1>3, <1>4, FS_UNION
<1> QED BY <1>5, FS_CardinalityType DEF Cents, Total

\* Sums add up over disjoint sets.
LEMMA TotalOfBoth ==
  ASSUME NEW S \in SUBSET Items, NEW T \in SUBSET Items, S \intersect T = {}
  PROVE  Total(S \union T) = Total(S) + Total(T)
<1>1. Cents(S \union T) = Cents(S) \union Cents(T) BY DEF Cents
<1>2. Cents(S) \intersect Cents(T) = {} BY DEF Cents
<1>3. Cardinality(Cents(S) \intersect Cents(T)) = 0 BY <1>2, FS_EmptySet
<1>4. IsFiniteSet(Cents(S)) /\ IsFiniteSet(Cents(T)) /\ Total(S) \in Nat /\ Total(T) \in Nat
  BY CentsFinite
<1>5. Cardinality(Cents(S) \union Cents(T)) = Cardinality(Cents(S)) + Cardinality(Cents(T)) - Cardinality(Cents(S) \intersect Cents(T))
  BY <1>4, FS_Union
<1>6. Total(S \union T) = Total(S) + Total(T) - 0 BY <1>1, <1>3, <1>5 DEF Total
<1> QED BY <1>4, <1>6

LEMMA TotalAdd ==
  ASSUME NEW S \in SUBSET Items, NEW x \in Items, x \notin S
  PROVE  Total(S \union {x}) = Total(S) + Worth(x)
<1>1. Total({x}) = Worth(x) BY CentsOfOne
<1> QED BY <1>1, TotalOfBoth

LEMMA TotalOfNone == Total({}) = 0
BY FS_EmptySet DEF Total, Cents

-----------------------------------------------------------------------------
(* A lost dispute: its amount and then its fee are taken as one amount would be. *)

LEMMA TwoCharges ==
  ASSUME NEW b \in Int, NEW p \in Nat, NEW a \in Nat, NEW c \in Nat
  PROVE  /\ PendingAfter(PendingAfter(p, a), c) = IF a + c <= p THEN p - (a + c) ELSE 0
         /\ BalanceAfter(BalanceAfter(b, p, a), PendingAfter(p, a), c) = IF a + c <= p THEN b ELSE b + p - (a + c)
<1> DEFINE left == PendingAfter(p, a)
           b1 == BalanceAfter(b, p, a)
<1>1. /\ left = IF a <= p THEN p - a ELSE 0
      /\ b1 = IF a <= p THEN b ELSE b + p - a
  BY DEF PendingAfter, BalanceAfter, Lesser, Greater
<1>2. left \in Nat /\ b1 \in Int BY <1>1
<1> HIDE DEF left, b1
<1>3. PendingAfter(left, c) = IF c <= left THEN left - c ELSE 0
  BY <1>2 DEF PendingAfter, Lesser, Greater
<1>4. BalanceAfter(b1, left, c) = IF c <= left THEN b1 ELSE b1 + left - c
  BY <1>2 DEF BalanceAfter, Greater
<1>5. PendingAfter(left, c) = IF a + c <= p THEN p - (a + c) ELSE 0 BY <1>1, <1>2, <1>3
<1>6. BalanceAfter(b1, left, c) = IF a + c <= p THEN b ELSE b + p - (a + c) BY <1>1, <1>2, <1>4
<1> QED BY <1>5, <1>6 DEF left, b1

-----------------------------------------------------------------------------
(* The inductive invariant. *)

Gone == charged \union recovered \union Out

Inv == TypeOK /\ Reconciles /\ PendingIsOwed /\ OnlyChargesOverdraw

LEMMA SetTypes ==
  ASSUME TypeOK
  PROVE  /\ Paid \in SUBSET Items /\ Owed \in SUBSET Items /\ Gone \in SUBSET Items
         /\ In("waiting") \in SUBSET Items /\ In("due") \in SUBSET Items
         /\ charged \union recovered \in SUBSET Items
         /\ Total(Paid) \in Nat /\ Total(Owed) \in Nat /\ Total(Gone) \in Nat
         /\ Total(In("waiting")) \in Nat /\ Total(In("due")) \in Nat
         /\ Total(charged \union recovered) \in Nat
<1>1. /\ Paid \in SUBSET Items /\ Owed \in SUBSET Items /\ Gone \in SUBSET Items
      /\ In("waiting") \in SUBSET Items /\ In("due") \in SUBSET Items
      /\ charged \union recovered \in SUBSET Items
  BY DEF TypeOK, Paid, Owed, Gone, In, Out, Items
<1> QED BY <1>1, CentsFinite

LEMMA InvInit == Init => Inv
<1> SUFFICES ASSUME Init PROVE Inv OBVIOUS
<1>1. TypeOK BY DEF Init, TypeOK, EarningState, WithdrawalStatus
<1>2. Paid = {} /\ charged \union recovered = {} /\ charged \union recovered \union Out = {}
  BY DEF Init, Paid, Out
<1>3. Total(Owed) \in Nat BY <1>1, SetTypes
<1>4. Reconciles BY <1>2, TotalOfNone DEF Init, Reconciles
<1>5. PendingIsOwed BY <1>3 DEF Init, PendingIsOwed
<1>6. OnlyChargesOverdraw BY <1>2, TotalOfNone DEF Init, OnlyChargesOverdraw
<1> QED BY <1>1, <1>4, <1>5, <1>6 DEF Inv

LEMMA KeepsCredit ==
  ASSUME Inv, NEW e \in Earnings, CreditSalonWallet(e)
  PROVE  Inv'
<1> USE DEF Inv
<1>1. Amount[e] \in Nat /\ Worth(e) = Amount[e] /\ e \in Items
  BY DEF Items, Worth
<1>2. TypeOK'
  BY <1>1 DEF CreditSalonWallet, TypeOK, EarningState
<1>3. Paid' = Paid \union {e} /\ e \notin Paid /\ Total(Paid') = Total(Paid) + Amount[e]
  <2>1. Paid' = Paid \union {e} /\ e \notin Paid
    BY DEF CreditSalonWallet, TypeOK, Paid
  <2> QED BY <2>1, <1>1, SetTypes, TotalAdd
<1>4. Reconciles'
  <2>1. (charged \union recovered \union Out)' = charged \union recovered \union Out
    BY DEF CreditSalonWallet, Out
  <2>2. balance' + pending' = balance + pending + Amount[e]
    BY <1>1 DEF CreditSalonWallet, TypeOK
  <2>3. income' = Total(Paid)' /\ expenses' = Total(Gone)'
    BY <1>3, <2>1 DEF CreditSalonWallet, Reconciles, Gone
  <2> QED BY <2>2, <2>3, <1>1 DEF CreditSalonWallet, Reconciles, TypeOK, Gone
<1>5. PendingIsOwed'
  <2>1. CASE e \in Held
    <3>1. Owed' = Owed \union {e} /\ e \notin Owed
      BY <2>1 DEF CreditSalonWallet, TypeOK, Owed, In
    <3>2. Total(Owed') = Total(Owed) + Amount[e]
      BY <3>1, <1>1, SetTypes, TotalAdd
    <3> QED BY <3>2, <2>1, <1>1, SetTypes DEF CreditSalonWallet, PendingIsOwed, TypeOK
  <2>2. CASE e \notin Held
    <3>1. Owed' = Owed
      BY <2>2 DEF CreditSalonWallet, TypeOK, Owed, In
    <3> QED BY <3>1, <2>2 DEF CreditSalonWallet, PendingIsOwed
  <2> QED BY <2>1, <2>2
<1>6. OnlyChargesOverdraw'
  BY <1>1, SetTypes DEF CreditSalonWallet, OnlyChargesOverdraw, TypeOK
<1> QED BY <1>2, <1>4, <1>5, <1>6

LEMMA KeepsHoldEnds ==
  ASSUME Inv, NEW e \in Earnings, HoldEnds(e)
  PROVE  Inv'
<1>1. Paid' = Paid /\ Owed' = Owed /\ Out' = Out
  BY DEF Inv, HoldEnds, TypeOK, Paid, Owed, In, Out
<1>2. TypeOK'
  BY DEF Inv, HoldEnds, TypeOK, EarningState, wallet
<1> QED BY <1>1, <1>2 DEF Inv, HoldEnds, wallet, Reconciles, PendingIsOwed, OnlyChargesOverdraw

LEMMA KeepsRelease ==
  ASSUME Inv, WalletRelease
  PROVE  Inv'
<1> USE DEF Inv
<1> DEFINE due == Total(In("due"))
           waiting == Total(In("waiting"))
           moved == Lesser(due, Greater(pending, 0))
<1>1. due \in Nat /\ waiting \in Nat BY SetTypes
<1>2. pending \in Nat /\ balance \in Int BY DEF TypeOK
<1>3. moved \in Nat /\ moved <= pending /\ (moved = due \/ moved = pending)
  BY <1>1, <1>2 DEF Lesser, Greater
<1>4. Total(Owed) = waiting + due
  <2>1. In("waiting") \intersect In("due") = {} BY DEF In
  <2> QED BY <2>1, SetTypes, TotalOfBoth DEF Owed
<1>5. balance' = balance + moved /\ pending' = pending - moved
  BY DEF WalletRelease
<1>6. Paid' = Paid /\ Owed' = In("waiting") /\ Out' = Out
  BY DEF WalletRelease, TypeOK, Paid, Owed, In, Out
<1> HIDE DEF due, waiting, moved
<1>7. pending' \in Nat /\ balance' \in Int /\ balance' + pending' = balance + pending /\ balance <= balance'
  BY <1>2, <1>3, <1>5
<1>8. TypeOK'
  BY <1>7 DEF WalletRelease, TypeOK, EarningState
<1>9. pending' <= waiting
  BY <1>1, <1>2, <1>3, <1>4, <1>5 DEF PendingIsOwed
<1>10. Reconciles'
  BY <1>6, <1>7 DEF WalletRelease, Reconciles
<1>11. PendingIsOwed'
  BY <1>6, <1>9 DEF PendingIsOwed, waiting
<1>12. OnlyChargesOverdraw'
  <2>1. Total(charged \union recovered)' = Total(charged \union recovered)
    BY DEF WalletRelease
  <2> QED BY <2>1, <1>2, <1>7, SetTypes DEF OnlyChargesOverdraw
<1> QED BY <1>8, <1>10, <1>11, <1>12

\* What any charge of amount a for item x does to the sums.
LEMMA KeepsCharge ==
  ASSUME Inv, TypeOK', NEW x \in Fees \union Disputes, x \notin charged \union recovered,
         (charged \union recovered)' = charged \union recovered \union {x},
         balance' + pending' = balance + pending - Worth(x),
         balance - Worth(x) <= balance', pending' <= pending,
         expenses' = expenses + Worth(x), UNCHANGED <<income, earning, withdrawal>>
  PROVE  Inv'
<1> USE DEF Inv
<1>1. x \in Items /\ Worth(x) \in Nat /\ x \notin Gone
  <2>1. x \in Items BY DEF Items
  <2>2. x \notin Out BY DEF Out
  <2> QED BY <2>1, <2>2, WorthType DEF Gone
<1>2. Paid' = Paid /\ Owed' = Owed /\ Gone' = Gone \union {x}
  BY DEF Paid, Owed, In, Gone, Out
<1>3. Total(Gone') = Total(Gone) + Worth(x) /\ Total((charged \union recovered)') = Total(charged \union recovered) + Worth(x)
  BY <1>1, <1>2, SetTypes, TotalAdd
<1>4. Reconciles'
  <2>1. income' = Total(Paid') /\ expenses' = Total(Gone')
    BY <1>2, <1>3 DEF Reconciles, Gone
  <2>2. balance' + pending' = income' - expenses'
    BY <1>1 DEF Reconciles, TypeOK
  <2> QED BY <2>1, <2>2 DEF Reconciles, Gone
<1>5. PendingIsOwed'
  <2>1. Total(Owed)' = Total(Owed) BY <1>2
  <2>2. pending \in Nat /\ pending' \in Nat /\ Total(Owed) \in Nat BY SetTypes DEF TypeOK
  <2> QED BY <2>1, <2>2 DEF PendingIsOwed
<1>6. OnlyChargesOverdraw'
  BY <1>1, <1>3, SetTypes DEF OnlyChargesOverdraw, TypeOK
<1> QED BY <1>4, <1>5, <1>6

LEMMA KeepsFee ==
  ASSUME Inv, NEW f \in Fees, ChargeSalonWallet(f)
  PROVE  Inv' /\ (balance' < balance => pending' = 0)
<1>1. Worth(f) = Amount[f] /\ Amount[f] \in Nat
  BY DEF Worth, Items
<1>2. balance \in Int /\ pending \in Nat /\ expenses \in Nat
  BY DEF Inv, TypeOK
<1>3. /\ pending' \in Nat /\ pending' <= pending /\ balance' \in Int
      /\ balance' + pending' = balance + pending - Worth(f)
      /\ balance - Worth(f) <= balance'
      /\ balance' < balance => pending' = 0
  <2>1. pending' = PendingAfter(pending, Amount[f]) /\ balance' = BalanceAfter(balance, pending, Amount[f])
    BY DEF ChargeSalonWallet
  <2> QED BY <1>1, <1>2, <2>1 DEF PendingAfter, BalanceAfter, Lesser, Greater
<1>4. TypeOK'
  BY <1>1, <1>2, <1>3 DEF Inv, TypeOK, ChargeSalonWallet
<1>5. f \notin charged \union recovered /\ (charged \union recovered)' = charged \union recovered \union {f}
  BY DEF ChargeSalonWallet, Inv, TypeOK
<1>6. expenses' = expenses + Worth(f) /\ UNCHANGED <<income, earning, withdrawal>>
  BY <1>1 DEF ChargeSalonWallet
<1>7. Inv' BY <1>3, <1>4, <1>5, <1>6, KeepsCharge
<1> QED BY <1>3, <1>7

LEMMA KeepsDispute ==
  ASSUME Inv, NEW h \in Handlers, RecoverDispute(h)
  PROVE  Inv' /\ (balance' < balance => pending' = 0)
<1> DEFINE d == job[h]
<1>1. d \in Disputes /\ d \notin charged
  BY DEF RecoverDispute, Inv, TypeOK
<1>2. CASE d \in recovered
  <2>1. UNCHANGED <<balance, pending, income, expenses, earning, charged, recovered, withdrawal>> /\ job' \in [Handlers -> Disputes \union {NoDispute}]
    BY <1>2 DEF RecoverDispute, wallet, Inv, TypeOK
  <2>2. Paid' = Paid /\ Owed' = Owed /\ Out' = Out
    BY <2>1 DEF Paid, Owed, In, Out
  <2>3. balance \in Int BY DEF Inv, TypeOK
  <2>4. TypeOK' BY <2>1 DEF Inv, TypeOK
  <2>5. Reconciles' BY <2>1, <2>2 DEF Inv, Reconciles
  <2>6. PendingIsOwed' /\ OnlyChargesOverdraw' BY <2>1, <2>2 DEF Inv, PendingIsOwed, OnlyChargesOverdraw
  <2> QED BY <2>1, <2>3, <2>4, <2>5, <2>6 DEF Inv
<1>3. CASE d \notin recovered
  <2>1. Worth(d) = Amount[d] + ChargebackFee /\ Amount[d] \in Nat /\ ChargebackFee \in Nat
    BY <1>1 DEF Worth, Items
  <2>2. balance \in Int /\ pending \in Nat /\ expenses \in Nat
    BY DEF Inv, TypeOK
  <2>3. /\ pending' = PendingAfter(PendingAfter(pending, Amount[d]), ChargebackFee)
        /\ balance' = BalanceAfter(BalanceAfter(balance, pending, Amount[d]), PendingAfter(pending, Amount[d]), ChargebackFee)
        /\ expenses' = expenses + Amount[d] + ChargebackFee
        /\ recovered' = recovered \union {d}
        /\ job' \in [Handlers -> Disputes \union {NoDispute}]
        /\ UNCHANGED <<income, earning, charged, withdrawal>>
    BY <1>3 DEF RecoverDispute, Inv, TypeOK
  <2>4. /\ pending' \in Nat /\ pending' <= pending /\ balance' \in Int
        /\ balance' + pending' = balance + pending - Worth(d)
        /\ balance - Worth(d) <= balance'
        /\ balance' < balance => pending' = 0
    <3>1. /\ pending' \in Nat /\ pending' <= pending
          /\ balance' \in Int
          /\ balance' + pending' = balance + pending - (Amount[d] + ChargebackFee)
          /\ balance - (Amount[d] + ChargebackFee) <= balance'
          /\ balance' < balance => pending' = 0
      <4>1. /\ pending' = IF Amount[d] + ChargebackFee <= pending THEN pending - (Amount[d] + ChargebackFee) ELSE 0
            /\ balance' = IF Amount[d] + ChargebackFee <= pending THEN balance ELSE balance + pending - (Amount[d] + ChargebackFee)
        BY <2>1, <2>2, <2>3, TwoCharges
      <4> QED BY <2>1, <2>2, <4>1
    <3> QED BY <2>1, <3>1
  <2>5. expenses' = expenses + Worth(d) /\ expenses' \in Nat
    BY <2>1, <2>2, <2>3
  <2>6. TypeOK'
    BY <1>1, <2>3, <2>4, <2>5 DEF Inv, TypeOK
  <2>7. d \notin charged \union recovered /\ (charged \union recovered)' = charged \union recovered \union {d}
    BY <1>1, <1>3, <2>3
  <2> HIDE DEF d
  <2>8. Inv' BY <1>1, <2>3, <2>4, <2>5, <2>6, <2>7, KeepsCharge
  <2> QED BY <2>4, <2>8
<1> QED BY <1>2, <1>3

LEMMA KeepsRequest ==
  ASSUME Inv, NEW w \in Withdrawals, RequestWithdrawal(w)
  PROVE  Inv'
<1>1. Worth(w) = Amount[w] /\ Amount[w] \in Nat /\ w \in Items /\ w \notin Gone
  BY DEF Inv, Worth, Items, Gone, Out, TypeOK, RequestWithdrawal
<1>2. TypeOK'
  BY <1>1 DEF Inv, RequestWithdrawal, TypeOK, WithdrawalStatus
<1>3. Paid' = Paid /\ Owed' = Owed /\ Gone' = Gone \union {w}
  BY DEF Inv, RequestWithdrawal, TypeOK, Paid, Owed, In, Gone, Out
<1>4. Total(Gone') = Total(Gone) + Amount[w]
  BY <1>1, <1>3, SetTypes, TotalAdd DEF Inv
<1>5. Reconciles'
  <2>1. income' = Total(Paid') /\ expenses' = Total(Gone')
    BY <1>3, <1>4 DEF Inv, RequestWithdrawal, Reconciles, Gone
  <2>2. balance' + pending' = income' - expenses'
    <3>1. /\ balance \in Int /\ pending \in Nat /\ income \in Nat /\ expenses \in Nat
          /\ balance + pending = income - expenses
      BY DEF Inv, TypeOK, Reconciles
    <3>2. /\ balance' = balance - Amount[w] /\ expenses' = expenses + Amount[w]
          /\ pending' = pending /\ income' = income
      BY DEF RequestWithdrawal
    <3> QED BY <1>1, <3>1, <3>2
  <2> QED BY <2>1, <2>2 DEF Reconciles, Gone
<1>6. PendingIsOwed'
  BY <1>3 DEF Inv, RequestWithdrawal, PendingIsOwed
<1>7. OnlyChargesOverdraw'
  <2>1. balance' >= 0 BY <1>1 DEF Inv, RequestWithdrawal, TypeOK
  <2>2. Total(charged \union recovered)' = Total(charged \union recovered) BY DEF RequestWithdrawal
  <2> QED BY <2>1, <2>2, <1>2, SetTypes DEF Inv, OnlyChargesOverdraw, TypeOK
<1> QED BY <1>2, <1>5, <1>6, <1>7 DEF Inv

LEMMA KeepsReturn ==
  ASSUME Inv, NEW w \in Withdrawals, CancelWithdrawal(w) \/ RejectWithdrawal(w)
  PROVE  Inv'
<1> DEFINE rest == Gone \ {w}
<1>1. Worth(w) = Amount[w] /\ Amount[w] \in Nat /\ w \in Items /\ w \in Gone /\ w \notin charged \union recovered
  BY DEF Inv, Worth, Items, Gone, Out, TypeOK, CancelWithdrawal, RejectWithdrawal
<1>2. Total(Gone) = Total(rest) + Amount[w] /\ Total(rest) \in Nat
  <2>1. rest \in SUBSET Items /\ rest \union {w} = Gone BY <1>1, SetTypes DEF Inv
  <2> QED BY <2>1, <1>1, TotalAdd, CentsFinite
<1>3. Paid' = Paid /\ Owed' = Owed /\ Gone' = rest
  BY <1>1 DEF Inv, CancelWithdrawal, RejectWithdrawal, ReturnMoney, TypeOK, Paid, Owed, In, Gone, Out
<1>4. expenses = Total(Gone) BY DEF Inv, Reconciles, Gone
<1> HIDE DEF rest
<1>5. expenses' = expenses - Amount[w]
  BY <1>1, <1>2, <1>4 DEF CancelWithdrawal, RejectWithdrawal, ReturnMoney, Greater
<1>6. expenses' = Total(rest) BY <1>1, <1>2, <1>4, <1>5
<1>7. TypeOK'
  BY <1>1, <1>2, <1>6 DEF Inv, CancelWithdrawal, RejectWithdrawal, ReturnMoney, TypeOK, WithdrawalStatus
<1>8. balance' = balance + Amount[w] /\ UNCHANGED <<pending, income, charged, recovered>>
  BY DEF CancelWithdrawal, RejectWithdrawal, ReturnMoney
<1>9. Reconciles'
  <2>1. income' = Total(Paid') /\ expenses' = Total(Gone')
    BY <1>3, <1>6, <1>8 DEF Inv, Reconciles
  <2>2. balance' + pending' = income' - expenses'
    <3>1. /\ balance \in Int /\ pending \in Nat /\ income \in Nat /\ expenses \in Nat
          /\ balance + pending = income - expenses
      BY DEF Inv, TypeOK, Reconciles
    <3> QED BY <1>1, <1>5, <1>8, <3>1
  <2> QED BY <2>1, <2>2 DEF Reconciles, Gone
<1>10. PendingIsOwed'
  BY <1>3, <1>8 DEF Inv, PendingIsOwed
<1>11. OnlyChargesOverdraw'
  BY <1>1, <1>8, SetTypes DEF Inv, OnlyChargesOverdraw, TypeOK
<1> QED BY <1>7, <1>9, <1>10, <1>11 DEF Inv

LEMMA KeepsOther ==
  ASSUME Inv,
         \/ \E h \in Handlers : DeliveryFails(h) \/ \E d \in Disputes : ReadDisputedPayment(h, d)
         \/ \E w \in Withdrawals : PayWithdrawal(w)
         \/ UNCHANGED vars
  PROVE  Inv'
<1>1. UNCHANGED <<balance, pending, income, expenses, earning, charged, recovered>>
  BY DEF DeliveryFails, ReadDisputedPayment, PayWithdrawal, vars, wallet
<1>2. TypeOK'
  BY <1>1 DEF Inv, TypeOK, DeliveryFails, ReadDisputedPayment, PayWithdrawal, WithdrawalStatus, vars
<1>3. Paid' = Paid /\ Owed' = Owed
  BY <1>1 DEF Paid, Owed, In
<1>4. Out' = Out
  BY DEF Inv, TypeOK, DeliveryFails, ReadDisputedPayment, PayWithdrawal, WithdrawalStatus, vars, Out
<1>5. Reconciles' BY <1>1, <1>3, <1>4 DEF Inv, Reconciles
<1>6. PendingIsOwed' /\ OnlyChargesOverdraw' BY <1>1, <1>3 DEF Inv, PendingIsOwed, OnlyChargesOverdraw
<1> QED BY <1>2, <1>5, <1>6 DEF Inv

LEMMA InvStep == Inv /\ [Next]_vars => Inv'
BY KeepsCredit, KeepsHoldEnds, KeepsRelease, KeepsFee, KeepsDispute, KeepsRequest, KeepsReturn, KeepsOther DEF Next

-----------------------------------------------------------------------------
(* The theorems. *)

\* The books balance, to the cent, for any number of concurrent credits, fees,
\* redelivered disputes, withdrawals, cancellations and releases: the two
\* balances are the recorded income less the recorded expenses, all pending
\* money is owed by an earning still to be released, and a wallet is overdrawn
\* by no more than its fees and lost disputes.
THEOREM WalletHolds == Spec => [](TypeOK /\ Reconciles /\ PendingIsOwed /\ OnlyChargesOverdraw)
<1>1. Init => Inv BY InvInit
<1>2. Inv /\ [Next]_vars => Inv' BY InvStep
<1>3. Inv => TypeOK /\ Reconciles /\ PendingIsOwed /\ OnlyChargesOverdraw BY DEF Inv
<1> QED BY <1>1, <1>2, <1>3, PTL DEF Spec

\* A fee or a lost dispute leaves the salon's available balance alone until the
\* pending balance is used up.
THEOREM ChargesTakePendingFirst == Spec => PendingGoesFirst
<1>1. Inv /\ [Next]_vars => (balance' < balance /\ withdrawal' = withdrawal => pending' = 0)
  <2> SUFFICES ASSUME Inv, [Next]_vars, balance' < balance, withdrawal' = withdrawal PROVE pending' = 0
    OBVIOUS
  <2> USE DEF Inv
  <2>1. ASSUME NEW e \in Earnings, CreditSalonWallet(e) PROVE FALSE
    BY <2>1 DEF CreditSalonWallet, TypeOK, Items
  <2>2. ASSUME WalletRelease PROVE FALSE
    <3>1. Total(In("due")) \in Nat BY SetTypes
    <3> QED BY <2>2, <3>1 DEF WalletRelease, Lesser, Greater, TypeOK
  <2>3. ASSUME NEW w \in Withdrawals, RequestWithdrawal(w) PROVE FALSE
    BY <2>3 DEF RequestWithdrawal, TypeOK
  <2>4. ASSUME NEW w \in Withdrawals, CancelWithdrawal(w) \/ RejectWithdrawal(w) PROVE FALSE
    BY <2>4 DEF CancelWithdrawal, RejectWithdrawal, TypeOK
  <2>5. ASSUME balance' = balance PROVE FALSE
    BY <2>5 DEF TypeOK
  <2> QED
    BY <2>1, <2>2, <2>3, <2>4, <2>5, KeepsFee, KeepsDispute
    DEF Next, HoldEnds, DeliveryFails, ReadDisputedPayment, PayWithdrawal, wallet, vars
<1>2. Init => Inv BY InvInit
<1>3. Inv /\ [Next]_vars => Inv' BY InvStep
<1> QED BY <1>1, <1>2, <1>3, PTL DEF Spec, PendingGoesFirst
=============================================================================
