SPECIFICATION Spec
CONSTANTS
  e1 = e1
  e2 = e2
  e3 = e3
  f1 = f1
  w1 = w1
  w2 = w2
  d1 = d1
  d2 = d2
  Earnings = {e1, e2, e3}
  Held = {e1, e2}
  Fees = {f1}
  Withdrawals = {w1, w2}
  Disputes = {d1, d2}
  DisputeOf <- DisputedEarning
  Amount <- Amounts
  ChargebackFee = 1
  Handlers = {h1, h2}
  NoDispute = NoDispute
CHECK_DEADLOCK FALSE
SYMMETRY Interchangeable
INVARIANTS Reconciles PendingIsOwed
\* They hold as well:
\* INVARIANTS TypeOK OnlyChargesOverdraw
\* PROPERTIES PendingGoesFirst
