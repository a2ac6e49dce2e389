SPECIFICATION Spec
CONSTANTS
  o1 = o1
  o2 = o2
  i1 = i1
  i2 = i2
  h1 = h1
  h2 = h2
  Orders = {o1}
  Intents = {i1}
  OrderOf <- OneOrder
  Handlers = {h1, h2}
  Price <- PaidPrice
  GiftValue = 3
  Sessions = 1
  MaxCrashes = 1
CHECK_DEADLOCK FALSE
INVARIANTS ConfirmedIsBacked FinishedIsSettled RowsAgreeWithStripe
PROPERTY EscrowKept
\* They hold as well:
\* INVARIANTS TypeOK
\* PROPERTIES RowsMoveForward
\* Statements of the repository the code does not keep.  Each is violated with
\* Intents = {i1, i2}, GiftValue = 0, Sessions = 0; CancelledNotHeld under FairSpec:
\* INVARIANTS RescheduledIsPaid RefundNotLost
\* PROPERTIES PaidNotChargedAgain CancelledNotHeld
