SPECIFICATION FairSpec
CONSTANTS
  o1 = o1
  o2 = o2
  i1 = i1
  i2 = i2
  h1 = h1
  h2 = h2
  Orders = {o1, o2}
  Intents = {i1, i2}
  OrderOf <- OneOrder
  Handlers = {h1}
  Price <- PaidAndFree
  GiftValue = 0
  Sessions = 0
  MaxCrashes = 0
CHECK_DEADLOCK FALSE
PROPERTIES PaidIsSettled RefundAccounted
\* They hold as well:
\* PROPERTIES RequestsEnd
