SPECIFICATION Spec
CONSTANTS
  m1 = m1
  c1 = c1
  p1 = p1
  p2 = p2
  b1 = b1
  b2 = b2
  Cards = {c1}
  Values = {1, 2}
  Payments = {p1, p2}
  CardOf <- OneCard
  Buyers = {b1, b2}
  BuyerOf <- TwoBuyers
  Nobody = Nobody
  Memberships = {m1}
  Sessions = 2
  Handlers = {h1, h2}
  NoJob = NoJob
  MaxCrashes = 1
CONSTRAINT OneBought
SYMMETRY Alike
CHECK_DEADLOCK FALSE
INVARIANTS SoldOnce WorthKept OneGrantPerPayment
\* They hold as well:
\* INVARIANTS TypeOK
\* PROPERTIES SoldCardIsTheBuyers
\* Statements of the repository that the code does not keep; each is violated:
\* INVARIANTS RefundedNotKept OnlyUnusedIsSplit
