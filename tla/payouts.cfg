SPECIFICATION Spec
CONSTANTS
  w1 = w1
  w2 = w2
  w3 = w3
  Withdrawals = {w1, w2, w3}
  Kind <- AllKinds
  Transfers = {t1, t2, t3}
  NoTransfer = NoTransfer
  Handlers = {h1, h2}
  MaxCrashes = 1
CHECK_DEADLOCK FALSE
SYMMETRY Interchangeable
INVARIANTS StripePaidOnce CompletedIsPaid TakenBackNotSent
\* They hold as well:
\* INVARIANTS TypeOK LedgerFollows
\* Statements of the repository that the code does not keep; each is violated:
\* INVARIANTS SimultaneousPaidOnce PaidOneWay
\* PROPERTIES OutcomeApplied
\* (the second under FairSpec, with Withdrawals = {w2}, Kind <- OnlyAirwallex, one
\* transfer and no SYMMETRY)
