SPECIFICATION Spec
CONSTANTS
  Plans = {p1, p2}
  NoPlan = NoPlan
  Cards = {k1, k2}
  Handlers = {h1, h2}
  NoJob = NoJob
  MaxInvoices = 2
  MaxCrashes = 1
CONSTRAINT FewMishaps
SYMMETRY Alike
CHECK_DEADLOCK FALSE
INVARIANTS OneLivePlan CancelledIsTakenDown
\* They hold as well:
\* INVARIANTS TypeOK OneBusiness LapsedHadNoPlan
\* PROPERTIES RevivedByMerchantOnly
\* Statements of the repository that the code does not keep; each is violated
\* when it is checked here without CONSTRAINT and SYMMETRY:
\* INVARIANTS PaymentMidSweepWins KhsSuspensionKept LapsedIsSuspended ChargedOnce NeverDuplicated
\* PROPERTIES PaidNotEnded EndedStaysEnded
