SPECIFICATION Spec
CONSTANTS
  o1 = o1
  o2 = o2
  Orders = {o1, o2}
  BySalon = {o2}
  Length <- Lengths
  Longest <- LongestServices
  Days = {d1, d2}
  Slots = {0, 1}
  Buffer = 0
  AllowDoubleBookings = FALSE
  Handlers = {h1, h2}
  NoHandler = NoHandler
  NoJob = NoJob
CHECK_DEADLOCK FALSE
SYMMETRY Interchangeable
INVARIANTS BookingsApart NoDeadlock
\* They hold as well:
\* INVARIANTS TypeOK
\* Statements of the repository that the code does not keep; each is violated:
\* INVARIANTS WholeTimesApart
