SPECIFICATION OperationsSpec
CONSTANTS
  Calls = {c1, c2}
  NoCall = NoCall
  KilledCall = KilledCall
  MaxTime = 6
  MaxKills = 2
  Deliveries = {d1, d2, d3}
  Events = {e1}
  MaxLapses = 2
  MaxRetries = 2
  Workers = {w1, w2}
  MaxExits = 2
CHECK_DEADLOCK FALSE
INVARIANTS SlotOnce HandledOncePerLapse
PROPERTIES DueIsClaimed ServesAgain
\* They hold as well:
\* INVARIANTS OperationsTypeOK OneInTime DoneWasHandled
\* PROPERTIES OutageComesToBeSeen CrashedWorkersReturn
\* Statements of the repository that the code does not keep; each is violated:
\* INVARIANTS OneRunAtATime ClaimedIsRun AckedIsHandled HandledOnce EachDrained
\* PROPERTIES StartsAlwaysRecover
