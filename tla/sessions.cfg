SPECIFICATION Spec
CONSTANTS
  Sids = {s1, s2}
  Tokens = {t1, t2, t3}
  Browsers = {b1}
  Nothing = Nothing
  Handlers = {h1, h2}
  MaxPasswords = 2
  MaxCrashes = 1
SYMMETRY Alike
CHECK_DEADLOCK FALSE
INVARIANTS OneLiveToken NoFalseAlarm OthersSignedOut
\* They hold as well:
\* INVARIANTS TypeOK TrackedOrMissed
\* PROPERTIES EndedStaysEnded
\* Statements of the repository that the code does not keep; each is violated:
\* INVARIANTS SignedOutEverywhere
