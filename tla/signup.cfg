SPECIFICATION Spec
CONSTANTS
  Purposes = {"customer","reset"}
  Roles = {"customer"}
  Tickets = {t1, t2}
  Referrals = {r1,r2}
  Handlers = {h1, h2}
  NoJob = NoJob
  MaxAttempts = 1
  MaxFailed = 1
  MaxCodes = 2
SYMMETRY Alike
CONSTRAINT FewCodes
CHECK_DEADLOCK FALSE
INVARIANTS AttemptsBounded EarningsFollowReferrals
PROPERTY SignUpNeverOverwrites
\* They hold as well:
\* INVARIANTS TypeOK OneCodePerWait GuessesBounded
\* Statements of the repository the code does not keep.  Each is violated with
\* Purposes and Roles = {"customer", "merchant"}, no SYMMETRY and no CONSTRAINT:
\* INVARIANTS SessionsUsable ReferrerPaidOnce CodesNotLost
\* PROPERTY AccountKeepsItsSites
