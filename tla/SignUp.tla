--------------------------------- MODULE SignUp ---------------------------------
(***************************************************************************)
(* Signing up and signing in with one email address: the codes sent to it, *)
(* the tickets a code is exchanged for, sign-up as a customer or merchant, *)
(* "Continue with Google", password reset, the login lockout, and the      *)
(* referral that brought the customer.                                     *)
(*                                                                         *)
(* Codes, tickets, the resend wait and the failed logins live in Redis;    *)
(* the account and the referrals are database rows.  A handler is one      *)
(* request; each Redis command, MULTI or SQL statement is one step.        *)
(***************************************************************************)
EXTENDS Naturals, FiniteSets

CONSTANTS
  Purposes,     \* of a code and its ticket: those used among "customer", "merchant", "reset"
  Roles,        \* who may continue with Google
  Tickets,
  Referrals,    \* referral rows for this email
  Handlers,
  NoJob,
  MaxAttempts,  \* MAX_ATTEMPTS
  MaxFailed,    \* MAX_FAILED_LOGINS
  MaxCodes      \* codes sent for one purpose (a bound of the model)

ASSUME SignUpAssumptions ==
  /\ Purposes \subseteq {"customer", "merchant", "reset"}
  /\ Roles \subseteq {"customer", "merchant"}
  /\ IsFiniteSet(Handlers) /\ IsFiniteSet(Referrals)
  /\ MaxAttempts \in Nat \ {0} /\ MaxFailed \in Nat \ {0} /\ MaxCodes \in Nat

VARIABLES
  code,      \* the code stored for each purpose, by number (0: none), and the attempts counted
  wait,      \* purposes whose resend wait runs
  sent,      \* codes sent so far for each purpose
  window,    \* history: codes sent during the running wait
  compared,  \* history: how often each code was compared with a guess
  lost,      \* history: codes deleted by a request that had seen another one
  ticket,    \* each ticket's purpose, or "unused", or "gone"
  account,   \* the user row
  useless,   \* history: roles of sessions opened for an account that role's site refuses
  failures,  \* customer-login-fail
  referral,  \* the referral rows
  earned,    \* rewards paid to the referrer
  job

codes == <<code, wait, sent, window, compared, lost>>
vars == <<code, wait, sent, window, compared, lost, ticket, account, useless, failures, referral, earned, job>>

NoCode == [no |-> 0, tries |-> 0]

\* unfinished: an email was verified, nothing else is known.  sites: where it
\* may sign in (isCustomer, isMerchant).
Account == [row : {"absent", "unfinished", "finished"}, password : {"none", "customer", "merchant", "reset"}, sites : SUBSET {"customer", "merchant"}]

StartJob == [kind : {"start"}, for : Purposes, pc : {"intent", "record", "look", "wait", "store", "send"}]
VerifyJob == [kind : {"verify"}, for : Purposes, pc : {"count", "judge", "look", "ticket"}, guess : 0..MaxCodes, saw : 0..MaxCodes, tries : Nat]
FinishJob == [kind : {"finish"}, for : Purposes, pc : {"read", "write", "discard", "unlock"}, with : Tickets]
GoogleJob == [kind : {"google"}, for : Roles, pc : {"look", "create", "update"}]
ReferralJob == [kind : {"referral"}, pc : {"intent", "record", "find", "claim"}, row : Referrals \union {NoJob}]
LoginJob == [kind : {"login"}, pc : {"check", "compare", "wrong", "clear"}, right : {"right", "wrong"}]
Work == StartJob \union VerifyJob \union FinishJob \union GoogleJob \union ReferralJob \union LoginJob
Job == Work \union {NoJob}

ASSUME NoJobIsNoWork == NoJob \notin Work

TypeOK ==
  /\ code \in [Purposes -> [no : 0..MaxCodes, tries : Nat]]
  /\ wait \subseteq Purposes
  /\ sent \in [Purposes -> 0..MaxCodes]
  /\ window \in [Purposes -> Nat]
  /\ compared \in [Purposes -> [1..MaxCodes -> Nat]]
  /\ lost \subseteq Purposes
  /\ ticket \in [Tickets -> Purposes \union {"unused", "gone"}]
  /\ account \in Account
  /\ account.row # "finished" => account.password = "none"
  /\ useless \subseteq {"customer", "merchant"}
  /\ failures \in Nat
  /\ referral \in [Referrals -> {"none", "pending", "completed"}]
  /\ earned \in Nat
  /\ \A h \in Handlers : job[h] \in Job

Init ==
  /\ code = [p \in Purposes |-> NoCode]
  /\ wait = {}
  /\ sent = [p \in Purposes |-> 0] /\ window = [p \in Purposes |-> 0]
  /\ compared = [p \in Purposes |-> [n \in 1..MaxCodes |-> 0]]
  /\ lost = {}
  /\ ticket = [t \in Tickets |-> "unused"]
  /\ account = [row |-> "absent", password |-> "none", sites |-> {"customer"}]
  /\ useless = {}
  /\ failures = 0
  /\ referral = [r \in Referrals |-> "none"]
  /\ earned = 0
  /\ job = [h \in Handlers |-> NoJob]

Idle(h) == job[h] = NoJob
At(h, kind, step) == job[h] # NoJob /\ job[h].kind = kind /\ job[h].pc = step
Begin(h, j) == Idle(h) /\ job' = [job EXCEPT ![h] = j]
Goto(h, step) == job' = [job EXCEPT ![h].pc = step]
Done(h) == job' = [job EXCEPT ![h] = NoJob]
Become(h, j) == job' = [job EXCEPT ![h] = j]

\* openSession, as the given role's site.
OpenSession(role) == useless' = IF role \in account'.sites THEN useless ELSE useless \union {role}

-----------------------------------------------------------------------------
(* startSignup, startMerchantSignup, startPasswordReset. *)

\* A customer may come by a referral link; a reset never says whether the email
\* has an account.
BeginStart(h, p) ==
  /\ sent[p] < MaxCodes
  /\ \E step \in CASE p = "customer" -> {"intent", "look"} [] p = "merchant" -> {"look"} [] p = "reset" -> {"wait"} :
       Begin(h, [kind |-> "start", for |-> p, pc |-> step])
  /\ UNCHANGED <<codes, ticket, account, useless, failures, referral, earned>>

\* recordReferralIntent: once per email, so it looks before it writes.
LookForReferral(h) ==
  /\ At(h, "start", "intent") \/ At(h, "referral", "intent")
  /\ IF \E r \in Referrals : referral[r] # "none"
       THEN Goto(h, IF job[h].kind = "start" THEN "look" ELSE "find")
       ELSE Goto(h, "record")
  /\ UNCHANGED <<codes, ticket, account, useless, failures, referral, earned>>

RecordReferral(h) ==
  /\ At(h, "start", "record") \/ At(h, "referral", "record")
  /\ \E r \in Referrals : referral[r] = "none" /\ referral' = [referral EXCEPT ![r] = "pending"]
  /\ Goto(h, IF job[h].kind = "start" THEN "look" ELSE "find")
  /\ UNCHANGED <<codes, ticket, account, useless, failures, earned>>

LookForPassword(h) ==
  /\ At(h, "start", "look")
  /\ IF account.password = "none" THEN Goto(h, "wait") ELSE Done(h)
  /\ UNCHANGED <<codes, ticket, account, useless, failures, referral, earned>>

\* SET NX: of two requests one sends a code.
ClaimWait(h) ==
  /\ At(h, "start", "wait")
  /\ LET p == job[h].for IN
     IF p \in wait
       THEN Done(h) /\ UNCHANGED <<wait, window>>
       ELSE Goto(h, "store") /\ wait' = wait \union {p} /\ window' = [window EXCEPT ![p] = 0]
  /\ UNCHANGED <<code, sent, compared, lost, ticket, account, useless, failures, referral, earned>>

\* The new code replaces the earlier one and its attempts.
StoreCode(h) ==
  /\ At(h, "start", "store")
  /\ LET p == job[h].for IN
     /\ sent[p] < MaxCodes
     /\ sent' = [sent EXCEPT ![p] = @ + 1]
     /\ code' = [code EXCEPT ![p] = [no |-> sent[p] + 1, tries |-> 0]]
  /\ Goto(h, "send")
  /\ UNCHANGED <<wait, window, compared, lost, ticket, account, useless, failures, referral, earned>>

\* A sign-up waits for its email and lifts the wait if it can't be sent; a
\* reset code is emailed in the background.
SendCode(h) ==
  /\ At(h, "start", "send")
  /\ LET p == job[h].for IN
     \/ window' = [window EXCEPT ![p] = @ + 1] /\ UNCHANGED wait
     \/ p # "reset" /\ wait' = wait \ {p} /\ UNCHANGED window
  /\ Done(h)
  /\ UNCHANGED <<code, sent, compared, lost, ticket, account, useless, failures, referral, earned>>

\* CODE_RESEND_SECONDS pass; no email takes that long to be sent.
WaitEnds(p) ==
  /\ p \in wait
  /\ \A h \in Handlers : ~(\E step \in {"store", "send"} : At(h, "start", step) /\ job[h].for = p)
  /\ wait' = wait \ {p}
  /\ window' = [window EXCEPT ![p] = 0]
  /\ UNCHANGED <<code, sent, compared, lost, ticket, account, useless, failures, referral, earned, job>>

\* CODE_TTL_MINUTES pass.
CodeExpires(p) ==
  /\ code[p].no # 0
  /\ code' = [code EXCEPT ![p] = NoCode]
  /\ UNCHANGED <<wait, sent, window, compared, lost, ticket, account, useless, failures, referral, earned, job>>

-----------------------------------------------------------------------------
(* verifySignupCode, verifyMerchantSignupCode, verifyPasswordResetCode. *)

\* Someone enters a code that was sent, or a wrong one (0).
BeginVerify(h, p, guess) ==
  /\ guess \in 0..sent[p]
  /\ Begin(h, [kind |-> "verify", for |-> p, pc |-> "count", guess |-> guess, saw |-> 0, tries |-> 0])
  /\ UNCHANGED <<codes, ticket, account, useless, failures, referral, earned>>

\* Mutant: the attempt is counted only once it has failed.
CountAttemptLate(h) ==
  /\ At(h, "verify", "count")
  /\ LET p == job[h].for IN
     /\ job' = [job EXCEPT ![h].pc = "judge", ![h].saw = code[p].no, ![h].tries = code[p].tries + 1]
     /\ code' = [code EXCEPT ![p].tries = IF job[h].guess = code[p].no \/ \E g \in Handlers \ {h} : At(g, "verify", "judge") THEN @ ELSE @ + 1]
  /\ UNCHANGED <<wait, sent, window, compared, lost, ticket, account, useless, failures, referral, earned>>

\* HINCRBY and HGET at once; a code that is missing gets an empty hash.
CountAttempt(h) ==
  /\ At(h, "verify", "count")
  /\ LET p == job[h].for IN
     /\ job' = [job EXCEPT ![h].pc = "judge", ![h].saw = code[p].no, ![h].tries = code[p].tries + 1]
     /\ code' = [code EXCEPT ![p].tries = @ + 1]
  /\ UNCHANGED <<wait, sent, window, compared, lost, ticket, account, useless, failures, referral, earned>>

\* The key is deleted, whatever it holds by now.
DeleteCode(h) ==
  LET p == job[h].for IN
  /\ code' = [code EXCEPT ![p] = NoCode]
  /\ lost' = IF code[p].no \in {0, job[h].saw} THEN lost ELSE lost \union {p}

\* A guess at a code that is gone or used up, a wrong one, or the right one.
JudgeGuess(h) ==
  /\ At(h, "verify", "judge")
  /\ LET j == job[h] IN
     IF j.saw = 0 \/ j.tries > MaxAttempts
       THEN DeleteCode(h) /\ Done(h) /\ UNCHANGED compared
       ELSE /\ compared' = [compared EXCEPT ![j.for][j.saw] = @ + 1]
            /\ IF j.guess = j.saw THEN DeleteCode(h) /\ Goto(h, "look")
                                  ELSE Done(h) /\ UNCHANGED <<code, lost>>
  /\ UNCHANGED <<wait, sent, window, ticket, account, useless, failures, referral, earned>>

\* A sign-up is for an email without a password, a reset for one with.
LookForAccount(h) ==
  /\ At(h, "verify", "look")
  /\ IF (job[h].for = "reset") = (account.password # "none") THEN Goto(h, "ticket") ELSE Done(h)
  /\ UNCHANGED <<codes, ticket, account, useless, failures, referral, earned>>

\* The row is made unless it is there (by now); then the ticket.
IssueTicket(h) ==
  /\ At(h, "verify", "ticket")
  /\ account' = IF account.row = "absent" THEN [account EXCEPT !.row = "unfinished"] ELSE account
  /\ \E t \in Tickets : ticket[t] = "unused" /\ ticket' = [ticket EXCEPT ![t] = job[h].for]
  /\ Done(h)
  /\ UNCHANGED <<codes, useless, failures, referral, earned>>

-----------------------------------------------------------------------------
(* completeSignup, completeMerchantSignup, finishPasswordReset. *)

BeginFinish(h, t) ==
  /\ ticket[t] \in Purposes
  /\ Begin(h, [kind |-> "finish", for |-> ticket[t], pc |-> "read", with |-> t])
  /\ UNCHANGED <<codes, ticket, account, useless, failures, referral, earned>>

ReadTicket(h) ==
  /\ At(h, "finish", "read")
  /\ IF ticket[job[h].with] = job[h].for THEN Goto(h, "write") ELSE Done(h)
  /\ UNCHANGED <<codes, ticket, account, useless, failures, referral, earned>>

WithPassword(p) == [row |-> "finished", password |-> p, sites |-> IF p = "merchant" THEN {"merchant"} ELSE account.sites]

\* Mutant: the password is set whether or not there is one.
SetPasswordAgain(h) ==
  /\ At(h, "finish", "write")
  /\ account' = WithPassword(job[h].for)
  /\ Goto(h, "discard")
  /\ UNCHANGED <<codes, ticket, useless, failures, referral, earned>>

\* A sign-up sets the first password only ("password: null"); a reset sets it
\* by the account's id.
SetPassword(h) ==
  /\ At(h, "finish", "write")
  /\ IF job[h].for = "reset" \/ account.password = "none"
       THEN account' = WithPassword(job[h].for) /\ Goto(h, "discard")
       ELSE UNCHANGED account /\ Goto(h, "unlock")
  /\ UNCHANGED <<codes, ticket, useless, failures, referral, earned>>

\* The customer's referral is completed next, by the code typed or the link.
CompleteReferral(h) == \E step \in {"intent", "find"} : Become(h, [kind |-> "referral", pc |-> step, row |-> NoJob])

\* The ticket is used up after the step it allowed; then the session, or the
\* end of the lockout.
DiscardTicket(h) ==
  /\ At(h, "finish", "discard")
  /\ ticket' = [ticket EXCEPT ![job[h].with] = "gone"]
  /\ UNCHANGED account
  /\ CASE job[h].for = "reset"    -> Goto(h, "unlock") /\ UNCHANGED useless
       [] job[h].for = "merchant" -> Done(h) /\ OpenSession("merchant")
       [] job[h].for = "customer" -> CompleteReferral(h) /\ OpenSession("customer")
  /\ UNCHANGED <<codes, failures, referral, earned>>

\* A reset clears the failed logins; a sign-up that came second discards its
\* ticket and is refused.
Unlock(h) ==
  /\ At(h, "finish", "unlock")
  /\ ticket' = [ticket EXCEPT ![job[h].with] = "gone"]
  /\ failures' = IF job[h].for = "reset" THEN 0 ELSE failures
  /\ Done(h)
  /\ UNCHANGED <<codes, account, useless, referral, earned>>

-----------------------------------------------------------------------------
(* finishGoogleSignIn, for an address Google vouches for. *)

BeginGoogle(h, role) ==
  /\ Begin(h, [kind |-> "google", for |-> role, pc |-> "look"])
  /\ UNCHANGED <<codes, ticket, account, useless, failures, referral, earned>>

\* An account that has a name or a password signs in as what it is.
LookForGoogleAccount(h) ==
  /\ At(h, "google", "look")
  /\ UNCHANGED account
  /\ CASE account.row = "absent"     -> Goto(h, "create") /\ UNCHANGED useless
       [] account.row = "unfinished" -> Goto(h, "update") /\ UNCHANGED useless
       [] account.row = "finished"   -> /\ Done(h)
                                        /\ IF job[h].for \in account.sites THEN OpenSession(job[h].for) ELSE UNCHANGED useless
  /\ UNCHANGED <<codes, ticket, failures, referral, earned>>

\* createAccount: the email is unique, so a row made meanwhile refuses a new
\* one; an unfinished row is finished as the role chosen now.
CreateGoogleAccount(h) ==
  /\ At(h, "google", "create") \/ At(h, "google", "update")
  /\ IF job[h].pc = "create" /\ account.row # "absent"
       THEN Done(h) /\ UNCHANGED <<account, useless>>
       ELSE /\ account' = [account EXCEPT !.row = "finished", !.sites = IF job[h].for = "merchant" THEN {"merchant"} ELSE @ \union {"customer"}]
            /\ OpenSession(job[h].for)
            /\ IF job[h].for = "customer" THEN CompleteReferral(h) ELSE Done(h)
  /\ UNCHANGED <<codes, ticket, failures, referral, earned>>

-----------------------------------------------------------------------------
(* completeReferral. *)

FindReferral(h) ==
  /\ At(h, "referral", "find")
  /\ IF \E r \in Referrals : referral[r] = "pending"
       THEN \E r \in Referrals : referral[r] = "pending" /\ job' = [job EXCEPT ![h].pc = "claim", ![h].row = r]
       ELSE Done(h)
  /\ UNCHANGED <<codes, ticket, account, useless, failures, referral, earned>>

\* Mutant: the referral is completed whatever its status.
ClaimReferralAgain(h) ==
  /\ At(h, "referral", "claim")
  /\ referral' = [referral EXCEPT ![job[h].row] = "completed"]
  /\ earned' = earned + 1
  /\ Done(h)
  /\ UNCHANGED <<codes, ticket, account, useless, failures>>

\* One transaction: only the run that moves it from pending pays.
ClaimReferral(h) ==
  /\ At(h, "referral", "claim")
  /\ IF referral[job[h].row] = "pending"
       THEN referral' = [referral EXCEPT ![job[h].row] = "completed"] /\ earned' = earned + 1
       ELSE UNCHANGED <<referral, earned>>
  /\ Done(h)
  /\ UNCHANGED <<codes, ticket, account, useless, failures>>

-----------------------------------------------------------------------------
(* login, up to the session (Sessions takes it from there). *)

BeginLogin(h, right) ==
  /\ Begin(h, [kind |-> "login", pc |-> "check", right |-> right])
  /\ UNCHANGED <<codes, ticket, account, useless, failures, referral, earned>>

CheckLockout(h) ==
  /\ At(h, "login", "check")
  /\ IF failures < MaxFailed THEN Goto(h, "compare") ELSE Done(h)
  /\ UNCHANGED <<codes, ticket, account, useless, failures, referral, earned>>

\* An unknown email is compared with a dummy and fails the same way.
ComparePassword(h) ==
  /\ At(h, "login", "compare")
  /\ Goto(h, IF account.password # "none" /\ job[h].right = "right" THEN "clear" ELSE "wrong")
  /\ UNCHANGED <<codes, ticket, account, useless, failures, referral, earned>>

CountFailure(h) ==
  /\ At(h, "login", "wrong")
  /\ failures' = failures + 1
  /\ Done(h)
  /\ UNCHANGED <<codes, ticket, account, useless, referral, earned>>

ClearFailures(h) ==
  /\ At(h, "login", "clear")
  /\ failures' = 0
  /\ Done(h)
  /\ UNCHANGED <<codes, ticket, account, useless, referral, earned>>

\* LOCKOUT_MINUTES pass.
LockoutEnds ==
  /\ failures > 0
  /\ failures' = 0
  /\ UNCHANGED <<codes, ticket, account, useless, referral, earned, job>>

-----------------------------------------------------------------------------

HandlerStep(h) ==
  \/ LookForReferral(h) \/ RecordReferral(h) \/ LookForPassword(h) \/ ClaimWait(h) \/ StoreCode(h) \/ SendCode(h)
  \/ CountAttempt(h) \/ JudgeGuess(h) \/ LookForAccount(h) \/ IssueTicket(h)
  \/ ReadTicket(h) \/ SetPassword(h) \/ DiscardTicket(h) \/ Unlock(h)
  \/ LookForGoogleAccount(h) \/ CreateGoogleAccount(h)
  \/ FindReferral(h) \/ ClaimReferral(h)
  \/ CheckLockout(h) \/ ComparePassword(h) \/ CountFailure(h) \/ ClearFailures(h)

Request(h) ==
  \/ \E p \in Purposes : BeginStart(h, p) \/ \E guess \in 0..MaxCodes : BeginVerify(h, p, guess)
  \/ \E t \in Tickets : BeginFinish(h, t)
  \/ \E role \in Roles : BeginGoogle(h, role)
  \/ \E right \in {"right", "wrong"} : BeginLogin(h, right)

Next ==
  \/ \E h \in Handlers : HandlerStep(h) \/ Request(h)
  \/ \E p \in Purposes : WaitEnds(p) \/ CodeExpires(p)
  \/ LockoutEnds

Spec == Init /\ [][Next]_vars

-----------------------------------------------------------------------------
(* Properties. *)

\* codeStore.ts:75-76 "parallel guesses can't get more than MAX_ATTEMPTS tries
\* between them", whatever becomes of the key meanwhile.
AttemptsBounded == \A p \in Purposes, n \in 1..MaxCodes : compared[p][n] <= MaxAttempts

\* "One per minute": during one wait at most one code is sent.
OneCodePerWait == \A p \in Purposes : window[p] <= 1

\* signupService.ts:81: if two sign-ups race, by code or as customer and
\* merchant, one sets the password; only a reset replaces it.
SignUpNeverOverwrites == [][account.password # "none" => account'.password \in {account.password, "reset"}]_account

\* referralService.ts:71: every referral completed is paid, once.
EarningsFollowReferrals == earned = Cardinality({r \in Referrals : referral[r] = "completed"})

\* README "lock an account ... after 10 failures": the guesses of one window
\* above MAX_FAILED_LOGINS are those that were being compared at once.
GuessesBounded ==
  failures + Cardinality({h \in Handlers : At(h, "login", "wrong")}) < MaxFailed + Cardinality(Handlers)

\* merchantSignupService.ts:23 "one email is one account: a customer email can't
\* become a business account here".
AccountKeepsItsSites == [][account.row = "finished" => account'.sites = account.sites]_account

\* accountAccess.ts:25-27: an account turned away from a site gets no session
\* "every customer action refuses".
SessionsUsable == useless = {}

\* referralService.ts:58-59 "pays the referrer, exactly once".
ReferrerPaidOnce == earned <= 1

\* codeStore.ts:37-38: a code stays until it is used, replaced, expired or out of
\* attempts.
CodesNotLost == lost = {}
=============================================================================
