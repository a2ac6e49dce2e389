---------------------------- MODULE Sessions_proofs ----------------------------
(***************************************************************************)
(* Three promises of the session store, for any number of sessions,        *)
(* tokens, browsers and overlapping requests.                              *)
(*                                                                         *)
(* One live refresh token per session.  The token store itself does not    *)
(* keep it: two StoreNextTokens of one session would make two.  What does  *)
(* is that a request stores a token only after it took the live one away   *)
(* (rotateRefreshToken's COMPARE_AND_SET), or for a session it has just    *)
(* drawn (IInv).                                                           *)
(*                                                                         *)
(* No false alarm: a token is in one browser or on its way to one, and a   *)
(* browser whose token was exchanged waits for the answer that replaces it *)
(* (TInv).                                                                 *)
(*                                                                         *)
(* Sessions of earlier passwords end: each is found, or will be found, by  *)
(* a password job that has yet to act (AInv).                              *)
(***************************************************************************)
EXTENDS Sessions, TLAPS

-----------------------------------------------------------------------------
(* The invariant. *)

Typed ==
  /\ password \in 1..MaxPasswords
  /\ vouched \in [Sids -> Nat]
  /\ tracked \subseteq Sids
  /\ token \in [Tokens -> Token]
  /\ cookie \in [Browsers -> Tokens \union {Nothing}]
  /\ job \in [Handlers -> Job]

Issued(t) == t \in Tokens /\ token[t].state # "unused"

Login(h) == job[h] # Nothing /\ job[h] \in LoginJob
Refreshing(h) == job[h] # Nothing /\ job[h] \in RefreshJob

\* Request h is about to store a live token of session s.
StoresFor(h, s) ==
  \/ Login(h) /\ job[h].pc = "store" /\ job[h].sid = s
  \/ Refreshing(h) /\ job[h].pc = "store" /\ token[job[h].old].sid = s

CookiesIssued == \A b \in Browsers : cookie[b] # Nothing => Issued(cookie[b])

RefreshesIssued ==
  \A h \in Handlers : Refreshing(h) =>
    Issued(job[h].old) /\ (job[h].token # Nothing => Issued(job[h].token))

LoginsIssued ==
  \A h \in Handlers : Login(h) =>
    /\ job[h].pc = "reply" => Issued(job[h].token)
    /\ job[h].pc = "store" => job[h].sid \in opened

IssuedForOpened == \A t \in Tokens : Issued(t) => token[t].sid \in opened

StoresAlone ==
  \A h \in Handlers, s \in Sids : StoresFor(h, s) =>
    /\ \A t \in Tokens : token[t].state = "live" => token[t].sid # s
    /\ \A g \in Handlers : StoresFor(g, s) => g = h

SInv == CookiesIssued /\ RefreshesIssued /\ LoginsIssued /\ IssuedForOpened /\ OneLiveToken /\ StoresAlone

IInv == Typed /\ SInv

-----------------------------------------------------------------------------
(* What a job is, and what changing one does. *)

LEMMA KindOf ==
  ASSUME NEW j \in Job, j # Nothing
  PROVE  /\ j.kind = "login" => j \in LoginJob
         /\ j.kind \in Rotating => j \in RefreshJob
         /\ j.kind \in {"change", "reset", "close"} => j \in PasswordJob
BY DEF Job, LoginJob, RefreshJob, PasswordJob, Rotating

LEMMA JobAt ==
  ASSUME Typed, NEW h \in Handlers, NEW step
  PROVE  /\ At(h, {"login"}, step) => Login(h) /\ job[h].pc = step
         /\ At(h, Rotating, step) => Refreshing(h) /\ job[h].pc = step
         /\ At(h, {"refresh"}, step) => Refreshing(h) /\ job[h].pc = step
         /\ At(h, {"change", "reset", "close"}, step) => job[h] # Nothing /\ job[h] \in PasswordJob /\ job[h].pc = step
BY KindOf DEF Typed, At, Rotating, Login, Refreshing

\* The kinds of job exclude each other.
LEMMA KindsApart ==
  /\ \A j \in LoginJob : j \in Job /\ j \notin RefreshJob
  /\ \A j \in RefreshJob : j \in Job /\ j \notin LoginJob
  /\ \A j \in PasswordJob : j \in Job /\ j \notin LoginJob /\ j \notin RefreshJob
BY DEF Job, LoginJob, RefreshJob, PasswordJob

LEMMA InitHolds == Init => IInv
<1> SUFFICES ASSUME Init PROVE IInv
  OBVIOUS
<1>1. Typed
  BY SessionsAssumptions DEF Init, Typed, Job, Token
<1>2. \A t \in Tokens : ~Issued(t) /\ token[t].state # "live"
  BY DEF Init, Issued
<1>3. CookiesIssued /\ IssuedForOpened /\ OneLiveToken
  BY <1>2 DEF Init, CookiesIssued, IssuedForOpened, OneLiveToken
<1>4. \A h \in Handlers : ~Login(h) /\ ~Refreshing(h)
  BY DEF Init, Login, Refreshing
<1>5. \A h \in Handlers, s \in Sids : ~StoresFor(h, s)
  BY <1>4 DEF StoresFor
<1> QED BY <1>1, <1>2, <1>3, <1>4, <1>5 DEF IInv, SInv, RefreshesIssued, LoginsIssued, StoresAlone

\* A step of request h that leaves the tokens alone and stores none.
LEMMA Quiet ==
  ASSUME IInv, Typed', NEW h \in Handlers,
         token' = token,
         \A s \in Sids : vouched[s] # 0 => vouched'[s] # 0,
         \A g \in Handlers \ {h} : job'[g] = job[g],
         CookiesIssued',
         Refreshing(h)' => Issued(job'[h].old) /\ (job'[h].token # Nothing => Issued(job'[h].token)),
         Login(h)' => /\ job'[h].pc = "reply" => Issued(job'[h].token)
                      /\ job'[h].pc # "store",
         Refreshing(h)' => job'[h].pc # "store"
  PROVE  IInv'
<1>1. \A t : Issued(t)' <=> Issued(t)
  BY DEF Issued
<1>2. opened \subseteq opened'
  BY DEF opened
<1>3. \A g \in Handlers \ {h} : /\ Login(g)' <=> Login(g)
                                /\ Refreshing(g)' <=> Refreshing(g)
  BY DEF Login, Refreshing
<1>4. RefreshesIssued'
  BY <1>1, <1>3 DEF IInv, SInv, RefreshesIssued
<1>5. LoginsIssued'
  BY <1>1, <1>2, <1>3 DEF IInv, SInv, LoginsIssued
<1>6. IssuedForOpened'
  BY <1>1, <1>2 DEF IInv, SInv, IssuedForOpened
<1>7. OneLiveToken'
  BY DEF IInv, SInv, OneLiveToken
<1>8. \A g \in Handlers, s \in Sids : StoresFor(g, s)' => g # h /\ StoresFor(g, s)
  BY <1>3 DEF StoresFor
<1>9. StoresAlone'
  BY <1>8 DEF IInv, SInv, StoresAlone
<1> QED BY <1>4, <1>5, <1>6, <1>7, <1>9 DEF IInv, SInv

LEMMA QuietDone ==
  ASSUME IInv, NEW h \in Handlers, Done(h), token' = token, CookiesIssued',
         cookie' \in [Browsers -> Tokens \union {Nothing}],
         UNCHANGED <<password, vouched>>, tracked' \subseteq Sids
  PROVE  IInv'
<1>1. /\ job'[h] = Nothing
      /\ \A g \in Handlers \ {h} : job'[g] = job[g]
      /\ job' \in [Handlers -> Job]
  BY DEF IInv, Typed, Done, Job
<1>2. Typed'
  BY <1>1 DEF IInv, Typed
<1>3. ~Login(h)' /\ ~Refreshing(h)'
  BY <1>1 DEF Login, Refreshing
<1> QED BY <1>1, <1>2, <1>3, Quiet

\* Request h only moves to a step that is neither a store nor a reply.
LEMMA QuietGoto ==
  ASSUME IInv, NEW h \in Handlers, NEW step, Goto(h, step), job[h] # Nothing,
         \/ job[h] \in LoginJob /\ step \in {"compare", "create"}
         \/ job[h] \in RefreshJob /\ step \in {"read", "active", "retire", "account", "revoke", "reply", "refused"}
         \/ job[h] \in PasswordJob /\ step \in {"write", "read", "revoke"},
         token' = token, cookie' = cookie,
         password' \in 1..MaxPasswords, vouched' \in [Sids -> Nat], tracked' \subseteq Sids,
         \A s \in Sids : vouched[s] # 0 => vouched'[s] # 0
  PROVE  IInv'
<1>1. /\ job' \in [Handlers -> Job]
      /\ \A g \in Handlers \ {h} : job'[g] = job[g]
  <2>1. [job[h] EXCEPT !.pc = step] \in Job
    BY DEF Job, LoginJob, RefreshJob, PasswordJob
  <2> QED BY <2>1 DEF IInv, Typed, Goto
<1>2. Typed'
  BY <1>1 DEF IInv, Typed
<1>3. CookiesIssued'
  BY DEF IInv, SInv, CookiesIssued, Issued
<1>4. job'[h] = [job[h] EXCEPT !.pc = step]
  BY DEF IInv, Typed, Goto
<1>5. CASE job[h] \in LoginJob /\ step \in {"compare", "create"}
  <2>1. job'[h] \in LoginJob /\ job'[h].pc = step
    BY <1>4, <1>5 DEF LoginJob
  <2>2. ~Refreshing(h)'
    BY <2>1, KindsApart DEF Refreshing
  <2> QED BY <1>1, <1>2, <1>3, <1>5, <2>1, <2>2, Quiet
<1>6. CASE job[h] \in RefreshJob /\ step \in {"read", "active", "retire", "account", "revoke", "reply", "refused"}
  <2>1. job'[h] \in RefreshJob /\ job'[h].pc = step /\ job'[h].old = job[h].old /\ job'[h].token = job[h].token
    BY <1>4, <1>6 DEF RefreshJob
  <2>2. ~Login(h)'
    BY <2>1, KindsApart DEF Login
  <2>3. Issued(job[h].old) /\ (job[h].token # Nothing => Issued(job[h].token))
    BY <1>6 DEF IInv, SInv, RefreshesIssued, Refreshing
  <2> QED BY <1>1, <1>2, <1>3, <1>6, <2>1, <2>2, <2>3, Quiet
<1>7. CASE job[h] \in PasswordJob /\ step \in {"write", "read", "revoke"}
  <2>1. job'[h] \in PasswordJob
    BY <1>4, <1>7 DEF PasswordJob
  <2>2. ~Login(h)' /\ ~Refreshing(h)'
    BY <2>1, KindsApart DEF Login, Refreshing
  <2> QED BY <1>1, <1>2, <1>3, <2>2, Quiet
<1> QED BY <1>5, <1>6, <1>7

-----------------------------------------------------------------------------
(* The steps that store no token. *)

LEMMA KeepsRequest ==
  ASSUME IInv, NEW h \in Handlers, NEW b \in Browsers, Request(h, b)
  PROVE  IInv'
<1>1. ASSUME NEW j \in Job, Begin(h, j), UNCHANGED <<password, vouched, tracked, token, cookie>>,
             j \in LoginJob => j.pc = "compare",
             j \in RefreshJob => j.pc = "read" /\ Issued(j.old) /\ j.token = Nothing
      PROVE  IInv'
  <2>1. /\ job'[h] = j
        /\ \A g \in Handlers \ {h} : job'[g] = job[g]
        /\ job' \in [Handlers -> Job]
    BY <1>1 DEF IInv, Typed, Begin
  <2>2. Typed'
    BY <1>1, <2>1 DEF IInv, Typed
  <2>3. CookiesIssued'
    BY <1>1 DEF IInv, SInv, CookiesIssued, Issued
  <2> QED BY <1>1, <2>1, <2>2, <2>3, Quiet DEF Login, Refreshing
<1>2. ASSUME NEW p \in 1..MaxPasswords, BeginLogin(h, b, p)
      PROVE  IInv'
  <2> DEFINE j == [kind |-> "login", by |-> b, pc |-> "compare", password |-> p, sid |-> Nothing, token |-> Nothing]
  <2>1. j \in LoginJob /\ j.pc = "compare"
    BY DEF LoginJob
  <2>2. Begin(h, j) /\ UNCHANGED <<password, vouched, tracked, token, cookie>>
    BY <1>2 DEF BeginLogin, account, redis
  <2> HIDE DEF j
  <2> QED BY <1>1, <2>1, <2>2, KindsApart
<1>3. ASSUME NEW kind \in Rotating, BeginRefresh(h, b, kind)
      PROVE  IInv'
  <2> DEFINE j == [kind |-> kind, by |-> b, pc |-> "read", old |-> cookie[b], seen |-> "none", token |-> Nothing]
  <2>1. cookie[b] \in Tokens /\ Issued(cookie[b])
    BY <1>3 DEF BeginRefresh, IInv, Typed, SInv, CookiesIssued
  <2>2. j \in RefreshJob /\ j.pc = "read" /\ j.old = cookie[b] /\ j.token = Nothing
    BY <2>1 DEF RefreshJob, Rotating
  <2>3. Begin(h, j) /\ UNCHANGED <<password, vouched, tracked, token, cookie>>
    BY <1>3 DEF BeginRefresh, account, redis
  <2> HIDE DEF j
  <2> QED BY <1>1, <2>1, <2>2, <2>3, KindsApart
<1>4. ASSUME NEW kind \in {"change", "reset", "close"}, NEW sid \in Sids, BeginPasswordJob(h, b, kind, sid)
      PROVE  IInv'
  <2> DEFINE j == [kind |-> kind, by |-> b, pc |-> "write", password |-> password + 1,
                   keep |-> IF kind = "change" THEN sid ELSE Nothing, found |-> {}]
  <2>1. password + 1 \in 1..MaxPasswords
    BY <1>4, SessionsAssumptions DEF BeginPasswordJob, IInv, Typed
  <2>2. j \in PasswordJob
    BY <2>1 DEF PasswordJob
  <2>3. Begin(h, j) /\ UNCHANGED <<password, vouched, tracked, token, cookie>>
    BY <1>4 DEF BeginPasswordJob, account, redis
  <2> HIDE DEF j
  <2> QED BY <1>1, <2>2, <2>3, KindsApart
<1> QED BY <1>2, <1>3, <1>4 DEF Request

\* Steps that read, refuse or end.
LEMMA KeepsGoing ==
  ASSUME IInv, NEW h \in Handlers,
         \/ ComparePassword(h) \/ CheckActive(h) \/ PresentedAgain(h) \/ RecheckAccount(h) \/ RevokeSession(h)
         \/ Crash(h)
  PROVE  IInv'
<1> USE JobAt DEF Refused, Exchanged
<1>0. Typed /\ tracked \ {Sid(h)} \subseteq Sids
  BY DEF IInv, Typed
<1>1. ASSUME NEW step \in {"active", "retire", "account", "revoke", "reply", "refused"}, Goto(h, step),
             Refreshing(h), UNCHANGED <<password, vouched, token, cookie>>,
             tracked' \subseteq Sids
      PROVE  IInv'
  BY <1>0, <1>1, QuietGoto DEF Typed, Refreshing
<1>2. ASSUME Done(h), UNCHANGED <<password, vouched, tracked, token, cookie>>
      PROVE  IInv'
  <2>1. CookiesIssued'
    BY <1>2 DEF IInv, SInv, CookiesIssued, Issued
  <2> QED BY <1>0, <1>2, <2>1, QuietDone DEF Typed
<1>3. CASE ComparePassword(h)
  <2>1. CASE Goto(h, "create")
    BY <1>0, <1>3, <2>1, QuietGoto DEF ComparePassword, Typed, Login, account, redis
  <2>2. CASE Done(h)
    BY <1>2, <1>3, <2>2 DEF ComparePassword, account, redis
  <2> QED BY <1>3, <2>1, <2>2 DEF ComparePassword
<1>4. CASE CheckActive(h)
  <2>1. Refreshing(h) /\ UNCHANGED <<password, vouched, token, cookie>> /\ tracked' \subseteq Sids
    BY <1>0, <1>4 DEF CheckActive, Typed, account, redis
  <2>2. Goto(h, "refused") \/ Goto(h, "retire")
    BY <1>4 DEF CheckActive
  <2> QED BY <1>1, <2>1, <2>2
<1>5. CASE PresentedAgain(h)
  <2>1. Refreshing(h) /\ UNCHANGED <<password, vouched, token, cookie>> /\ tracked' \subseteq Sids
    BY <1>0, <1>5 DEF PresentedAgain, Typed, account, history
  <2>2. Goto(h, "refused") \/ Goto(h, "account") \/ Goto(h, "revoke")
    BY <1>5 DEF PresentedAgain
  <2> QED BY <1>1, <2>1, <2>2
<1>6. CASE RecheckAccount(h)
  <2>1. Refreshing(h) /\ UNCHANGED <<password, vouched, token, cookie>> /\ tracked' \subseteq Sids
    BY <1>0, <1>6 DEF RecheckAccount, Typed, account, redis
  <2>2. Goto(h, "reply") \/ Goto(h, "revoke")
    BY <1>6 DEF RecheckAccount
  <2> QED BY <1>1, <2>1, <2>2
<1>7. CASE RevokeSession(h)
  BY <1>0, <1>1, <1>7 DEF RevokeSession, account, history
<1>8. CASE Crash(h)
  BY <1>2, <1>8 DEF Crash, account, redis
<1> QED BY <1>3, <1>4, <1>5, <1>6, <1>7, <1>8

LEMMA KeepsReadToken ==
  ASSUME IInv, NEW h \in Handlers, ReadToken(h)
  PROVE  IInv'
<1>1. Typed /\ Refreshing(h) /\ UNCHANGED <<password, vouched, tracked, token, cookie>>
  BY JobAt DEF IInv, ReadToken, account, redis
<1>2. token[job[h].old].state \in {"live", "retired", "stale"}
  BY <1>1 DEF IInv, SInv, RefreshesIssued, Issued, Typed, Token
<1>3. job'[h] = [job[h] EXCEPT !.seen = token[job[h].old].state, !.pc = "active"]
  BY <1>1 DEF ReadToken, Typed
<1>4. /\ job'[h] \in RefreshJob /\ job'[h].pc = "active"
      /\ job'[h].old = job[h].old /\ job'[h].token = job[h].token
  BY <1>1, <1>2, <1>3 DEF Refreshing, RefreshJob
<1>5. /\ \A g \in Handlers \ {h} : job'[g] = job[g]
      /\ job' \in [Handlers -> Job]
  BY <1>1, <1>3, <1>4, KindsApart DEF ReadToken, Typed
<1>6. Typed'
  BY <1>1, <1>5 DEF Typed
<1>7. CookiesIssued'
  BY <1>1 DEF IInv, SInv, CookiesIssued, Issued
<1>8. Issued(job[h].old) /\ (job[h].token # Nothing => Issued(job[h].token))
  BY <1>1 DEF IInv, SInv, RefreshesIssued
<1>9. ~Login(h)'
  BY <1>4, KindsApart DEF Login
<1> QED BY <1>1, <1>4, <1>5, <1>6, <1>7, <1>8, <1>9, Quiet

\* The answers.
LEMMA KeepsReplies ==
  ASSUME IInv, NEW h \in Handlers, LoginReply(h) \/ RefreshReply(h)
  PROVE  IInv'
<1>1. Typed /\ Done(h) /\ UNCHANGED <<password, vouched, tracked, token>>
  BY DEF IInv, LoginReply, RefreshReply, account, redis
<1>2. /\ cookie' \in [Browsers -> Tokens \union {Nothing}]
      /\ \A b \in Browsers : cookie'[b] # Nothing /\ cookie'[b] # cookie[b] => Issued(cookie'[b])
  <2>1. CASE LoginReply(h)
    <3>1. job[h] \in LoginJob /\ Issued(job[h].token) /\ job[h].token \in Tokens
      BY <1>1, <2>1, JobAt DEF LoginReply, IInv, SInv, LoginsIssued, Login, Issued
    <3> QED BY <1>1, <2>1, <3>1 DEF LoginReply, Typed
  <2>2. CASE RefreshReply(h)
    <3>1. job[h].token # Nothing /\ At(h, {"refresh"}, "reply") => Issued(job[h].token) /\ job[h].token \in Tokens
      BY <1>1, JobAt DEF IInv, SInv, RefreshesIssued, Refreshing, Issued
    <3> QED BY <1>1, <2>2, <3>1 DEF RefreshReply, Typed
  <2> QED BY <2>1, <2>2
<1>3. CookiesIssued'
  BY <1>1, <1>2 DEF IInv, SInv, CookiesIssued, Issued, Typed
<1> QED BY <1>1, <1>2, <1>3, QuietDone DEF Typed

\* A password change, a reset or the closing of the account.
LEMMA KeepsPasswordJobs ==
  ASSUME IInv, NEW h \in Handlers, WriteAccount(h) \/ FindSessions(h) \/ RevokeSessions(h)
  PROVE  IInv'
<1>0. /\ Typed /\ job[h] # Nothing /\ job[h] \in PasswordJob
      /\ UNCHANGED <<token, cookie>>
  BY JobAt DEF IInv, WriteAccount, FindSessions, RevokeSessions, redis, history
<1>1. job[h].password \in 1..MaxPasswords /\ job[h].keep \in Sids \union {Nothing} /\ job[h].found \in SUBSET Sids
  BY <1>0 DEF PasswordJob
<1>2. CookiesIssued'
  BY <1>0 DEF IInv, SInv, CookiesIssued, Issued
<1>3. CASE WriteAccount(h)
  <2>1. password' \in 1..MaxPasswords /\ tracked' = tracked /\ Goto(h, "read")
    BY <1>0, <1>1, <1>3 DEF WriteAccount, Typed
  <2>2. /\ vouched' \in [Sids -> Nat]
        /\ \A s \in Sids : vouched[s] # 0 => vouched'[s] # 0
    BY <1>0, <1>1, <1>3, SessionsAssumptions DEF WriteAccount, Typed
  <2> QED BY <1>0, <2>1, <2>2, QuietGoto DEF Typed
<1>4. CASE FindSessions(h)
  <2>1. UNCHANGED <<password, vouched, tracked>>
    BY <1>4 DEF FindSessions, account, redis
  <2>2. job'[h] = [job[h] EXCEPT !.pc = "revoke", !.found = tracked \ {job[h].keep}]
    BY <1>0, <1>4 DEF FindSessions, Typed
  <2>3. job'[h] \in PasswordJob
    BY <1>0, <2>2 DEF PasswordJob, Typed
  <2>4. /\ \A g \in Handlers \ {h} : job'[g] = job[g]
        /\ job' \in [Handlers -> Job]
    BY <1>0, <1>4, <2>2, <2>3, KindsApart DEF FindSessions, Typed
  <2>5. ~Login(h)' /\ ~Refreshing(h)'
    BY <2>3, KindsApart DEF Login, Refreshing
  <2>6. Typed'
    BY <1>0, <2>1, <2>4 DEF Typed
  <2> QED BY <1>0, <1>2, <2>1, <2>4, <2>5, <2>6, Quiet
<1>5. CASE RevokeSessions(h)
  <2>1. Done(h) /\ UNCHANGED <<password, vouched>>
    BY <1>5 DEF RevokeSessions, account, history
  <2>2. tracked' \subseteq Sids
    BY <1>0, <1>1, <1>5 DEF RevokeSessions, ForgetSessions, Typed
  <2> QED BY <1>0, <1>2, <2>1, <2>2, QuietDone DEF Typed
<1> QED BY <1>3, <1>4, <1>5

-----------------------------------------------------------------------------
(* The steps that change tokens or draw a session. *)

\* A session nobody knows yet: no token is of it, no request stores one for it.
LEMMA KeepsCreateSession ==
  ASSUME IInv, NEW h \in Handlers, CreateSession(h)
  PROVE  IInv'
<1>0. Typed /\ Login(h) /\ job[h].pc = "create" /\ UNCHANGED <<password, token, cookie>>
  BY JobAt DEF IInv, CreateSession, account
<1>1. PICK sid \in Sids \ opened :
        /\ tracked' = tracked \union {sid}
        /\ vouched' = [vouched EXCEPT ![sid] = job[h].password]
        /\ job' = [job EXCEPT ![h].pc = "store", ![h].sid = sid]
  BY DEF CreateSession
<1>2. job'[h] = [job[h] EXCEPT !.pc = "store", !.sid = sid]
  BY <1>0, <1>1 DEF Typed
<1>3. /\ job'[h] \in LoginJob /\ job'[h].sid = sid /\ job'[h].pc = "store"
      /\ job[h].password \in 1..MaxPasswords
  <2>1. sid \in Sids \union {Nothing} /\ job[h] \in LoginJob
    BY <1>0 DEF Login
  <2>2. job[h].password \in 1..MaxPasswords
    BY <2>1 DEF LoginJob
  <2> QED BY <1>2, <2>1, <2>2 DEF LoginJob
<1>4. /\ \A g \in Handlers \ {h} : job'[g] = job[g]
      /\ job' \in [Handlers -> Job]
  BY <1>0, <1>1, <1>2, <1>3, KindsApart DEF Typed
<1>5. Typed'
  BY <1>0, <1>1, <1>3, <1>4, SessionsAssumptions DEF Typed
<1>6. opened' = opened \union {sid}
  BY <1>0, <1>1, <1>3, SessionsAssumptions DEF opened, Typed
<1>7. \A t : Issued(t)' <=> Issued(t)
  BY <1>0 DEF Issued
<1>8. /\ ~Refreshing(h)'
      /\ \A g \in Handlers \ {h} : (Login(g)' <=> Login(g)) /\ (Refreshing(g)' <=> Refreshing(g))
  BY <1>3, <1>4, KindsApart DEF Login, Refreshing
<1>9. CookiesIssued' /\ OneLiveToken'
  BY <1>0, <1>7 DEF IInv, SInv, CookiesIssued, OneLiveToken
<1>10. RefreshesIssued'
  BY <1>4, <1>7, <1>8 DEF IInv, SInv, RefreshesIssued
<1>11. LoginsIssued'
  BY <1>3, <1>4, <1>6, <1>7, <1>8 DEF IInv, SInv, LoginsIssued
<1>12. IssuedForOpened'
  BY <1>0, <1>6, <1>7 DEF IInv, SInv, IssuedForOpened
<1>13. \A t \in Tokens : token[t].state = "live" => token[t].sid # sid
  BY <1>1 DEF IInv, SInv, IssuedForOpened, Issued
<1>14. \A g \in Handlers : ~StoresFor(g, sid)
  BY <1>1 DEF IInv, SInv, LoginsIssued, RefreshesIssued, IssuedForOpened, Issued, StoresFor
<1>15. \A g \in Handlers \ {h}, s \in Sids : StoresFor(g, s)' <=> StoresFor(g, s)
  BY <1>0, <1>4, <1>8 DEF StoresFor
<1>16. \A s \in Sids : StoresFor(h, s)' => s = sid
  BY <1>3, <1>8 DEF StoresFor
<1>17. StoresAlone'
  BY <1>0, <1>13, <1>14, <1>15, <1>16 DEF IInv, SInv, StoresAlone
<1> QED BY <1>5, <1>9, <1>10, <1>11, <1>12, <1>17 DEF IInv, SInv

\* A token is stored for session s by the one request that may.
LEMMA KeepsStore ==
  ASSUME IInv, NEW h \in Handlers, NEW s \in Sids, NEW t \in Tokens, NEW j,
         StoresFor(h, s), StoreRefreshToken(t, s),
         job' = [job EXCEPT ![h] = j], j.pc # "store", j.token = t,
         \/ Login(h) /\ j \in LoginJob
         \/ Refreshing(h) /\ j \in RefreshJob /\ j.old = job[h].old,
         UNCHANGED <<password, vouched, tracked, cookie>>
  PROVE  IInv'
<1>0. Typed
  BY DEF IInv
<1>1. /\ job'[h] = j
      /\ \A g \in Handlers \ {h} : job'[g] = job[g]
  BY <1>0 DEF Typed
<1>2. /\ Login(h) => j \in LoginJob
      /\ Refreshing(h) => j \in RefreshJob /\ j.old = job[h].old
  BY KindsApart DEF Login, Refreshing
<1>3. job' \in [Handlers -> Job]
  BY <1>0, <1>2, KindsApart DEF Typed
<1>4. /\ token[t].state = "unused"
      /\ token'[t] = [state |-> "live", sid |-> s]
      /\ \A u \in Tokens \ {t} : token'[u] = token[u]
      /\ token' \in [Tokens -> Token]
  BY <1>0 DEF StoreRefreshToken, Typed, Token
<1>5. Typed'
  BY <1>0, <1>3, <1>4 DEF Typed
<1>6. \A u : Issued(u)' <=> Issued(u) \/ u = t
  <2>1. token'[t].state = "live"
    BY <1>4
  <2> QED BY <1>4, <2>1 DEF Issued
<1>7. s \in opened
  BY DEF IInv, SInv, StoresFor, LoginsIssued, RefreshesIssued, IssuedForOpened, Issued
<1>8. opened' = opened
  BY DEF opened
<1>9. /\ Login(h)' => Login(h)
      /\ Refreshing(h)' => Refreshing(h)
      /\ \A g \in Handlers \ {h} : (Login(g)' <=> Login(g)) /\ (Refreshing(g)' <=> Refreshing(g))
  BY <1>1, <1>2, KindsApart DEF Login, Refreshing
<1>10. CookiesIssued'
  BY <1>6 DEF IInv, SInv, CookiesIssued
<1>11. RefreshesIssued'
  BY <1>1, <1>2, <1>6, <1>9 DEF IInv, SInv, RefreshesIssued
<1>12. LoginsIssued'
  BY <1>1, <1>2, <1>6, <1>8, <1>9 DEF IInv, SInv, LoginsIssued
<1>13. IssuedForOpened'
  BY <1>4, <1>6, <1>7, <1>8 DEF IInv, SInv, IssuedForOpened
<1>14. \A u \in Tokens : token[u].state = "live" => token[u].sid # s
  BY DEF IInv, SInv, StoresAlone
<1>15. OneLiveToken'
  BY <1>4, <1>14 DEF IInv, SInv, OneLiveToken
<1>16. \A g \in Handlers \ {h}, r \in Sids : StoresFor(g, r)' <=> StoresFor(g, r)
  <2> TAKE g \in Handlers \ {h}, r \in Sids
  <2>1. Refreshing(g) => token'[job[g].old] = token[job[g].old]
    BY <1>4 DEF IInv, SInv, RefreshesIssued, Issued
  <2> QED BY <1>1, <1>9, <2>1 DEF StoresFor
<1>17. \A r \in Sids : ~StoresFor(h, r)'
  BY <1>1 DEF StoresFor
<1>18. StoresAlone'
  <2> SUFFICES ASSUME NEW g \in Handlers \ {h}, NEW r \in Sids, StoresFor(g, r)
               PROVE  /\ \A u \in Tokens : token'[u].state = "live" => token'[u].sid # r
                      /\ \A f \in Handlers \ {h} : StoresFor(f, r) => f = g
    BY <1>16, <1>17 DEF StoresAlone
  <2>1. r # s
    BY DEF IInv, SInv, StoresAlone
  <2> QED BY <1>4, <2>1 DEF IInv, SInv, StoresAlone
<1> QED BY <1>5, <1>10, <1>11, <1>12, <1>13, <1>15, <1>18 DEF IInv, SInv

LEMMA KeepsStoring ==
  ASSUME IInv, NEW h \in Handlers, StoreFirstToken(h) \/ StoreNextToken(h)
  PROVE  IInv'
<1>0. Typed
  BY DEF IInv
<1>1. CASE StoreFirstToken(h)
  <2>1. Login(h) /\ job[h].pc = "store" /\ UNCHANGED <<password, vouched, tracked, cookie>>
    BY <1>0, <1>1, JobAt DEF StoreFirstToken, account, history
  <2>2. job[h].sid \in Sids /\ StoresFor(h, job[h].sid)
    BY <2>1 DEF IInv, SInv, LoginsIssued, opened, StoresFor
  <2>3. PICK t \in Tokens : StoreRefreshToken(t, job[h].sid) /\ job' = [job EXCEPT ![h].pc = "reply", ![h].token = t]
    BY <1>1 DEF StoreFirstToken
  <2> DEFINE j == [job[h] EXCEPT !.pc = "reply", !.token = t]
  <2>4. job' = [job EXCEPT ![h] = j]
    BY <1>0, <2>3 DEF Typed
  <2>5. j \in LoginJob /\ j.pc = "reply" /\ j.token = t
    <3>1. job[h] \in LoginJob
      BY <2>1 DEF Login
    <3> QED BY <3>1 DEF LoginJob
  <2> HIDE DEF j
  <2> QED BY <2>1, <2>2, <2>3, <2>4, <2>5, KeepsStore
<1>2. CASE StoreNextToken(h)
  <2>1. Refreshing(h) /\ job[h].pc = "store" /\ UNCHANGED <<password, vouched, tracked, cookie>>
    BY <1>0, <1>2, JobAt DEF StoreNextToken, account, history
  <2>2. Sid(h) \in Sids /\ StoresFor(h, Sid(h))
    BY <2>1 DEF IInv, SInv, RefreshesIssued, IssuedForOpened, opened, StoresFor, Sid, Issued
  <2> DEFINE step == IF job[h].kind = "refresh" THEN "account" ELSE "revoke"
  <2>3. PICK t \in Tokens : StoreRefreshToken(t, Sid(h)) /\ job' = [job EXCEPT ![h].pc = step, ![h].token = t]
    BY <1>2 DEF StoreNextToken
  <2>4. step \in {"account", "revoke"}
    OBVIOUS
  <2> HIDE DEF step
  <2> DEFINE j == [job[h] EXCEPT !.pc = step, !.token = t]
  <2>5. job' = [job EXCEPT ![h] = j]
    BY <1>0, <2>3 DEF Typed
  <2>6. j \in RefreshJob /\ j.pc = step /\ j.token = t /\ j.old = job[h].old
    <3>1. job[h] \in RefreshJob
      BY <2>1 DEF Refreshing
    <3> QED BY <2>4, <3>1 DEF RefreshJob
  <2> HIDE DEF j
  <2> QED BY <2>1, <2>2, <2>3, <2>4, <2>5, <2>6, KeepsStore
<1> QED BY <1>1, <1>2

\* The live token is taken away before its successor is stored.
LEMMA KeepsRetireToken ==
  ASSUME IInv, NEW h \in Handlers, RetireToken(h)
  PROVE  IInv'
<1>0. Typed /\ Refreshing(h) /\ UNCHANGED <<password, vouched, tracked, cookie>>
  BY JobAt DEF IInv, RetireToken, account, history
<1>1. CASE token[job[h].old].state # "live"
  <2>1. UNCHANGED token /\ \E step \in {"account", "revoke"} : Goto(h, step)
    BY <1>1 DEF RetireToken, Exchanged
  <2> QED BY <1>0, <2>1, QuietGoto DEF Typed, Refreshing
<1>2. CASE token[job[h].old].state = "live"
  <2> DEFINE old == job[h].old
             s == token[old].sid
  <2>1. old \in Tokens /\ Issued(old)
    BY <1>0 DEF IInv, SInv, RefreshesIssued, Issued
  <2>2. s \in Sids
    BY <1>0, <1>2, <2>1 DEF Typed, Token
  <2>3. token' = [token EXCEPT ![old].state = "retired"] /\ Goto(h, "store")
    BY <1>2 DEF RetireToken
  <2>4. token'[old] = [token[old] EXCEPT !.state = "retired"] /\ \A u \in Tokens \ {old} : token'[u] = token[u]
    BY <1>0, <2>1, <2>3 DEF Typed
  <2>5. token'[old].state = "retired" /\ token'[old].sid = s /\ token'[old] \in Token
    BY <1>0, <1>2, <2>1, <2>2, <2>4 DEF Typed, Token
  <2>6. token' \in [Tokens -> Token]
    BY <1>0, <2>1, <2>3, <2>4, <2>5 DEF Typed
  <2>7. job'[h] = [job[h] EXCEPT !.pc = "store"]
    BY <1>0, <2>3 DEF Goto, Typed
  <2>8. /\ job'[h] \in RefreshJob /\ job'[h].pc = "store"
        /\ job'[h].old = old /\ job'[h].token = job[h].token
    BY <1>0, <2>7 DEF RefreshJob, Refreshing
  <2>9. /\ \A g \in Handlers \ {h} : job'[g] = job[g]
        /\ job' \in [Handlers -> Job]
    BY <1>0, <2>3, <2>7, <2>8, KindsApart DEF Goto, Typed
  <2>10. Typed'
    BY <1>0, <2>6, <2>9 DEF Typed
  <2>11. /\ \A u : Issued(u)' <=> Issued(u)
         /\ \A u \in Tokens : token'[u].sid = token[u].sid
         /\ \A u \in Tokens : token'[u].state = "live" => token[u].state = "live" /\ u # old
    BY <2>1, <2>4, <2>5 DEF Issued
  <2>12. /\ ~Login(h)'
         /\ \A g \in Handlers \ {h} : (Login(g)' <=> Login(g)) /\ (Refreshing(g)' <=> Refreshing(g))
    BY <2>8, <2>9, KindsApart DEF Login, Refreshing
  <2>13. opened' = opened
    BY <1>0 DEF opened
  <2> HIDE DEF s, old
  <2>14. CookiesIssued' /\ OneLiveToken' /\ IssuedForOpened'
    BY <1>0, <2>11, <2>13 DEF IInv, SInv, CookiesIssued, OneLiveToken, IssuedForOpened
  <2>15. RefreshesIssued'
    BY <1>0, <2>8, <2>9, <2>11, <2>12 DEF IInv, SInv, RefreshesIssued, old
  <2>16. LoginsIssued'
    BY <2>9, <2>11, <2>12, <2>13 DEF IInv, SInv, LoginsIssued
  <2>17. \A g \in Handlers \ {h}, r \in Sids : StoresFor(g, r)' <=> StoresFor(g, r)
    <3> TAKE g \in Handlers \ {h}, r \in Sids
    <3>1. Refreshing(g) => job[g].old \in Tokens
      BY DEF IInv, SInv, RefreshesIssued, Issued
    <3> QED BY <2>9, <2>11, <2>12, <3>1 DEF StoresFor
  <2>18. \A r \in Sids : StoresFor(h, r)' => r = s
    BY <2>5, <2>8, <2>12 DEF StoresFor
  <2>19. \A g \in Handlers : ~StoresFor(g, s)
    BY <1>2, <2>1, <2>2 DEF IInv, SInv, StoresAlone, s, old
  <2>20. \A u \in Tokens : token'[u].state = "live" => token'[u].sid # s
    BY <1>2, <2>1, <2>11 DEF IInv, SInv, OneLiveToken, s, old
  <2>21. StoresAlone'
    <3> SUFFICES ASSUME NEW g \in Handlers, NEW r \in Sids, StoresFor(g, r)'
                 PROVE  /\ \A u \in Tokens : token'[u].state = "live" => token'[u].sid # r
                        /\ \A f \in Handlers : StoresFor(f, r)' => f = g
      BY DEF StoresAlone
    <3>1. CASE g = h
      BY <2>17, <2>18, <2>19, <2>20, <3>1
    <3>2. CASE g # h
      <4>1. StoresFor(g, r) /\ r # s
        BY <2>17, <2>19, <3>2
      <4> QED BY <2>11, <2>17, <2>18, <3>2, <4>1 DEF IInv, SInv, StoresAlone
    <3> QED BY <3>1, <3>2
  <2> QED BY <2>10, <2>14, <2>15, <2>16, <2>21 DEF IInv, SInv
<1> QED BY <1>1, <1>2

LEMMA KeepsGraceEnds ==
  ASSUME IInv, NEW t \in Tokens, GraceEnds(t)
  PROVE  IInv'
<1>0. Typed /\ UNCHANGED <<password, vouched, tracked, cookie, job>>
  BY DEF IInv, GraceEnds, account, history
<1>1. /\ token[t].state = "retired"
      /\ token'[t] = [token[t] EXCEPT !.state = "stale"]
      /\ \A u \in Tokens \ {t} : token'[u] = token[u]
  BY <1>0 DEF GraceEnds, Typed
<1>2. token'[t].state = "stale" /\ token'[t].sid = token[t].sid /\ token'[t] \in Token
  BY <1>0, <1>1 DEF Typed, Token
<1>3. token' \in [Tokens -> Token]
  BY <1>0, <1>1, <1>2 DEF GraceEnds, Typed
<1>4. Typed'
  BY <1>0, <1>3 DEF Typed
<1>5. /\ \A u : Issued(u)' <=> Issued(u)
      /\ \A u \in Tokens : token'[u].sid = token[u].sid
      /\ \A u \in Tokens : token'[u].state = "live" => token[u].state = "live"
  BY <1>1, <1>2 DEF Issued
<1>6. /\ opened' = opened
      /\ \A g \in Handlers : (Login(g)' <=> Login(g)) /\ (Refreshing(g)' <=> Refreshing(g))
  BY <1>0 DEF opened, Login, Refreshing
<1>7. CookiesIssued' /\ OneLiveToken' /\ IssuedForOpened'
  BY <1>0, <1>5, <1>6 DEF IInv, SInv, CookiesIssued, OneLiveToken, IssuedForOpened
<1>8. RefreshesIssued' /\ LoginsIssued'
  BY <1>0, <1>5, <1>6 DEF IInv, SInv, RefreshesIssued, LoginsIssued
<1>9. \A g \in Handlers, r \in Sids : StoresFor(g, r)' <=> StoresFor(g, r)
  <2> TAKE g \in Handlers, r \in Sids
  <2>1. Refreshing(g) => job[g].old \in Tokens
    BY DEF IInv, SInv, RefreshesIssued, Issued
  <2> QED BY <1>0, <1>5, <1>6, <2>1 DEF StoresFor
<1>10. StoresAlone'
  BY <1>5, <1>9 DEF IInv, SInv, StoresAlone
<1> QED BY <1>4, <1>7, <1>8, <1>10 DEF IInv, SInv

-----------------------------------------------------------------------------
(* The theorem. *)

\* Nothing the invariant speaks of changes.
LEMMA KeepsUnchanged ==
  ASSUME IInv, UNCHANGED <<password, vouched, tracked, token, cookie, job>>
  PROVE  IInv'
<1>1. Typed'
  BY DEF IInv, Typed
<1>2. CookiesIssued' /\ RefreshesIssued' /\ LoginsIssued' /\ IssuedForOpened' /\ OneLiveToken'
  BY DEF IInv, SInv, CookiesIssued, RefreshesIssued, LoginsIssued, IssuedForOpened, OneLiveToken,
         Issued, Login, Refreshing, opened
<1>3. StoresAlone'
  BY DEF IInv, SInv, StoresAlone, StoresFor, Login, Refreshing
<1> QED BY <1>1, <1>2, <1>3 DEF IInv, SInv

LEMMA StepHolds == IInv /\ [Next]_vars => IInv'
<1> SUFFICES ASSUME IInv, [Next]_vars PROVE IInv'
  OBVIOUS
<1>1. ASSUME NEW h \in Handlers, HandlerStep(h) PROVE IInv'
  BY <1>1, KeepsGoing, KeepsReadToken, KeepsReplies, KeepsPasswordJobs, KeepsCreateSession, KeepsStoring, KeepsRetireToken
     DEF HandlerStep
<1>2. ASSUME NEW h \in Handlers, NEW b \in Browsers, Request(h, b) PROVE IInv'
  BY <1>2, KeepsRequest
<1>3. ASSUME NEW t \in Tokens, GraceEnds(t) PROVE IInv'
  BY <1>3, KeepsGraceEnds
<1>4. CASE Suspend
  BY <1>4, KeepsUnchanged DEF Suspend, redis
<1>5. ASSUME NEW sid \in Sids, SessionExpires(sid) PROVE IInv'
  BY <1>5, KeepsUnchanged DEF SessionExpires, account, history
<1>6. CASE UNCHANGED vars
  BY <1>6, KeepsUnchanged DEF vars
<1> QED BY <1>1, <1>2, <1>3, <1>4, <1>5, <1>6 DEF Next

\* One live refresh token per session (sessionStore.ts:5-6): of any number of
\* requests that present the same token at once, one exchanges it and stores
\* the next, and no login stores one for a session that is known.
THEOREM OneLive == Spec => []OneLiveToken
<1>1. IInv => OneLiveToken
  BY DEF IInv, SInv
<1> QED BY <1>1, InitHolds, StepHolds, PTL DEF Spec

-----------------------------------------------------------------------------
(* No false alarm: which browser a token is, or will be, in. *)

\* Request h will hand out token t with its answer.
Holds(h, t) == (Login(h) \/ Refreshing(h)) /\ job[h].token = t

\* A token is live until its answer arrives, and nobody else has it.
Undelivered ==
  \A h \in Handlers, t \in Tokens : Holds(h, t) =>
    /\ token[t].state = "live"
    /\ \A b \in Browsers : cookie[b] # t
    /\ \A g \in Handlers : (Refreshing(g) => job[g].old # t) /\ (Holds(g, t) => g = h)

\* A token in a browser is in no other one and is presented by no other one.
OneBrowser ==
  \A b \in Browsers, t \in Tokens : cookie[b] = t =>
    /\ \A c \in Browsers : cookie[c] = t => c = b
    /\ \A h \in Handlers : Refreshing(h) /\ job[h].old = t => job[h].by = b

\* The answer of request h takes t out of its browser.
Replaces(h, t) ==
  /\ Refreshing(h) /\ job[h].old = t
  /\ job[h].pc \in {"store", "revoke", "refused"} \/ job[h].token # Nothing

\* Unless an answer was lost: a browser whose token has been exchanged waits
\* for the answer that replaces it.
Replaced ==
  crashes = 0 => \A b \in Browsers, t \in Tokens : cookie[b] = t /\ token[t].state \in {"retired", "stale"} =>
    /\ token[t].state = "retired"
    /\ \E h \in Handlers : Replaces(h, t) /\ job[h].by = b

\* Unless an answer was lost: no request presents a stale token.
SeenInTime ==
  crashes = 0 => \A h \in Handlers : Refreshing(h) =>
    /\ token[job[h].old].state \in {"live", "retired"}
    /\ job[h].pc = "read" \/ job[h].seen \in {"live", "retired"}

TInv == crashes \in Nat /\ Undelivered /\ OneBrowser /\ Replaced /\ SeenInTime /\ NoFalseAlarm

LEMMA TimelyInit == Init => TInv
<1> SUFFICES ASSUME Init PROVE TInv
  OBVIOUS
<1>1. \A h \in Handlers : ~Login(h) /\ ~Refreshing(h)
  BY DEF Init, Login, Refreshing
<1>2. \A b \in Browsers, t \in Tokens : cookie[b] # t
  BY SessionsAssumptions DEF Init
<1> QED BY <1>1, <1>2 DEF Init, TInv, Undelivered, OneBrowser, Replaced, SeenInTime, NoFalseAlarm, Holds

\* Request h takes a step within itself: it keeps the token it presented and
\* the one it will hand out, and still replaces what it would have replaced.
LEMMA TimelyWithin ==
  ASSUME TInv, NEW h \in Handlers, UNCHANGED <<token, cookie, alarms, crashes>>,
         \A g \in Handlers \ {h} : job'[g] = job[g],
         Login(h)' => Login(h) /\ job'[h].token = job[h].token,
         Refreshing(h)' => /\ Refreshing(h) /\ job'[h].old = job[h].old /\ job'[h].by = job[h].by
                           /\ job'[h].token = job[h].token,
         Refreshing(h) => /\ Refreshing(h)'
                          /\ job[h].pc \in {"store", "revoke", "refused"} => job'[h].pc \in {"store", "revoke", "refused"},
         crashes = 0 /\ Refreshing(h)' => job'[h].seen \in {"live", "retired"}
  PROVE  TInv'
<1>1. \A g \in Handlers \ {h} : (Login(g)' <=> Login(g)) /\ (Refreshing(g)' <=> Refreshing(g))
  BY DEF Login, Refreshing
<1>2. \A t : \A g \in Handlers : Holds(g, t)' => Holds(g, t)
  BY <1>1 DEF Holds
<1>3. \A g \in Handlers : Refreshing(g)' => Refreshing(g) /\ job'[g].old = job[g].old /\ job'[g].by = job[g].by
  BY <1>1
<1>4. \A t : \A g \in Handlers : Replaces(g, t) => Replaces(g, t)' /\ job'[g].by = job[g].by
  BY <1>1 DEF Replaces
<1>5. Undelivered' /\ OneBrowser'
  BY <1>2, <1>3 DEF TInv, Undelivered, OneBrowser
<1>6. Replaced'
  BY <1>4 DEF TInv, Replaced
<1>7. SeenInTime'
  BY <1>1, <1>3 DEF TInv, SeenInTime
<1> QED BY <1>5, <1>6, <1>7 DEF TInv, NoFalseAlarm

\* Request h ends, having set its browser's cookie to what it hands out, if it
\* does not leave it alone.
LEMMA TimelyAnswer ==
  ASSUME IInv, TInv, NEW h \in Handlers, job[h] # Nothing, Done(h), UNCHANGED <<token, alarms, crashes>>,
         \/ cookie' = cookie /\ \A t : ~Replaces(h, t)
         \/ \E x : /\ cookie' = [cookie EXCEPT ![job[h].by] = x]
                   /\ x = Nothing \/ (x \in Tokens /\ Holds(h, x))
  PROVE  TInv'
<1>0. Typed /\ cookie \in [Browsers -> Tokens \union {Nothing}]
  BY DEF IInv, Typed
<1>1. /\ job'[h] = Nothing
      /\ \A g \in Handlers \ {h} : job'[g] = job[g]
  BY <1>0 DEF Typed, Done
<1>2. /\ ~Login(h)' /\ ~Refreshing(h)'
      /\ \A g \in Handlers \ {h} : (Login(g)' <=> Login(g)) /\ (Refreshing(g)' <=> Refreshing(g))
  BY <1>1 DEF Login, Refreshing
<1>3. \A t : \A g \in Handlers : Holds(g, t)' => g # h /\ Holds(g, t)
  BY <1>1, <1>2 DEF Holds
<1>4. \A t : \A g \in Handlers : g # h => (Replaces(g, t)' <=> Replaces(g, t))
  BY <1>1, <1>2 DEF Replaces
<1>5. SeenInTime'
  BY <1>1, <1>2 DEF TInv, SeenInTime
<1>6. CASE cookie' = cookie /\ \A t : ~Replaces(h, t)
  <2>1. Undelivered' /\ OneBrowser'
    BY <1>1, <1>2, <1>3, <1>6 DEF TInv, Undelivered, OneBrowser
  <2>2. Replaced'
    BY <1>1, <1>4, <1>6 DEF TInv, Replaced
  <2> QED BY <1>5, <2>1, <2>2 DEF TInv, NoFalseAlarm
<1>7. ASSUME NEW x, cookie' = [cookie EXCEPT ![job[h].by] = x], x = Nothing \/ (x \in Tokens /\ Holds(h, x))
      PROVE  TInv'
  <2>1. \A b \in Browsers : cookie'[b] = IF b = job[h].by THEN x ELSE cookie[b]
    BY <1>0, <1>7
  <2>2. /\ x \in Tokens => token[x].state = "live"
        /\ \A b \in Browsers : x \in Tokens => cookie[b] # x
        /\ \A g \in Handlers : x \in Tokens => (Refreshing(g) => job[g].old # x) /\ (Holds(g, x) => g = h)
    BY <1>7, SessionsAssumptions DEF TInv, Undelivered
  <2>3. Undelivered'
    BY <1>1, <1>2, <1>3, <1>7, <2>1, <2>2, SessionsAssumptions DEF TInv, Undelivered
  <2>4. OneBrowser'
    BY <1>1, <1>2, <1>7, <2>1, <2>2, SessionsAssumptions DEF TInv, OneBrowser
  <2>5. Replaced'
    <3> SUFFICES ASSUME crashes = 0, NEW b \in Browsers, NEW t \in Tokens, cookie'[b] = t, token[t].state \in {"retired", "stale"}
                 PROVE  /\ token[t].state = "retired"
                        /\ \E g \in Handlers : Replaces(g, t)' /\ job'[g].by = b
      BY DEF Replaced
    <3>1. b # job[h].by /\ cookie[b] = t
      BY <1>7, <2>1, <2>2, SessionsAssumptions
    <3>2. token[t].state = "retired" /\ \E g \in Handlers : Replaces(g, t) /\ job[g].by = b
      BY <3>1 DEF TInv, Replaced
    <3> QED BY <1>1, <1>4, <3>1, <3>2
  <2> QED BY <1>5, <2>3, <2>4, <2>5 DEF TInv, NoFalseAlarm
<1> QED BY <1>6, <1>7

\* A token is stored by request h, which will hand it out.
LEMMA TimelyStore ==
  ASSUME IInv, TInv, NEW h \in Handlers, NEW s \in Sids, NEW t \in Tokens, NEW j,
         StoreRefreshToken(t, s), UNCHANGED <<cookie, alarms, crashes>>,
         job' = [job EXCEPT ![h] = j], j.token = t,
         \/ Login(h) /\ j \in LoginJob
         \/ Refreshing(h) /\ j \in RefreshJob /\ j.old = job[h].old /\ j.by = job[h].by /\ j.seen = job[h].seen /\ job[h].pc = "store"
  PROVE  TInv'
<1>0. Typed
  BY DEF IInv
<1>1. /\ job'[h] = j
      /\ \A g \in Handlers \ {h} : job'[g] = job[g]
  BY <1>0 DEF Typed
<1>2. /\ token[t].state = "unused"
      /\ token'[t] = [state |-> "live", sid |-> s]
      /\ \A u \in Tokens \ {t} : token'[u] = token[u]
  BY <1>0 DEF StoreRefreshToken, Typed
<1>3. token'[t].state = "live"
  BY <1>2
<1>4. /\ \A b \in Browsers : cookie[b] # t
      /\ \A g \in Handlers : Refreshing(g) => job[g].old # t
      /\ \A g \in Handlers : ~Holds(g, t)
  BY <1>2, SessionsAssumptions DEF IInv, SInv, CookiesIssued, RefreshesIssued, Issued, TInv, Undelivered
<1>5. \A g \in Handlers \ {h} : (Login(g)' <=> Login(g)) /\ (Refreshing(g)' <=> Refreshing(g))
  BY <1>1 DEF Login, Refreshing
<1>6. \A g \in Handlers : Refreshing(g)' => Refreshing(g) /\ job'[g].old = job[g].old /\ job'[g].by = job[g].by
  BY <1>1, <1>5, KindsApart DEF Login, Refreshing
<1>7. \A u : \A g \in Handlers : Holds(g, u)' => (g = h /\ u = t) \/ (g # h /\ Holds(g, u))
  BY <1>1, <1>5 DEF Holds
<1>8. Undelivered'
  BY <1>2, <1>3, <1>4, <1>6, <1>7 DEF TInv, Undelivered
<1>9. OneBrowser'
  BY <1>6 DEF TInv, OneBrowser
<1>10. \A u : \A g \in Handlers : Replaces(g, u) => Replaces(g, u)' /\ job'[g].by = job[g].by
  <2> TAKE u
  <2> TAKE g \in Handlers
  <2>1. CASE g = h
    <3>1. ASSUME Refreshing(h) PROVE Refreshing(h)' /\ j.old = job[h].old /\ j.by = job[h].by
      BY <1>1, <3>1, KindsApart, NothingIsNoJob DEF Refreshing, Login
    <3>2. j.token # Nothing
      BY SessionsAssumptions
    <3> QED BY <1>1, <2>1, <3>1, <3>2 DEF Replaces
  <2>2. CASE g # h
    BY <1>1, <1>5, <2>2 DEF Replaces
  <2> QED BY <2>1, <2>2
<1>11. Replaced'
  BY <1>2, <1>3, <1>10 DEF TInv, Replaced
<1>12. SeenInTime'
  <2> SUFFICES ASSUME crashes = 0, NEW g \in Handlers, Refreshing(g)'
               PROVE  /\ token'[job'[g].old].state \in {"live", "retired"}
                      /\ job'[g].pc = "read" \/ job'[g].seen \in {"live", "retired"}
    BY DEF SeenInTime
  <2>1. /\ token[job[g].old].state \in {"live", "retired"}
        /\ job[g].pc = "read" \/ job[g].seen \in {"live", "retired"}
        /\ job[g].old \in Tokens \ {t}
    BY <1>4, <1>6 DEF IInv, SInv, RefreshesIssued, Issued, TInv, SeenInTime
  <2>2. CASE g = h
    <3>1. Refreshing(h) /\ job[h].pc = "store" /\ j.seen = job[h].seen
      BY <1>6, <2>2, KindsApart DEF Login, Refreshing
    <3> QED BY <1>1, <1>2, <1>6, <2>1, <2>2, <3>1
  <2>3. CASE g # h
    BY <1>1, <1>2, <1>6, <2>1, <2>3
  <2> QED BY <2>2, <2>3
<1> QED BY <1>8, <1>9, <1>11, <1>12 DEF TInv, NoFalseAlarm

LEMMA TimelyRequest ==
  ASSUME IInv, TInv, NEW h \in Handlers, NEW b \in Browsers, Request(h, b)
  PROVE  TInv'
<1>0. Typed
  BY DEF IInv
<1>1. ASSUME NEW j, Begin(h, j), UNCHANGED <<token, cookie, alarms, crashes>>,
             j \in LoginJob \/ j \in RefreshJob => j.token = Nothing,
             j \in RefreshJob => j.pc = "read" /\ j.old \in Tokens /\ j.old = cookie[b] /\ j.by = b
      PROVE  TInv'
  <2>1. /\ job[h] = Nothing /\ job'[h] = j
        /\ \A g \in Handlers \ {h} : job'[g] = job[g]
    BY <1>0, <1>1 DEF Typed, Begin, Idle
  <2>2. /\ ~Refreshing(h) /\ (Refreshing(h)' => j \in RefreshJob)
        /\ \A g \in Handlers \ {h} : (Login(g)' <=> Login(g)) /\ (Refreshing(g)' <=> Refreshing(g))
    BY <2>1 DEF Login, Refreshing
  <2>3. \A t \in Tokens : \A g \in Handlers : Holds(g, t)' => g # h /\ Holds(g, t)
    BY <1>1, <2>1, <2>2, SessionsAssumptions DEF Holds, Login, Refreshing
  <2>4. Undelivered'
    BY <1>1, <2>1, <2>2, <2>3 DEF TInv, Undelivered
  <2>5. OneBrowser'
    BY <1>1, <2>1, <2>2 DEF TInv, OneBrowser
  <2>6. \A t : \A g \in Handlers : Replaces(g, t) => Replaces(g, t)' /\ job'[g].by = job[g].by
    BY <2>1, <2>2 DEF Replaces
  <2>7. Replaced'
    BY <1>1, <2>6 DEF TInv, Replaced
  <2>8. crashes = 0 /\ j \in RefreshJob => token[j.old].state \in {"live", "retired"}
    <3> SUFFICES ASSUME crashes = 0, j \in RefreshJob PROVE token[j.old].state \in {"live", "retired"}
      OBVIOUS
    <3>1. j.old \in Tokens /\ cookie[b] = j.old /\ Issued(j.old)
      BY <1>1, SessionsAssumptions DEF IInv, SInv, CookiesIssued
    <3>2. token[j.old].state \in {"live", "retired", "stale"}
      BY <1>0, <3>1 DEF Typed, Token, Issued
    <3> QED BY <3>1, <3>2 DEF TInv, Replaced
  <2>9. SeenInTime'
    BY <1>1, <2>1, <2>2, <2>8 DEF TInv, SeenInTime
  <2> QED BY <1>1, <2>4, <2>5, <2>7, <2>9 DEF TInv, NoFalseAlarm
<1>2. ASSUME NEW p \in 1..MaxPasswords, BeginLogin(h, b, p)
      PROVE  TInv'
  <2> DEFINE j == [kind |-> "login", by |-> b, pc |-> "compare", password |-> p, sid |-> Nothing, token |-> Nothing]
  <2>1. j.token = Nothing /\ j \in LoginJob
    BY DEF LoginJob
  <2>2. Begin(h, j) /\ UNCHANGED <<token, cookie, alarms, crashes>>
    BY <1>2 DEF BeginLogin, redis
  <2> HIDE DEF j
  <2> QED BY <1>1, <2>1, <2>2, KindsApart
<1>3. ASSUME NEW kind \in Rotating, BeginRefresh(h, b, kind)
      PROVE  TInv'
  <2> DEFINE j == [kind |-> kind, by |-> b, pc |-> "read", old |-> cookie[b], seen |-> "none", token |-> Nothing]
  <2>1. j.pc = "read" /\ j.old \in Tokens /\ j.old = cookie[b] /\ j.by = b /\ j.token = Nothing
    BY <1>0, <1>3 DEF BeginRefresh, Typed
  <2>2. Begin(h, j) /\ UNCHANGED <<token, cookie, alarms, crashes>>
    BY <1>3 DEF BeginRefresh, redis
  <2> HIDE DEF j
  <2> QED BY <1>1, <2>1, <2>2
<1>4. ASSUME NEW kind \in {"change", "reset", "close"}, NEW sid \in Sids, BeginPasswordJob(h, b, kind, sid)
      PROVE  TInv'
  <2> DEFINE j == [kind |-> kind, by |-> b, pc |-> "write", password |-> password + 1,
                   keep |-> IF kind = "change" THEN sid ELSE Nothing, found |-> {}]
  <2>1. j.kind = kind
    OBVIOUS
  <2>2. Begin(h, j) /\ UNCHANGED <<token, cookie, alarms, crashes>>
    BY <1>4 DEF BeginPasswordJob, redis
  <2> HIDE DEF j
  <2>3. j \notin LoginJob /\ j \notin RefreshJob
    BY <2>1 DEF LoginJob, RefreshJob
  <2> QED BY <1>1, <2>2, <2>3
<1> QED BY <1>2, <1>3, <1>4 DEF Request

\* A refresh or log-out goes to another step of its own.
LEMMA TimelyGoto ==
  ASSUME IInv, TInv, NEW h \in Handlers, Refreshing(h), NEW step, Goto(h, step),
         step \in {"retire", "store", "account", "revoke", "reply", "refused"},
         job[h].pc \in {"store", "revoke", "refused"} => step \in {"revoke", "refused"},
         job[h].pc # "read", UNCHANGED <<token, cookie, alarms, crashes>>
  PROVE  TInv'
<1>1. /\ \A g \in Handlers \ {h} : job'[g] = job[g]
      /\ job'[h] = [job[h] EXCEPT !.pc = step] /\ job[h] \in RefreshJob
  BY DEF IInv, Typed, Goto, Refreshing
<1>2. /\ job'[h] \in RefreshJob /\ job'[h].old = job[h].old /\ job'[h].by = job[h].by /\ job'[h].token = job[h].token
      /\ job'[h].seen = job[h].seen /\ job'[h].pc = step
  BY <1>1 DEF RefreshJob
<1>3. Refreshing(h)' /\ ~Login(h)'
  BY <1>2, KindsApart, NothingIsNoJob DEF Refreshing, Login
<1>4. crashes = 0 => job[h].seen \in {"live", "retired"}
  BY DEF TInv, SeenInTime
<1> QED BY <1>1, <1>2, <1>3, <1>4, TimelyWithin

\* A login or a job on the password goes on or ends.
LEMMA TimelyOthers ==
  ASSUME IInv, TInv, NEW h \in Handlers, ~Refreshing(h), UNCHANGED <<token, cookie, alarms, crashes>>,
         \A g \in Handlers \ {h} : job'[g] = job[g], ~Refreshing(h)',
         Login(h)' => Login(h) /\ job'[h].token = job[h].token
  PROVE  TInv'
BY TimelyWithin

LEMMA TimelyLogin ==
  ASSUME IInv, TInv, NEW h \in Handlers, ComparePassword(h) \/ CreateSession(h) \/ StoreFirstToken(h) \/ LoginReply(h)
  PROVE  TInv'
<1>0. Typed /\ Login(h) /\ ~Refreshing(h) /\ job[h] \in LoginJob /\ job[h] # Nothing
  BY JobAt, KindsApart DEF IInv, ComparePassword, CreateSession, StoreFirstToken, LoginReply, Login, Refreshing
<1>1. CASE ComparePassword(h)
  <2>1. UNCHANGED <<token, cookie, alarms, crashes>>
    BY <1>1 DEF ComparePassword, redis
  <2>2. CASE Goto(h, "create")
    <3>1. /\ \A g \in Handlers \ {h} : job'[g] = job[g]
          /\ job'[h] = [job[h] EXCEPT !.pc = "create"]
      BY <1>0, <2>2 DEF Typed, Goto
    <3>2. job'[h] \in LoginJob /\ job'[h].token = job[h].token
      BY <1>0, <3>1 DEF LoginJob
    <3> QED BY <1>0, <2>1, <3>1, <3>2, TimelyOthers, KindsApart DEF Refreshing
  <2>3. CASE Done(h)
    <3>1. /\ \A g \in Handlers \ {h} : job'[g] = job[g]
          /\ job'[h] = Nothing
      BY <1>0, <2>3 DEF Typed, Done
    <3> QED BY <1>0, <2>1, <3>1, TimelyOthers DEF Refreshing, Login
  <2> QED BY <1>1, <2>2, <2>3 DEF ComparePassword
<1>2. CASE CreateSession(h)
  <2>1. UNCHANGED <<token, cookie, alarms, crashes>>
    BY <1>2 DEF CreateSession
  <2>2. PICK sid \in Sids : job' = [job EXCEPT ![h].pc = "store", ![h].sid = sid]
    BY <1>2 DEF CreateSession
  <2>3. /\ \A g \in Handlers \ {h} : job'[g] = job[g]
        /\ job'[h] = [job[h] EXCEPT !.pc = "store", !.sid = sid]
    BY <1>0, <2>2 DEF Typed
  <2>4. job'[h] \in LoginJob /\ job'[h].token = job[h].token
    BY <1>0, <2>3 DEF LoginJob
  <2> QED BY <1>0, <2>1, <2>3, <2>4, TimelyOthers, KindsApart DEF Refreshing
<1>3. CASE StoreFirstToken(h)
  <2>1. PICK t \in Tokens : StoreRefreshToken(t, job[h].sid) /\ job' = [job EXCEPT ![h].pc = "reply", ![h].token = t]
    BY <1>3 DEF StoreFirstToken
  <2>2. job[h].sid \in Sids
    BY <1>0, <1>3, JobAt DEF StoreFirstToken, IInv, SInv, LoginsIssued, opened
  <2> DEFINE j == [job[h] EXCEPT !.pc = "reply", !.token = t]
  <2>3. job' = [job EXCEPT ![h] = j]
    BY <1>0, <2>1 DEF Typed
  <2>4. j \in LoginJob /\ j.token = t
    BY <1>0 DEF LoginJob
  <2>5. UNCHANGED <<cookie, alarms, crashes>>
    BY <1>3 DEF StoreFirstToken
  <2> HIDE DEF j
  <2> QED BY <1>0, <2>1, <2>2, <2>3, <2>4, <2>5, TimelyStore
<1>4. CASE LoginReply(h)
  <2>1. job[h].token \in Tokens /\ Holds(h, job[h].token)
    BY <1>0, <1>4, JobAt DEF LoginReply, IInv, SInv, LoginsIssued, Issued, Holds
  <2>2. Done(h) /\ UNCHANGED <<token, alarms, crashes>> /\ cookie' = [cookie EXCEPT ![job[h].by] = job[h].token]
    BY <1>4 DEF LoginReply, redis
  <2> QED BY <1>0, <2>1, <2>2, TimelyAnswer
<1> QED BY <1>1, <1>2, <1>3, <1>4

LEMMA TimelyPasswordJobs ==
  ASSUME IInv, TInv, NEW h \in Handlers, WriteAccount(h) \/ FindSessions(h) \/ RevokeSessions(h)
  PROVE  TInv'
<1>0. Typed /\ job[h] \in PasswordJob /\ ~Refreshing(h) /\ UNCHANGED <<token, cookie, alarms, crashes>>
  BY JobAt, KindsApart DEF IInv, WriteAccount, FindSessions, RevokeSessions, redis, history, Refreshing
<1>1. CASE WriteAccount(h)
  <2>1. /\ \A g \in Handlers \ {h} : job'[g] = job[g]
        /\ job'[h] = [job[h] EXCEPT !.pc = "read"]
    BY <1>0, <1>1 DEF WriteAccount, Typed, Goto
  <2>2. job'[h] \in PasswordJob
    BY <1>0, <2>1 DEF PasswordJob
  <2> QED BY <1>0, <2>1, <2>2, TimelyOthers, KindsApart DEF Refreshing, Login
<1>2. CASE FindSessions(h)
  <2>1. /\ \A g \in Handlers \ {h} : job'[g] = job[g]
        /\ job'[h] = [job[h] EXCEPT !.pc = "revoke", !.found = tracked \ {job[h].keep}]
    BY <1>0, <1>2 DEF FindSessions, Typed
  <2>2. job'[h] \in PasswordJob
    BY <1>0, <2>1 DEF PasswordJob, Typed
  <2> QED BY <1>0, <2>1, <2>2, TimelyOthers, KindsApart DEF Refreshing, Login
<1>3. CASE RevokeSessions(h)
  <2>1. /\ \A g \in Handlers \ {h} : job'[g] = job[g]
        /\ job'[h] = Nothing
    BY <1>0, <1>3 DEF RevokeSessions, Typed, Done
  <2> QED BY <1>0, <2>1, TimelyOthers DEF Refreshing, Login
<1> QED BY <1>1, <1>2, <1>3

LEMMA TimelyRead ==
  ASSUME IInv, TInv, NEW h \in Handlers, ReadToken(h)
  PROVE  TInv'
<1>0. Typed /\ Refreshing(h) /\ job[h] \in RefreshJob /\ job[h].pc = "read"
  BY JobAt DEF IInv, ReadToken, Refreshing
<1>1. /\ UNCHANGED <<token, cookie, alarms, crashes>>
      /\ \A g \in Handlers \ {h} : job'[g] = job[g]
      /\ job'[h] = [job[h] EXCEPT !.seen = token[job[h].old].state, !.pc = "active"]
  BY <1>0 DEF ReadToken, redis, Typed
<1>2. token[job[h].old].state \in {"live", "retired", "stale"}
  BY <1>0 DEF IInv, SInv, RefreshesIssued, Issued, Typed, Token
<1>3. /\ job'[h] \in RefreshJob /\ job'[h].old = job[h].old /\ job'[h].by = job[h].by /\ job'[h].token = job[h].token
      /\ job'[h].seen = token[job[h].old].state
  BY <1>0, <1>1, <1>2 DEF RefreshJob
<1>4. Refreshing(h)' /\ ~Login(h)'
  BY <1>3, KindsApart, NothingIsNoJob DEF Refreshing, Login
<1>5. crashes = 0 => token[job[h].old].state \in {"live", "retired"}
  BY <1>0 DEF TInv, SeenInTime
<1> QED BY <1>0, <1>1, <1>3, <1>4, <1>5, TimelyWithin

\* The steps of a refresh that exchange nothing.  The alarm is never raised: the
\* token was read live or within its grace window.
LEMMA TimelyGoing ==
  ASSUME IInv, TInv, NEW h \in Handlers, CheckActive(h) \/ PresentedAgain(h) \/ RecheckAccount(h) \/ RevokeSession(h)
  PROVE  TInv'
<1> USE DEF Refused, Exchanged
<1>0. Typed /\ Refreshing(h) /\ UNCHANGED <<token, cookie, crashes>>
  BY JobAt DEF IInv, CheckActive, PresentedAgain, RecheckAccount, RevokeSession, redis
<1>1. CASE CheckActive(h)
  <2>1. job[h].pc = "active" /\ alarms' = alarms /\ (Goto(h, "refused") \/ Goto(h, "retire"))
    BY <1>0, <1>1, JobAt DEF CheckActive
  <2> QED BY <1>0, <2>1, TimelyGoto
<1>2. CASE PresentedAgain(h)
  <2>1. job[h].pc = "active" /\ job[h].seen # "live"
    BY <1>0, <1>2, JobAt DEF PresentedAgain
  <2>2. CASE job[h].seen = "retired"
    <3>1. alarms' = alarms /\ (Goto(h, "account") \/ Goto(h, "revoke"))
      BY <1>2, <2>2 DEF PresentedAgain
    <3> QED BY <1>0, <2>1, <3>1, TimelyGoto
  <2>3. CASE job[h].seen # "retired"
    <3>1. crashes # 0 /\ crashes' # 0
      BY <1>0, <2>1, <2>3 DEF TInv, SeenInTime
    <3>2. Goto(h, "refused")
      BY <1>2, <2>3 DEF PresentedAgain
    <3>3. /\ \A g \in Handlers \ {h} : job'[g] = job[g]
          /\ job'[h] = [job[h] EXCEPT !.pc = "refused"] /\ job[h] \in RefreshJob
      BY <1>0, <3>2 DEF Typed, Goto, Refreshing
    <3>4. /\ job'[h] \in RefreshJob /\ job'[h].old = job[h].old /\ job'[h].by = job[h].by /\ job'[h].token = job[h].token
      BY <3>3 DEF RefreshJob
    <3>5. /\ ~Login(h)'
          /\ \A g \in Handlers \ {h} : (Login(g)' <=> Login(g)) /\ (Refreshing(g)' <=> Refreshing(g))
      BY <3>3, <3>4, KindsApart DEF Login, Refreshing
    <3>6. \A t : \A g \in Handlers : Holds(g, t)' => Holds(g, t)
      BY <1>0, <3>3, <3>4, <3>5 DEF Holds
    <3>7. \A g \in Handlers : Refreshing(g)' => Refreshing(g) /\ job'[g].old = job[g].old /\ job'[g].by = job[g].by
      BY <1>0, <3>3, <3>4, <3>5
    <3>8. Undelivered' /\ OneBrowser'
      BY <1>0, <3>6, <3>7 DEF TInv, Undelivered, OneBrowser
    <3> QED BY <1>0, <3>1, <3>8 DEF TInv, Replaced, SeenInTime, NoFalseAlarm
  <2> QED BY <2>2, <2>3
<1>3. CASE RecheckAccount(h)
  <2>1. job[h].pc = "account" /\ alarms' = alarms /\ (Goto(h, "reply") \/ Goto(h, "revoke"))
    BY <1>0, <1>3, JobAt DEF RecheckAccount
  <2> QED BY <1>0, <2>1, TimelyGoto
<1>4. CASE RevokeSession(h)
  <2>1. job[h].pc = "revoke" /\ alarms' = alarms /\ Goto(h, "refused")
    BY <1>0, <1>4, JobAt DEF RevokeSession
  <2> QED BY <1>0, <2>1, TimelyGoto
<1> QED BY <1>1, <1>2, <1>3, <1>4

\* The browser that presented the token is the one that has it: it waits for
\* the answer of the request that retires it.
LEMMA TimelyRetire ==
  ASSUME IInv, TInv, NEW h \in Handlers, RetireToken(h)
  PROVE  TInv'
<1>0. Typed /\ Refreshing(h) /\ job[h] \in RefreshJob /\ job[h].pc = "retire" /\ UNCHANGED <<cookie, alarms, crashes>>
  BY JobAt DEF IInv, RetireToken, Refreshing
<1>1. CASE token[job[h].old].state # "live"
  <2>1. UNCHANGED token /\ \E step \in {"account", "revoke"} : Goto(h, step)
    BY <1>1 DEF RetireToken, Exchanged
  <2> QED BY <1>0, <2>1, TimelyGoto
<1>2. CASE token[job[h].old].state = "live"
  <2>1. PICK old \in Tokens : old = job[h].old
    BY <1>0 DEF IInv, SInv, RefreshesIssued, Issued
  <2>2. token' = [token EXCEPT ![old].state = "retired"] /\ Goto(h, "store")
    BY <1>2, <2>1 DEF RetireToken
  <2>3. token'[old].state = "retired" /\ \A u \in Tokens \ {old} : token'[u] = token[u]
    BY <1>0, <2>2 DEF Typed, Token
  <2>4. /\ \A g \in Handlers \ {h} : job'[g] = job[g]
        /\ job'[h] = [job[h] EXCEPT !.pc = "store"]
    BY <1>0, <2>2 DEF Goto, Typed
  <2>5. /\ job'[h] \in RefreshJob /\ job'[h].old = old /\ job'[h].by = job[h].by /\ job'[h].token = job[h].token
        /\ job'[h].pc = "store" /\ job'[h].seen = job[h].seen
    BY <1>0, <2>1, <2>4 DEF RefreshJob
  <2>6. /\ ~Login(h)' /\ Refreshing(h)'
        /\ \A g \in Handlers \ {h} : (Login(g)' <=> Login(g)) /\ (Refreshing(g)' <=> Refreshing(g))
    BY <2>4, <2>5, KindsApart, NothingIsNoJob DEF Login, Refreshing
  <2>7. \A t : \A g \in Handlers : Holds(g, t)' => Holds(g, t)
    BY <1>0, <2>4, <2>5, <2>6 DEF Holds
  <2>8. \A g \in Handlers : Refreshing(g)' => Refreshing(g) /\ job'[g].old = job[g].old /\ job'[g].by = job[g].by /\ job'[g].seen = job[g].seen
    BY <1>0, <2>1, <2>4, <2>5, <2>6
  <2>9. \A t \in Tokens : \A g \in Handlers : Holds(g, t) => t # old
    BY <1>0, <2>1 DEF TInv, Undelivered
  <2>10. Undelivered'
    BY <1>0, <2>3, <2>7, <2>8, <2>9 DEF TInv, Undelivered
  <2>11. OneBrowser'
    BY <1>0, <2>8 DEF TInv, OneBrowser
  <2>12. Replaces(h, old)'
    BY <2>5, <2>6 DEF Replaces
  <2>13. \A t : \A g \in Handlers \ {h} : Replaces(g, t) => Replaces(g, t)' /\ job'[g].by = job[g].by
    BY <2>4, <2>6 DEF Replaces
  <2>14. \A b \in Browsers : cookie[b] = old => job[h].by = b
    BY <1>0, <2>1 DEF TInv, OneBrowser
  <2>15. Replaced'
    <3> SUFFICES ASSUME crashes = 0, NEW b \in Browsers, NEW t \in Tokens, cookie[b] = t, token'[t].state \in {"retired", "stale"}
                 PROVE  /\ token'[t].state = "retired"
                        /\ \E g \in Handlers : Replaces(g, t)' /\ job'[g].by = b
      BY <1>0 DEF Replaced
    <3>1. CASE t = old
      BY <2>3, <2>5, <2>12, <2>14, <3>1
    <3>2. CASE t # old
      <4>1. ~Replaces(h, t)
        BY <2>1, <3>2 DEF Replaces
      <4> QED BY <2>3, <2>13, <3>2, <4>1 DEF TInv, Replaced
    <3> QED BY <3>1, <3>2
  <2>16. SeenInTime'
    <3> SUFFICES ASSUME crashes = 0, NEW g \in Handlers, Refreshing(g)'
                 PROVE  /\ token'[job'[g].old].state \in {"live", "retired"}
                        /\ job'[g].pc = "read" \/ job'[g].seen \in {"live", "retired"}
      BY <1>0 DEF SeenInTime
    <3>1. /\ job[g].old \in Tokens /\ token[job[g].old].state \in {"live", "retired"}
          /\ job[g].pc = "read" \/ job[g].seen \in {"live", "retired"}
      BY <2>8 DEF IInv, SInv, RefreshesIssued, Issued, TInv, SeenInTime
    <3>2. token'[job[g].old].state \in {"live", "retired"}
      BY <2>3, <3>1
    <3>3. job'[g].pc = "read" \/ job'[g].seen \in {"live", "retired"}
      BY <1>0, <2>4, <2>5, <3>1
    <3> QED BY <2>8, <3>2, <3>3
  <2> QED BY <1>0, <2>10, <2>11, <2>15, <2>16 DEF TInv, NoFalseAlarm
<1> QED BY <1>1, <1>2

LEMMA TimelyStoreNext ==
  ASSUME IInv, TInv, NEW h \in Handlers, StoreNextToken(h)
  PROVE  TInv'
<1>0. Typed /\ Refreshing(h) /\ job[h] \in RefreshJob /\ job[h].pc = "store" /\ UNCHANGED <<cookie, alarms, crashes>>
  BY JobAt DEF IInv, StoreNextToken, Refreshing
<1>1. Sid(h) \in Sids
  BY <1>0 DEF IInv, SInv, RefreshesIssued, IssuedForOpened, opened, Sid, Issued
<1> DEFINE step == IF job[h].kind = "refresh" THEN "account" ELSE "revoke"
<1>2. PICK t \in Tokens : StoreRefreshToken(t, Sid(h)) /\ job' = [job EXCEPT ![h].pc = step, ![h].token = t]
  BY DEF StoreNextToken
<1>3. step \in {"account", "revoke"}
  OBVIOUS
<1> HIDE DEF step
<1> DEFINE j == [job[h] EXCEPT !.pc = step, !.token = t]
<1>4. job' = [job EXCEPT ![h] = j]
  BY <1>0, <1>2 DEF Typed
<1>5. j \in RefreshJob /\ j.token = t /\ j.old = job[h].old /\ j.by = job[h].by /\ j.seen = job[h].seen
  BY <1>0, <1>3 DEF RefreshJob
<1> HIDE DEF j
<1> QED BY <1>0, <1>1, <1>2, <1>4, <1>5, TimelyStore

LEMMA TimelyReply ==
  ASSUME IInv, TInv, NEW h \in Handlers, RefreshReply(h)
  PROVE  TInv'
<1>0. /\ Typed /\ Refreshing(h) /\ job[h] # Nothing /\ job[h] \in RefreshJob
      /\ Done(h) /\ UNCHANGED <<token, alarms, crashes>>
  BY JobAt DEF IInv, RefreshReply, Refreshing, redis
<1>1. CASE At(h, {"refresh"}, "reply") /\ job[h].token = Nothing
  <2>1. cookie' = cookie
    BY <1>1 DEF RefreshReply, At
  <2>2. \A t : ~Replaces(h, t)
    BY <1>1 DEF Replaces, At
  <2> QED BY <1>0, <2>1, <2>2, TimelyAnswer
<1>2. CASE At(h, {"refresh"}, "reply") /\ job[h].token # Nothing
  <2>1. cookie' = [cookie EXCEPT ![job[h].by] = job[h].token]
    BY <1>2 DEF RefreshReply, At
  <2>2. job[h].token \in Tokens /\ Holds(h, job[h].token)
    BY <1>0, <1>2 DEF RefreshJob, Holds
  <2> QED BY <1>0, <2>1, <2>2, TimelyAnswer
<1>3. CASE At(h, Rotating, "refused")
  <2>1. cookie' = [cookie EXCEPT ![job[h].by] = Nothing]
    BY <1>3 DEF RefreshReply, At
  <2> QED BY <1>0, <2>1, TimelyAnswer
<1> QED BY <1>1, <1>2, <1>3 DEF RefreshReply

LEMMA TimelyCrash ==
  ASSUME IInv, TInv, NEW h \in Handlers, Crash(h)
  PROVE  TInv'
<1>1. /\ \A g \in Handlers \ {h} : job'[g] = job[g]
      /\ job'[h] = Nothing /\ UNCHANGED <<token, cookie>> /\ crashes' = crashes + 1
  BY DEF IInv, Typed, Crash, Done, redis
<1>2. crashes' \in Nat /\ crashes' # 0 /\ crashes' > 0
  BY <1>1 DEF TInv
<1>3. \A g \in Handlers : /\ Refreshing(g)' => g # h /\ Refreshing(g)
                          /\ Login(g)' => g # h /\ Login(g)
  BY <1>1 DEF Refreshing, Login
<1>4. \A t : \A g \in Handlers : Holds(g, t)' => Holds(g, t)
  BY <1>1, <1>3 DEF Holds
<1>5. Undelivered' /\ OneBrowser'
  BY <1>1, <1>3, <1>4 DEF TInv, Undelivered, OneBrowser
<1> QED BY <1>2, <1>5 DEF TInv, Replaced, SeenInTime, NoFalseAlarm

\* A token goes stale while no request presents it; so no browser has it.
LEMMA TimelyGraceEnds ==
  ASSUME IInv, TInv, NEW t \in Tokens, GraceEnds(t)
  PROVE  TInv'
<1>0. Typed /\ UNCHANGED <<cookie, alarms, job, crashes>>
  BY DEF IInv, GraceEnds
<1>1. /\ token[t].state = "retired"
      /\ \A u \in Tokens \ {t} : token'[u] = token[u]
  BY <1>0 DEF GraceEnds, Typed
<1>2. \A h \in Handlers : Refreshing(h) => job[h].old # t
  BY DEF GraceEnds, Refreshing, RefreshJob, Rotating
<1>3. \A h \in Handlers : (Login(h)' <=> Login(h)) /\ (Refreshing(h)' <=> Refreshing(h))
  BY <1>0 DEF Login, Refreshing
<1>4. \A u : \A h \in Handlers : (Holds(h, u)' <=> Holds(h, u)) /\ (Replaces(h, u)' <=> Replaces(h, u))
  BY <1>0, <1>3 DEF Holds, Replaces
<1>5. Undelivered' /\ OneBrowser'
  BY <1>0, <1>1, <1>3, <1>4 DEF TInv, Undelivered, OneBrowser
<1>6. crashes = 0 => \A b \in Browsers : cookie[b] # t
  BY <1>1, <1>2 DEF TInv, Replaced, Replaces
<1>7. Replaced'
  BY <1>0, <1>1, <1>4, <1>6 DEF TInv, Replaced
<1>8. SeenInTime'
  BY <1>0, <1>1, <1>2, <1>3 DEF IInv, SInv, RefreshesIssued, Issued, TInv, SeenInTime
<1> QED BY <1>0, <1>5, <1>7, <1>8 DEF TInv, NoFalseAlarm

LEMMA TimelyUnchanged ==
  ASSUME TInv, UNCHANGED <<token, cookie, alarms, job, crashes>>
  PROVE  TInv'
<1>1. \A h \in Handlers : (Login(h)' <=> Login(h)) /\ (Refreshing(h)' <=> Refreshing(h))
  BY DEF Login, Refreshing
<1>2. \A u : \A h \in Handlers : (Holds(h, u)' <=> Holds(h, u)) /\ (Replaces(h, u)' <=> Replaces(h, u))
  BY <1>1 DEF Holds, Replaces
<1> QED BY <1>1, <1>2 DEF TInv, Undelivered, OneBrowser, Replaced, SeenInTime, NoFalseAlarm

LEMMA TimelyStep == IInv /\ TInv /\ [Next]_vars => TInv'
<1> SUFFICES ASSUME IInv, TInv, [Next]_vars PROVE TInv'
  OBVIOUS
<1>1. ASSUME NEW h \in Handlers, HandlerStep(h) PROVE TInv'
  BY <1>1, TimelyLogin, TimelyRead, TimelyGoing, TimelyRetire, TimelyStoreNext, TimelyReply, TimelyPasswordJobs, TimelyCrash
     DEF HandlerStep
<1>2. ASSUME NEW h \in Handlers, NEW b \in Browsers, Request(h, b) PROVE TInv'
  BY <1>2, TimelyRequest
<1>3. ASSUME NEW t \in Tokens, GraceEnds(t) PROVE TInv'
  BY <1>3, TimelyGraceEnds
<1>4. CASE Suspend
  BY <1>4, TimelyUnchanged DEF Suspend, redis
<1>5. ASSUME NEW sid \in Sids, SessionExpires(sid) PROVE TInv'
  BY <1>5, TimelyUnchanged DEF SessionExpires
<1>6. CASE UNCHANGED vars
  BY <1>6, TimelyUnchanged DEF vars
<1> QED BY <1>1, <1>2, <1>3, <1>4, <1>5, <1>6 DEF Next

\* Reuse detection (sessionStore.ts:97-104) ends no session of a browser whose
\* tabs merely overlap, however many: unless an answer was lost, a token goes
\* stale only once the answer that replaces it has arrived in the one browser
\* that has it.
THEOREM FalseAlarmsNeedALoss == Spec => []NoFalseAlarm
<1>1. TInv => NoFalseAlarm
  BY DEF TInv
<1> QED BY <1>1, InitHolds, StepHolds, TimelyInit, TimelyStep, PTL DEF Spec

-----------------------------------------------------------------------------
(* Signing out other devices. *)

\* Password job h will end session sid.
Ending(h, sid) ==
  /\ job[h] \in PasswordJob
  /\ \/ job[h].pc = "read" /\ sid # job[h].keep
     \/ job[h].pc = "revoke" /\ sid \in job[h].found

OnlyChangesKeep == \A h \in Handlers : job[h] \in PasswordJob /\ job[h].kind # "change" => job[h].keep = Nothing

\* The job that is about to delete the set found every session in it.
ClearingFound ==
  \A h \in Handlers : job[h] \in PasswordJob /\ job[h].kind # "change" /\ job[h].pc = "revoke" =>
    active \subseteq job[h].found \union missed

\* A session of an earlier password is about to be ended.
OldEnding ==
  crashes = 0 => \A sid \in active \ (late \union missed) :
    vouched[sid] # password \/ closed => \E h \in Handlers : Ending(h, sid)

AInv == OnlyChangesKeep /\ ClearingFound /\ TrackedOrMissed /\ OldEnding

LEMMA AccountedInit == Init => AInv
BY NothingIsNoJob DEF Init, AInv, OnlyChangesKeep, ClearingFound, TrackedOrMissed, OldEnding

\* A step that opens no session and does no part of a password job but begin it.
LEMMA AccountedAside ==
  ASSUME AInv, active' \subseteq active, active' \subseteq tracked' \union missed,
         UNCHANGED <<password, closed, vouched, late, missed>>, crashes' = 0 => crashes = 0,
         \A g \in Handlers : job[g] \in PasswordJob => job'[g] = job[g] \/ crashes' # 0,
         \A g \in Handlers : job'[g] \in PasswordJob =>
            job'[g] = job[g] \/ (job'[g].pc = "write" /\ (job'[g].kind # "change" => job'[g].keep = Nothing))
  PROVE  AInv'
<1>1. OnlyChangesKeep'
  BY DEF AInv, OnlyChangesKeep
<1>2. ClearingFound'
  BY DEF AInv, ClearingFound
<1>3. TrackedOrMissed'
  BY DEF TrackedOrMissed
<1>4. \A g \in Handlers, sid \in Sids \union active : crashes' = 0 /\ Ending(g, sid) => Ending(g, sid)'
  BY DEF Ending
<1>5. OldEnding'
  BY <1>4 DEF AInv, OldEnding
<1> QED BY <1>1, <1>2, <1>3, <1>5 DEF AInv

\* The same for a step of one request, which is no password job.
LEMMA AccountedOne ==
  ASSUME IInv, AInv, NEW h \in Handlers, \A g \in Handlers \ {h} : job'[g] = job[g],
         job[h] \notin PasswordJob, job'[h] \notin PasswordJob,
         active' \subseteq active, active' \subseteq tracked' \union missed,
         UNCHANGED <<password, closed, vouched, late, missed, crashes>>
  PROVE  AInv'
<1>1. \A g \in Handlers : g # h => job'[g] = job[g]
  OBVIOUS
<1> QED BY <1>1, AccountedAside

\* What a step within a login or refresh does to its job.
LEMMA StaysAside ==
  ASSUME Typed, NEW h \in Handlers, job[h] \in LoginJob \union RefreshJob
  PROVE  /\ \A step : Goto(h, step) => job'[h] \notin PasswordJob /\ \A g \in Handlers \ {h} : job'[g] = job[g]
         /\ Done(h) => job'[h] \notin PasswordJob /\ \A g \in Handlers \ {h} : job'[g] = job[g]
<1>1. job[h].kind \notin {"change", "reset", "close"}
  BY DEF LoginJob, RefreshJob
<1>2. ASSUME NEW step PROVE [job[h] EXCEPT !.pc = step] \notin PasswordJob
  <2>1. [job[h] EXCEPT !.pc = step].kind = job[h].kind
    BY DEF LoginJob, RefreshJob
  <2> QED BY <1>1, <2>1 DEF PasswordJob
<1>3. ASSUME NEW step, Goto(h, step) PROVE job'[h] = [job[h] EXCEPT !.pc = step] /\ \A g \in Handlers \ {h} : job'[g] = job[g]
  BY <1>3 DEF Typed, Goto
<1>4. ASSUME Done(h) PROVE job'[h] = Nothing /\ \A g \in Handlers \ {h} : job'[g] = job[g]
  BY <1>4 DEF Typed, Done
<1> QED BY <1>2, <1>3, <1>4, NothingIsNoJob

LEMMA AccountedLogin ==
  ASSUME IInv, AInv, NEW h \in Handlers, ComparePassword(h) \/ StoreFirstToken(h) \/ LoginReply(h)
  PROVE  AInv'
<1>0. Typed /\ job[h] \in LoginJob /\ job[h] \notin PasswordJob /\ active \subseteq tracked \union missed
  BY JobAt, KindsApart DEF IInv, ComparePassword, StoreFirstToken, LoginReply, Login, AInv, TrackedOrMissed
<1>1. UNCHANGED <<active, tracked, password, closed, vouched, late, missed, crashes>>
  BY DEF ComparePassword, StoreFirstToken, LoginReply, account, redis, history
<1>2. job'[h] \notin PasswordJob /\ \A g \in Handlers \ {h} : job'[g] = job[g]
  <2>1. CASE ComparePassword(h) \/ LoginReply(h)
    BY <1>0, <2>1, StaysAside DEF ComparePassword, LoginReply
  <2>2. CASE StoreFirstToken(h)
    <3>1. PICK t \in Tokens : job' = [job EXCEPT ![h].pc = "reply", ![h].token = t]
      BY <2>2 DEF StoreFirstToken
    <3>2. /\ job'[h] = [job[h] EXCEPT !.pc = "reply", !.token = t]
          /\ \A g \in Handlers \ {h} : job'[g] = job[g]
      BY <1>0, <3>1 DEF Typed
    <3>3. job'[h] \in LoginJob
      BY <1>0, <3>2 DEF LoginJob
    <3> QED BY <3>2, <3>3, KindsApart
  <2> QED BY <2>1, <2>2
<1> QED BY <1>0, <1>1, <1>2, AccountedOne

LEMMA AccountedRefresh ==
  ASSUME IInv, AInv, NEW h \in Handlers,
         \/ ReadToken(h) \/ CheckActive(h) \/ PresentedAgain(h) \/ RetireToken(h) \/ StoreNextToken(h)
         \/ RecheckAccount(h) \/ RevokeSession(h) \/ RefreshReply(h)
  PROVE  AInv'
<1>0. Typed /\ job[h] \in RefreshJob /\ job[h] \notin PasswordJob /\ active \subseteq tracked \union missed
  BY JobAt, KindsApart DEF IInv, ReadToken, CheckActive, PresentedAgain, RetireToken, StoreNextToken, RecheckAccount,
     RevokeSession, RefreshReply, Refreshing, AInv, TrackedOrMissed
<1>1. /\ UNCHANGED <<password, closed, vouched, late, missed, crashes>>
      /\ \/ UNCHANGED <<active, tracked>>
         \/ active' = active \ {Sid(h)} /\ tracked' = tracked \ {Sid(h)}
  BY DEF ReadToken, CheckActive, PresentedAgain, RetireToken, StoreNextToken, Extend, RecheckAccount,
     RevokeSession, RefreshReply, account, redis, history
<1>2. job'[h] \notin PasswordJob /\ \A g \in Handlers \ {h} : job'[g] = job[g]
  <2>1. CASE CheckActive(h) \/ PresentedAgain(h) \/ RetireToken(h) \/ RecheckAccount(h) \/ RevokeSession(h) \/ RefreshReply(h)
    <3>1. Done(h) \/ \E step : Goto(h, step)
      BY <2>1 DEF CheckActive, PresentedAgain, RetireToken, RecheckAccount, RevokeSession, RefreshReply, Refused, Exchanged
    <3> QED BY <1>0, <3>1, StaysAside
  <2>2. ASSUME NEW j, job' = [job EXCEPT ![h] = j], j.kind = job[h].kind
        PROVE  job'[h] \notin PasswordJob /\ \A g \in Handlers \ {h} : job'[g] = job[g]
    <3>1. /\ job'[h] = j
          /\ \A g \in Handlers \ {h} : job'[g] = job[g]
      BY <1>0, <2>2 DEF Typed
    <3>2. j.kind \notin {"change", "reset", "close"}
      BY <1>0, <2>2 DEF RefreshJob
    <3> QED BY <3>1, <3>2 DEF PasswordJob
  <2>3. CASE ReadToken(h)
    <3> DEFINE j == [job[h] EXCEPT !.seen = token[job[h].old].state, !.pc = "active"]
    <3>1. job' = [job EXCEPT ![h] = j]
      BY <1>0, <2>3 DEF ReadToken, Typed
    <3>2. j.kind = job[h].kind
      BY <1>0 DEF RefreshJob
    <3> HIDE DEF j
    <3> QED BY <2>2, <3>1, <3>2
  <2>4. CASE StoreNextToken(h)
    <3> DEFINE step == IF job[h].kind = "refresh" THEN "account" ELSE "revoke"
    <3>1. PICK t \in Tokens : job' = [job EXCEPT ![h].pc = step, ![h].token = t]
      BY <2>4 DEF StoreNextToken
    <3> HIDE DEF step
    <3> DEFINE j == [job[h] EXCEPT !.pc = step, !.token = t]
    <3>2. job' = [job EXCEPT ![h] = j]
      BY <1>0, <3>1 DEF Typed
    <3>3. j.kind = job[h].kind
      BY <1>0 DEF RefreshJob
    <3> HIDE DEF j
    <3> QED BY <2>2, <3>2, <3>3
  <2> QED BY <2>1, <2>3, <2>4
<1> QED BY <1>0, <1>1, <1>2, AccountedOne

LEMMA AccountedRequest ==
  ASSUME IInv, AInv, NEW h \in Handlers, NEW b \in Browsers, Request(h, b)
  PROVE  AInv'
<1>0. Typed /\ active \subseteq tracked \union missed
  BY DEF IInv, AInv, TrackedOrMissed
<1>1. ASSUME NEW j, Begin(h, j), UNCHANGED <<account, redis, crashes>>,
             j \in PasswordJob => j.pc = "write" /\ (j.kind # "change" => j.keep = Nothing)
      PROVE  AInv'
  <2>1. /\ job[h] = Nothing /\ job'[h] = j
        /\ \A g \in Handlers : g # h => job'[g] = job[g]
    BY <1>0, <1>1 DEF Typed, Begin, Idle
  <2>2. UNCHANGED <<active, tracked, password, closed, vouched, late, missed, crashes>>
    BY <1>1 DEF account, redis
  <2> QED BY <1>0, <1>1, <2>1, <2>2, AccountedAside, NothingIsNoJob
<1>2. ASSUME NEW p \in 1..MaxPasswords, BeginLogin(h, b, p) PROVE AInv'
  <2> DEFINE j == [kind |-> "login", by |-> b, pc |-> "compare", password |-> p, sid |-> Nothing, token |-> Nothing]
  <2>1. j \notin PasswordJob
    BY DEF PasswordJob
  <2>2. Begin(h, j) /\ UNCHANGED <<account, redis, crashes>>
    BY <1>2 DEF BeginLogin
  <2> HIDE DEF j
  <2> QED BY <1>1, <2>1, <2>2
<1>3. ASSUME NEW kind \in Rotating, BeginRefresh(h, b, kind) PROVE AInv'
  <2> DEFINE j == [kind |-> kind, by |-> b, pc |-> "read", old |-> cookie[b], seen |-> "none", token |-> Nothing]
  <2>1. j \notin PasswordJob
    BY DEF PasswordJob, Rotating
  <2>2. Begin(h, j) /\ UNCHANGED <<account, redis, crashes>>
    BY <1>3 DEF BeginRefresh
  <2> HIDE DEF j
  <2> QED BY <1>1, <2>1, <2>2
<1>4. ASSUME NEW kind \in {"change", "reset", "close"}, NEW sid \in Sids, BeginPasswordJob(h, b, kind, sid) PROVE AInv'
  <2> DEFINE j == [kind |-> kind, by |-> b, pc |-> "write", password |-> password + 1,
                   keep |-> IF kind = "change" THEN sid ELSE Nothing, found |-> {}]
  <2>1. j.pc = "write" /\ (j.kind # "change" => j.keep = Nothing)
    OBVIOUS
  <2>2. Begin(h, j) /\ UNCHANGED <<account, redis, crashes>>
    BY <1>4 DEF BeginPasswordJob
  <2> HIDE DEF j
  <2> QED BY <1>1, <2>1, <2>2
<1> QED BY <1>2, <1>3, <1>4 DEF Request

LEMMA AccountedCrash ==
  ASSUME IInv, TInv, AInv, NEW h \in Handlers, Crash(h)
  PROVE  AInv'
<1>1. /\ \A g \in Handlers : g # h => job'[g] = job[g]
      /\ job'[h] = Nothing
      /\ UNCHANGED <<active, tracked, password, closed, vouched, late, missed>> /\ crashes' = crashes + 1
  BY DEF IInv, Typed, Crash, Done, account, redis
<1>2. crashes' # 0
  BY <1>1 DEF TInv
<1>3. active \subseteq tracked \union missed
  BY DEF AInv, TrackedOrMissed
<1> QED BY <1>1, <1>2, <1>3, AccountedAside, NothingIsNoJob

\* A session opened while a log-out-everywhere acts is one it missed; one opened
\* with a password replaced meanwhile is late.
LEMMA AccountedCreate ==
  ASSUME IInv, AInv, NEW h \in Handlers, CreateSession(h)
  PROVE  AInv'
<1>0. Typed /\ job[h] \in LoginJob /\ UNCHANGED <<password, closed, crashes>>
  BY JobAt DEF IInv, CreateSession, Login, account
<1>1. PICK sid \in Sids \ opened :
       /\ active' = active \union {sid}
       /\ tracked' = tracked \union {sid}
       /\ vouched' = [vouched EXCEPT ![sid] = job[h].password]
       /\ late' = IF job[h].password = password /\ ~closed THEN late ELSE late \union {sid}
       /\ missed' = IF ClearingSet THEN missed \union {sid} ELSE missed
       /\ job' = [job EXCEPT ![h].pc = "store", ![h].sid = sid]
  BY DEF CreateSession
<1>2. /\ \A g \in Handlers : g # h => job'[g] = job[g]
      /\ job'[h] = [job[h] EXCEPT !.pc = "store", !.sid = sid]
  BY <1>0, <1>1 DEF Typed
<1>3. job'[h] \notin PasswordJob /\ job[h] \notin PasswordJob
  <2>1. sid \in Sids \union {Nothing}
    OBVIOUS
  <2>2. job'[h] \in LoginJob
    BY <1>0, <1>2, <2>1 DEF LoginJob
  <2> QED BY <1>0, <2>2, KindsApart
<1>4. OnlyChangesKeep'
  BY <1>2, <1>3 DEF AInv, OnlyChangesKeep
<1>5. ClearingFound'
  <2> SUFFICES ASSUME NEW g \in Handlers, job[g] \in PasswordJob, job[g].kind # "change", job[g].pc = "revoke"
               PROVE  active' \subseteq job[g].found \union missed'
    BY <1>2, <1>3 DEF ClearingFound
  <2>1. ClearingSet
    <3>1. job[g] # Nothing /\ job[g].kind \in {"reset", "close"}
      BY NothingIsNoJob DEF PasswordJob
    <3> QED BY <3>1 DEF ClearingSet, At
  <2>2. missed' = missed \union {sid}
    BY <1>1, <2>1
  <2> QED BY <1>1, <2>2 DEF AInv, ClearingFound
<1>6. missed \subseteq missed' /\ late \subseteq late'
  BY <1>1
<1>7. TrackedOrMissed'
  BY <1>1, <1>6 DEF AInv, TrackedOrMissed
<1>8. \A g \in Handlers : \A s : Ending(g, s) => Ending(g, s)'
  BY <1>2, <1>3 DEF Ending
<1>9. OldEnding'
  <2> SUFFICES ASSUME crashes = 0, NEW s \in active', s \notin late', s \notin missed', vouched'[s] # password \/ closed
               PROVE  \E g \in Handlers : Ending(g, s)'
    BY <1>0 DEF OldEnding
  <2>1. s # sid
    <3> SUFFICES ASSUME s = sid PROVE FALSE
      OBVIOUS
    <3>1. job[h].password = password /\ ~closed
      BY <1>1
    <3>2. vouched'[sid] = job[h].password
      BY <1>0, <1>1 DEF Typed
    <3> QED BY <3>1, <3>2
  <2>2. s \in active /\ s \notin late /\ s \notin missed /\ vouched'[s] = vouched[s]
    BY <1>0, <1>1, <1>6, <2>1 DEF Typed
  <2> QED BY <1>8, <2>2 DEF AInv, OldEnding
<1> QED BY <1>4, <1>5, <1>7, <1>9 DEF AInv

\* The new password makes every other session an earlier password's; this job
\* is the one that will end them.
LEMMA AccountedWrite ==
  ASSUME IInv, AInv, NEW h \in Handlers, WriteAccount(h)
  PROVE  AInv'
<1>0. /\ Typed /\ job[h] \in PasswordJob /\ job[h].pc = "write"
      /\ UNCHANGED <<active, tracked, late, missed, crashes>> /\ Goto(h, "read")
  BY JobAt DEF IInv, WriteAccount
<1>1. /\ \A g \in Handlers : g # h => job'[g] = job[g]
      /\ job'[h] = [job[h] EXCEPT !.pc = "read"]
  BY <1>0 DEF Typed, Goto
<1>2. /\ job'[h] \in PasswordJob /\ job'[h].pc = "read" /\ job'[h].keep = job[h].keep /\ job'[h].kind = job[h].kind
      /\ job[h].kind \in {"change", "reset", "close"} /\ job[h].keep \in Sids \union {Nothing}
  BY <1>0, <1>1 DEF PasswordJob
<1>3. OnlyChangesKeep' /\ ClearingFound' /\ TrackedOrMissed'
  BY <1>0, <1>1, <1>2 DEF AInv, OnlyChangesKeep, ClearingFound, TrackedOrMissed
<1>4. \A s : s # job[h].keep => Ending(h, s)'
  BY <1>2 DEF Ending
<1>5. \A s : \A g \in Handlers : Ending(g, s) => Ending(g, s)'
  BY <1>0, <1>1 DEF Ending
<1>6. ASSUME job[h].keep \in Sids
      PROVE  password' = job[h].password /\ closed' = closed /\ vouched'[job[h].keep] = job[h].password
  <2>1. job[h].keep # Nothing /\ job[h].kind = "change"
    BY <1>0, <1>6, SessionsAssumptions DEF AInv, OnlyChangesKeep
  <2> QED BY <1>0, <1>6, <2>1 DEF WriteAccount, Typed
<1>7. OldEnding'
  <2> SUFFICES ASSUME crashes = 0, NEW s \in active, s \in Sids, s \notin late, s \notin missed, vouched'[s] # password' \/ closed'
               PROVE  \E g \in Handlers : Ending(g, s)'
    <3>1. \A s \in active : s \notin missed => s \in Sids
      BY <1>0 DEF AInv, TrackedOrMissed, Typed
    <3> QED BY <1>0, <3>1 DEF OldEnding
  <2>1. CASE s # job[h].keep
    BY <1>4, <2>1
  <2>2. CASE s = job[h].keep
    <3>1. closed
      BY <1>6, <2>2
    <3> QED BY <1>5, <3>1 DEF AInv, OldEnding
  <2> QED BY <2>1, <2>2
<1> QED BY <1>3, <1>7 DEF AInv

LEMMA AccountedFind ==
  ASSUME IInv, AInv, NEW h \in Handlers, FindSessions(h)
  PROVE  AInv'
<1>0. /\ Typed /\ job[h] \in PasswordJob /\ job[h].pc = "read"
      /\ UNCHANGED <<active, tracked, password, closed, vouched, late, missed, crashes>>
  BY JobAt DEF IInv, FindSessions, account, redis
<1>1. /\ \A g \in Handlers : g # h => job'[g] = job[g]
      /\ job'[h] = [job[h] EXCEPT !.pc = "revoke", !.found = tracked \ {job[h].keep}]
  BY <1>0 DEF FindSessions, Typed
<1>2. /\ job'[h] \in PasswordJob /\ job'[h].pc = "revoke" /\ job'[h].keep = job[h].keep /\ job'[h].kind = job[h].kind
      /\ job'[h].found = tracked \ {job[h].keep}
  BY <1>0, <1>1 DEF PasswordJob, Typed
<1>3. OnlyChangesKeep'
  BY <1>0, <1>1, <1>2 DEF AInv, OnlyChangesKeep
<1>4. ClearingFound'
  <2>1. job[h].kind # "change" => active \subseteq job'[h].found \union missed
    BY <1>0, <1>2, SessionsAssumptions DEF AInv, OnlyChangesKeep, TrackedOrMissed, Typed
  <2> QED BY <1>0, <1>1, <1>2, <2>1 DEF AInv, ClearingFound
<1>5. TrackedOrMissed'
  BY <1>0 DEF AInv, TrackedOrMissed
<1>6. \A s \in active \ missed : \A g \in Handlers : Ending(g, s) => Ending(g, s)'
  BY <1>0, <1>1, <1>2 DEF Ending, AInv, TrackedOrMissed
<1>7. OldEnding'
  BY <1>0, <1>6 DEF AInv, OldEnding
<1> QED BY <1>3, <1>4, <1>5, <1>7 DEF AInv

LEMMA AccountedRevoke ==
  ASSUME IInv, AInv, NEW h \in Handlers, RevokeSessions(h)
  PROVE  AInv'
<1>0. /\ Typed /\ job[h] \in PasswordJob /\ job[h].pc = "revoke"
      /\ active' = active \ job[h].found /\ ForgetSessions(h)
      /\ UNCHANGED <<password, closed, vouched, late, missed, crashes>>
  BY JobAt DEF IInv, RevokeSessions, account, history
<1>1. /\ \A g \in Handlers : g # h => job'[g] = job[g]
      /\ job'[h] = Nothing
  BY <1>0 DEF RevokeSessions, Typed, Done
<1>2. OnlyChangesKeep' /\ ClearingFound'
  BY <1>0, <1>1, NothingIsNoJob DEF AInv, OnlyChangesKeep, ClearingFound
<1>3. TrackedOrMissed'
  BY <1>0 DEF AInv, TrackedOrMissed, ClearingFound, ForgetSessions
<1>4. \A s \in active' : \A g \in Handlers : Ending(g, s) => Ending(g, s)'
  BY <1>0, <1>1 DEF Ending
<1>5. OldEnding'
  BY <1>0, <1>4 DEF AInv, OldEnding
<1> QED BY <1>2, <1>3, <1>5 DEF AInv

LEMMA AccountedRest ==
  ASSUME AInv, UNCHANGED <<tracked, password, closed, vouched, late, missed, job, crashes>>, active' \subseteq active
  PROVE  AInv'
BY AccountedAside DEF AInv, TrackedOrMissed

LEMMA AccountedStep == IInv /\ TInv /\ AInv /\ [Next]_vars => AInv'
<1> SUFFICES ASSUME IInv, TInv, AInv, [Next]_vars PROVE AInv'
  OBVIOUS
<1>1. ASSUME NEW h \in Handlers, HandlerStep(h) PROVE AInv'
  BY <1>1, AccountedLogin, AccountedRefresh, AccountedCreate, AccountedWrite, AccountedFind, AccountedRevoke, AccountedCrash
     DEF HandlerStep
<1>2. ASSUME NEW h \in Handlers, NEW b \in Browsers, Request(h, b) PROVE AInv'
  BY <1>2, AccountedRequest
<1>3. ASSUME NEW t \in Tokens, GraceEnds(t) PROVE AInv'
  BY <1>3, AccountedRest DEF GraceEnds, account, history
<1>4. CASE Suspend
  BY <1>4, AccountedRest DEF Suspend, redis
<1>5. ASSUME NEW sid \in Sids, SessionExpires(sid) PROVE AInv'
  BY <1>5, AccountedRest DEF SessionExpires, account, history
<1>6. CASE UNCHANGED vars
  BY <1>6, AccountedRest DEF vars
<1> QED BY <1>1, <1>2, <1>3, <1>4, <1>5, <1>6 DEF Next

\* Whoever knew an earlier password is signed out once the changes, resets and
\* closings of the account have run to their end (accountSecurityService.ts,
\* passwordResetService.ts:76), but for a login that overlapped with one: each
\* session of an earlier password is among those that some job still running
\* found or will find.
THEOREM EarlierPasswordsSignedOut == Spec => []OthersSignedOut
<1>1. AInv => OthersSignedOut
  BY NothingIsNoJob DEF AInv, OldEnding, Ending, OthersSignedOut, PasswordJobs, Idle, PasswordJob
<1> QED BY <1>1, InitHolds, StepHolds, TimelyInit, TimelyStep, AccountedInit, AccountedStep, PTL DEF Spec

\* "Log out everywhere" finds every open session (sessionStore.ts:71-79 tracks
\* each before its first token), but for one opened while another was between
\* reading the set and deleting it.
THEOREM LogOutFindsSessions == Spec => []TrackedOrMissed
<1>1. AInv => TrackedOrMissed
  BY DEF AInv
<1> QED BY <1>1, InitHolds, StepHolds, TimelyInit, TimelyStep, AccountedInit, AccountedStep, PTL DEF Spec

\* A session that was logged out, revoked or expired stays so
\* (sessionStore.ts:114-119 extends a session with EXPIRE): the only step that
\* opens a session draws an id that was never open.
THEOREM EndedSessionsStayEnded == Spec => EndedStaysEnded
<1> DEFINE Step == \A sid \in opened : sid \notin active => sid \notin active'
<1>1. ASSUME [Next]_vars PROVE Step
  <2>1. ASSUME NEW h \in Handlers, CreateSession(h) PROVE Step
    BY <2>1 DEF CreateSession
  <2>2. ASSUME active' \subseteq active PROVE Step
    BY <2>2
  <2>3. ASSUME NEW h \in Handlers, HandlerStep(h), ~CreateSession(h) PROVE active' \subseteq active
    BY <2>3 DEF HandlerStep, ComparePassword, StoreFirstToken, LoginReply, ReadToken, CheckActive, PresentedAgain, RetireToken,
       StoreNextToken, Extend, RecheckAccount, RevokeSession, RefreshReply, WriteAccount, FindSessions, RevokeSessions, Crash, redis
  <2>4. ASSUME NEW h \in Handlers, NEW b \in Browsers, Request(h, b) PROVE active' \subseteq active
    BY <2>4 DEF Request, BeginLogin, BeginRefresh, BeginPasswordJob, redis
  <2>5. CASE Suspend \/ (\E t \in Tokens : GraceEnds(t)) \/ (\E sid \in Sids : SessionExpires(sid)) \/ UNCHANGED vars
    BY <2>5 DEF Suspend, GraceEnds, SessionExpires, vars, redis
  <2> HIDE DEF Step
  <2> QED BY <1>1, <2>1, <2>2, <2>3, <2>4, <2>5 DEF Next
<1> QED BY <1>1, PTL DEF Spec, EndedStaysEnded
=============================================================================
