-------------------------------- MODULE Sessions --------------------------------
(***************************************************************************)
(* One account's sessions in Redis: logging in, refreshing with a token    *)
(* that is used once, logging out, and signing out other devices when the  *)
(* password changes or is reset.                                           *)
(*                                                                         *)
(* A handler is one HTTP request.  Its Redis commands and its database     *)
(* statements are one step each; a MULTI and a Lua script are one step.    *)
(* A browser shares its cookies between its tabs, and its requests may     *)
(* overlap.                                                                *)
(***************************************************************************)
EXTENDS Naturals

CONSTANTS
  Sids,          \* session ids createSession may draw
  Tokens,        \* refresh tokens newRefreshToken may draw
  Browsers,
  Nothing,       \* no cookie, no job
  Handlers,
  MaxPasswords,  \* password changes considered (a bound of the model)
  MaxCrashes     \* requests or answers lost (a bound of the model)

ASSUME SessionsAssumptions ==
  /\ Nothing \notin Tokens \union Sids
  /\ MaxPasswords \in Nat \ {0} /\ MaxCrashes \in Nat

VARIABLES
  password,   \* which password the account has: the first, the second, ...
  suspended,
  closed,     \* the account was closed
  active,     \* customer-session: sessions that are open
  tracked,    \* customer-user-sessions: what "log out everywhere" finds
  vouched,    \* history: the password each session was opened with or last confirmed by (0: not opened)
  late,       \* history: opened with a password that had been replaced since it was compared
  missed,     \* history: created while a log-out-everywhere had read the set and not yet acted
  token,      \* customer-rt: the state and session of each refresh token
  cookie,     \* each browser's refresh cookie
  alarms,     \* history: sessions ended because a retired token came back
  job,
  crashes

account == <<password, suspended, closed>>
history == <<vouched, late, missed>>
redis == <<active, tracked, vouched, late, missed, token>>
vars == <<password, suspended, closed, active, tracked, vouched, late, missed, token, cookie, alarms, job, crashes>>

\* A token is live until it is exchanged, then retired; ROTATION_GRACE_SECONDS
\* later it is stale.
Token == [state : {"unused"}, sid : {Nothing}] \union [state : {"live", "retired", "stale"}, sid : Sids]

LoginJob == [kind : {"login"}, by : Browsers, pc : {"compare", "create", "store", "reply"},
             password : 1..MaxPasswords, sid : Sids \union {Nothing}, token : Tokens \union {Nothing}]
RefreshJob == [kind : {"refresh", "logout"}, by : Browsers, pc : {"read", "active", "retire", "store", "account", "revoke", "reply", "refused"},
               old : Tokens, seen : {"none", "live", "retired", "stale"}, token : Tokens \union {Nothing}]
PasswordJob == [kind : {"change", "reset", "close"}, by : Browsers, pc : {"write", "read", "revoke"},
                password : 1..MaxPasswords, keep : Sids \union {Nothing}, found : SUBSET Sids]
Job == LoginJob \union RefreshJob \union PasswordJob \union {Nothing}

ASSUME NothingIsNoJob == Nothing \notin LoginJob \union RefreshJob \union PasswordJob

opened == {sid \in Sids : vouched[sid] # 0}

TypeOK ==
  /\ password \in 1..MaxPasswords
  /\ suspended \in BOOLEAN /\ closed \in BOOLEAN
  /\ vouched \in [Sids -> 0..MaxPasswords]
  /\ active \subseteq opened /\ tracked \subseteq opened
  /\ late \subseteq opened /\ missed \subseteq opened
  /\ token \in [Tokens -> Token]
  /\ cookie \in [Browsers -> Tokens \union {Nothing}]
  /\ alarms \subseteq Sids
  /\ \A h \in Handlers : job[h] \in Job
  /\ crashes \in 0..MaxCrashes

Init ==
  /\ password = 1 /\ suspended = FALSE /\ closed = FALSE
  /\ active = {} /\ tracked = {} /\ late = {} /\ missed = {}
  /\ vouched = [sid \in Sids |-> 0]
  /\ token = [t \in Tokens |-> [state |-> "unused", sid |-> Nothing]]
  /\ cookie = [b \in Browsers |-> Nothing]
  /\ alarms = {}
  /\ job = [h \in Handlers |-> Nothing]
  /\ crashes = 0

Idle(h) == job[h] = Nothing
At(h, kinds, step) == job[h] # Nothing /\ job[h].kind \in kinds /\ job[h].pc = step
Begin(h, j) == Idle(h) /\ job' = [job EXCEPT ![h] = j]
Goto(h, step) == job' = [job EXCEPT ![h].pc = step]
Done(h) == job' = [job EXCEPT ![h] = Nothing]

\* storeRefreshToken.
StoreRefreshToken(t, sid) ==
  /\ token[t].state = "unused"
  /\ token' = [token EXCEPT ![t] = [state |-> "live", sid |-> sid]]

\* customerAccessError, merchantAccessError, isSuspended: who may use the site.
MayUse == ~suspended /\ ~closed

\* What authenticate honours: an access token of a session that is open, of an
\* account that may use the site now.
Honoured(sid) == sid \in active /\ MayUse

-----------------------------------------------------------------------------
(* login and openSession. *)

\* Somebody signs in with a password the account has, had or will have.
BeginLogin(h, b, p) ==
  /\ Begin(h, [kind |-> "login", by |-> b, pc |-> "compare", password |-> p, sid |-> Nothing, token |-> Nothing])
  /\ UNCHANGED <<account, redis, cookie, alarms, crashes>>

\* The row is read once: password, suspension and role are judged on it.  (The
\* lockout of repeated failures is SignUp's.)
ComparePassword(h) ==
  /\ At(h, {"login"}, "compare")
  /\ IF job[h].password = password /\ MayUse THEN Goto(h, "create") ELSE Done(h)
  /\ UNCHANGED <<account, redis, cookie, alarms, crashes>>

\* Some log-out-everywhere has read the set and will delete it.
ClearingSet == \E g \in Handlers : At(g, {"reset", "close"}, "revoke")

CreateSession(h) ==
  /\ At(h, {"login"}, "create")
  /\ \E sid \in Sids \ opened :
       /\ active' = active \union {sid}
       /\ tracked' = tracked \union {sid}
       /\ vouched' = [vouched EXCEPT ![sid] = job[h].password]
       /\ late' = IF job[h].password = password /\ ~closed THEN late ELSE late \union {sid}
       /\ missed' = IF ClearingSet THEN missed \union {sid} ELSE missed
       /\ job' = [job EXCEPT ![h].pc = "store", ![h].sid = sid]
  /\ UNCHANGED <<account, token, cookie, alarms, crashes>>

StoreFirstToken(h) ==
  /\ At(h, {"login"}, "store")
  /\ \E t \in Tokens : StoreRefreshToken(t, job[h].sid) /\ job' = [job EXCEPT ![h].pc = "reply", ![h].token = t]
  /\ UNCHANGED <<account, active, tracked, history, cookie, alarms, crashes>>

LoginReply(h) ==
  /\ At(h, {"login"}, "reply")
  /\ cookie' = [cookie EXCEPT ![job[h].by] = job[h].token]
  /\ Done(h)
  /\ UNCHANGED <<account, redis, alarms, crashes>>

-----------------------------------------------------------------------------
(* rotateRefreshToken, refreshSession and logoutByRefreshToken. *)

BeginRefresh(h, b, kind) ==
  /\ cookie[b] # Nothing
  /\ Begin(h, [kind |-> kind, by |-> b, pc |-> "read", old |-> cookie[b], seen |-> "none", token |-> Nothing])
  /\ UNCHANGED <<account, redis, cookie, alarms, crashes>>

Sid(h) == token[job[h].old].sid
Rotating == {"refresh", "logout"}

\* A refresh that is refused, and a logout with nothing to end.
Refused(h) == Goto(h, "refused")

ReadToken(h) ==
  /\ At(h, Rotating, "read")
  /\ job' = [job EXCEPT ![h].seen = token[job[h].old].state, ![h].pc = "active"]
  /\ UNCHANGED <<account, redis, cookie, alarms, crashes>>

\* What follows an exchange: a refresh re-reads the account, a logout revokes.
Exchanged(h) == Goto(h, IF job[h].kind = "refresh" THEN "account" ELSE "revoke")

\* Mutant: no grace window.
PresentedWithoutGrace(h) ==
  /\ At(h, Rotating, "active")
  /\ Sid(h) \in active
  /\ job[h].seen # "live"
  /\ active' = active \ {Sid(h)} /\ tracked' = tracked \ {Sid(h)}
  /\ alarms' = alarms \union {Sid(h)}
  /\ Refused(h)
  /\ UNCHANGED <<account, history, token, cookie, crashes>>

\* A token exchanged before: within the grace window as good as a new access
\* token, after it the sign of a copy, which ends the session.
PresentedAgain(h) ==
  /\ At(h, Rotating, "active")
  /\ Sid(h) \in active
  /\ job[h].seen # "live"
  /\ IF job[h].seen = "retired"
       THEN Exchanged(h) /\ UNCHANGED <<active, tracked, alarms>>
       ELSE /\ active' = active \ {Sid(h)} /\ tracked' = tracked \ {Sid(h)}
            /\ alarms' = alarms \union {Sid(h)}
            /\ Refused(h)
  /\ UNCHANGED <<account, history, token, cookie, crashes>>

CheckActive(h) ==
  /\ At(h, Rotating, "active")
  /\ \/ Sid(h) \notin active /\ Refused(h)
     \/ Sid(h) \in active /\ job[h].seen = "live" /\ Goto(h, "retire")
  /\ UNCHANGED <<account, redis, cookie, alarms, crashes>>

\* Mutant: the token is retired whatever it has become since it was read.
RetireTokenBlindly(h) ==
  /\ At(h, Rotating, "retire")
  /\ token' = [token EXCEPT ![job[h].old].state = "retired"]
  /\ Goto(h, "store")
  /\ UNCHANGED <<account, active, tracked, history, cookie, alarms, crashes>>

\* COMPARE_AND_SET: of two requests that read it live, one exchanges it.
RetireToken(h) ==
  /\ At(h, Rotating, "retire")
  /\ IF token[job[h].old].state = "live"
       THEN token' = [token EXCEPT ![job[h].old].state = "retired"] /\ Goto(h, "store")
       ELSE Exchanged(h) /\ UNCHANGED token
  /\ UNCHANGED <<account, active, tracked, history, cookie, alarms, crashes>>

\* EXPIRE leaves a session that has ended meanwhile ended.
Extend(sid) == UNCHANGED active

StoreNextToken(h) ==
  /\ At(h, Rotating, "store")
  /\ Extend(Sid(h))
  /\ \E t \in Tokens :
       /\ StoreRefreshToken(t, Sid(h))
       /\ job' = [job EXCEPT ![h].pc = IF job[h].kind = "refresh" THEN "account" ELSE "revoke", ![h].token = t]
  /\ UNCHANGED <<account, tracked, history, cookie, alarms, crashes>>

RecheckAccount(h) ==
  /\ At(h, {"refresh"}, "account")
  /\ Goto(h, IF MayUse THEN "reply" ELSE "revoke")
  /\ UNCHANGED <<account, redis, cookie, alarms, crashes>>

RevokeSession(h) ==
  /\ At(h, Rotating, "revoke")
  /\ active' = active \ {Sid(h)} /\ tracked' = tracked \ {Sid(h)}
  /\ Refused(h)
  /\ UNCHANGED <<account, history, token, cookie, alarms, crashes>>

\* The answer's cookies: a new refresh token if this request made it; none
\* after a refusal or a logout.
RefreshReply(h) ==
  /\ \/ /\ At(h, {"refresh"}, "reply")
        /\ cookie' = IF job[h].token = Nothing THEN cookie ELSE [cookie EXCEPT ![job[h].by] = job[h].token]
     \/ /\ At(h, Rotating, "refused")
        /\ cookie' = [cookie EXCEPT ![job[h].by] = Nothing]
  /\ Done(h)
  /\ UNCHANGED <<account, redis, alarms, crashes>>

\* ROTATION_GRACE_SECONDS pass.  No request is that slow: one that presents the
\* token, or whose answer replaces it, is answered before.
GraceEnds(t) ==
  /\ token[t].state = "retired"
  /\ \A h \in Handlers : job[h] # Nothing /\ job[h].kind \in Rotating => job[h].old # t
  /\ token' = [token EXCEPT ![t].state = "stale"]
  /\ UNCHANGED <<account, active, tracked, history, cookie, alarms, job, crashes>>

\* SESSION_TTL_SECONDS without a refresh.
SessionExpires(sid) ==
  /\ sid \in active
  /\ active' = active \ {sid}
  /\ UNCHANGED <<account, tracked, history, token, cookie, alarms, job, crashes>>

-----------------------------------------------------------------------------
(* changePassword, finishPasswordReset and closeAccount. *)

\* The current password was given, by a session that stays; or a reset ticket
\* or the account's owner, and no session stays.
BeginPasswordJob(h, b, kind, keep) ==
  /\ password < MaxPasswords
  /\ kind = "reset" \/ Honoured(keep)
  /\ Begin(h, [kind |-> kind, by |-> b, pc |-> "write", password |-> password + 1,
               keep |-> IF kind = "change" THEN keep ELSE Nothing, found |-> {}])
  /\ UNCHANGED <<account, redis, cookie, alarms, crashes>>

WriteAccount(h) ==
  /\ At(h, {"change", "reset", "close"}, "write")
  /\ IF job[h].kind = "close" THEN closed' = TRUE /\ UNCHANGED password
                              ELSE password' = job[h].password /\ UNCHANGED closed
  /\ vouched' = IF job[h].keep = Nothing THEN vouched ELSE [vouched EXCEPT ![job[h].keep] = job[h].password]
  /\ Goto(h, "read")
  /\ UNCHANGED <<suspended, active, tracked, late, missed, token, cookie, alarms, crashes>>

\* SMEMBERS.
FindSessions(h) ==
  /\ At(h, {"change", "reset", "close"}, "read")
  /\ job' = [job EXCEPT ![h].pc = "revoke", ![h].found = tracked \ {job[h].keep}]
  /\ UNCHANGED <<account, redis, cookie, alarms, crashes>>

\* revokeAllSessions deletes the set, revokeOtherSessions what it found.
ForgetSessions(h) == tracked' = IF job[h].kind = "change" THEN tracked \ job[h].found ELSE {}

\* Mutant: the session keys are left to expire.
RevokeOnlyTheSet(h) ==
  /\ At(h, {"change", "reset", "close"}, "revoke")
  /\ ForgetSessions(h)
  /\ Done(h)
  /\ UNCHANGED <<account, active, history, token, cookie, alarms, crashes>>

RevokeSessions(h) ==
  /\ At(h, {"change", "reset", "close"}, "revoke")
  /\ active' = active \ job[h].found
  /\ ForgetSessions(h)
  /\ Done(h)
  /\ UNCHANGED <<account, history, token, cookie, alarms, crashes>>

\* External: KHS suspends the account.
Suspend ==
  /\ ~suspended
  /\ suspended' = TRUE
  /\ UNCHANGED <<password, closed, redis, cookie, alarms, job, crashes>>

\* The server stops, or an answer is lost.
Crash(h) ==
  /\ crashes < MaxCrashes /\ ~Idle(h)
  /\ crashes' = crashes + 1
  /\ Done(h)
  /\ UNCHANGED <<account, redis, cookie, alarms>>

-----------------------------------------------------------------------------

HandlerStep(h) ==
  \/ ComparePassword(h) \/ CreateSession(h) \/ StoreFirstToken(h) \/ LoginReply(h)
  \/ ReadToken(h) \/ CheckActive(h) \/ PresentedAgain(h) \/ RetireToken(h) \/ StoreNextToken(h)
  \/ RecheckAccount(h) \/ RevokeSession(h) \/ RefreshReply(h)
  \/ WriteAccount(h) \/ FindSessions(h) \/ RevokeSessions(h)
  \/ Crash(h)

Request(h, b) ==
  \/ \E p \in 1..MaxPasswords : BeginLogin(h, b, p)
  \/ \E kind \in Rotating : BeginRefresh(h, b, kind)
  \/ \E kind \in {"change", "reset", "close"}, sid \in Sids : BeginPasswordJob(h, b, kind, sid)

Next ==
  \/ \E h \in Handlers : HandlerStep(h) \/ \E b \in Browsers : Request(h, b)
  \/ Suspend
  \/ \E t \in Tokens : GraceEnds(t)
  \/ \E sid \in Sids : SessionExpires(sid)

Spec == Init /\ [][Next]_vars
-----------------------------------------------------------------------------
(* Properties. *)

\* "One live refresh token" per session (sessionStore.ts:5-6), however many
\* requests present the same one at once.
OneLiveToken == \A t, u \in Tokens : token[t].state = "live" /\ token[u].state = "live" /\ token[t].sid = token[u].sid => t = u

\* A session that was logged out, revoked or expired stays so: a refresh that
\* found it open does not bring it back.
EndedStaysEnded == [][\A sid \in opened : sid \notin active => sid \notin active']_vars

\* Reuse detection ends no session of a browser whose tabs merely overlap, as
\* long as every answer arrives within the grace window and none is lost.
NoFalseAlarm == alarms # {} => crashes > 0

\* "Log out everywhere" finds every open session, but for one opened while
\* another log-out-everywhere was between reading the set and deleting it.
TrackedOrMissed == active \subseteq tracked \union missed

PasswordJobs == \E h \in Handlers : ~Idle(h) /\ job[h].kind \in {"change", "reset", "close"}

\* Once a password change or reset has ended, no session opened with an earlier
\* password is open, but for a login that overlapped with it.
OthersSignedOut ==
  ~PasswordJobs /\ crashes = 0 =>
    \A sid \in active \ (late \union missed) : vouched[sid] = password /\ ~closed

\* README.md:105-106: "logout and a password reset end them immediately", and
\* passwordResetService.ts:76 "Whoever knew the old password is signed out
\* everywhere".
SignedOutEverywhere == ~PasswordJobs /\ crashes = 0 => \A sid \in active : vouched[sid] = password
=============================================================================
