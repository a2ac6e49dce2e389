------------------------------ MODULE LiveUpdates ------------------------------
(***************************************************************************)
(* A customer's live-update sockets: who may keep one, and what the team   *)
(* sees of whether the customer is online.  A socket outlives the request  *)
(* that opened it, so its session is checked again at every interval; the  *)
(* open sockets of all processes are counted in Redis, and the first and   *)
(* the last are announced by two writes that nothing orders.               *)
(***************************************************************************)
EXTENDS Naturals, FiniteSets

CONSTANTS
  Sockets,
  On,          \* the process of each
  Interval,    \* SESSION_RECHECK_MS
  MaxMissed,   \* checks that fail (a bound of the model)
  MaxLost      \* processes killed, keys expired and writes failed (a bound of the model)

ASSUME LiveAssumptions == Interval \in Nat \ {0} /\ MaxMissed \in Nat /\ MaxLost \in Nat

VARIABLES
  socket,    \* "closed", "allowed" (authenticated, not yet connected) or "open"
  ended,     \* the sockets whose session has ended
  since,     \* time since then
  timer,     \* time to each open socket's next check
  missed,    \* checks of each that failed since its session ended
  counted,   \* the Redis set of open sockets
  saying,    \* announcements under way: <<socket, "online" or "offline", "row" or "staff">>
  online,    \* the user_status row
  staffSees, \* what the team was told last
  lost       \* processes killed, keys expired and writes failed so far

liveVars == <<socket, ended, since, timer, missed, counted, saying, online, staffSees, lost>>

Longest == Interval * (1 + MaxMissed)

LiveTypeOK ==
  /\ socket \in [Sockets -> {"closed", "allowed", "open"}]
  /\ ended \subseteq Sockets /\ counted \subseteq Sockets
  /\ since \in [Sockets -> 0..Longest + 1] /\ timer \in [Sockets -> 0..Interval]
  /\ missed \in [Sockets -> 0..MaxMissed]
  /\ saying \subseteq Sockets \X {"online", "offline"} \X {"row", "staff"}
  /\ online \in BOOLEAN /\ staffSees \in BOOLEAN /\ lost \in 0..MaxLost

StillAllowed(k) == k \notin ended

\* An id the set still has is not given again.
Authenticate(k) ==
  /\ socket[k] = "closed" /\ StillAllowed(k) /\ k \notin counted
  /\ {a \in saying : a[1] = k} = {}
  /\ socket' = [socket EXCEPT ![k] = "allowed"]
  /\ UNCHANGED <<ended, since, timer, missed, counted, saying, online, staffSees, lost>>

\* socketOpened: added and counted in one transaction; a failure is only logged.
Connect(k) ==
  /\ socket[k] = "allowed"
  /\ socket' = [socket EXCEPT ![k] = "open"]
  /\ timer' = [timer EXCEPT ![k] = Interval]
  /\ \/ /\ counted' = counted \union {k}
        /\ saying' = IF counted = {} THEN saying \union {<<k, "online", "row">>} ELSE saying
     \/ UNCHANGED <<counted, saying>>
  /\ UNCHANGED <<ended, since, missed, online, staffSees, lost>>

\* socketClosed: so is the last one's leaving; here too a failure is only logged.
Closes(k) ==
  /\ socket' = [socket EXCEPT ![k] = "closed"]
  /\ timer' = [timer EXCEPT ![k] = 0]
  /\ \/ /\ counted' = counted \ {k}
        /\ saying' = IF counted \ {k} = {} THEN saying \union {<<k, "offline", "row">>} ELSE saying
     \/ UNCHANGED <<counted, saying>>

\* The tab, the network or the server's shutdown.
Disconnect(k) ==
  /\ socket[k] = "open"
  /\ Closes(k)
  /\ UNCHANGED <<ended, since, missed, online, staffSees, lost>>

\* announce: the row, then the team, each on its own; a write that fails ends
\* it, and publishing never throws.
WriteRow(k, what) ==
  /\ <<k, what, "row">> \in saying
  /\ \/ /\ online' = (what = "online")
        /\ saying' = (saying \ {<<k, what, "row">>}) \union {<<k, what, "staff">>}
        /\ UNCHANGED lost
     \/ /\ lost < MaxLost /\ lost' = lost + 1
        /\ saying' = saying \ {<<k, what, "row">>}
        /\ UNCHANGED online
  /\ UNCHANGED <<socket, ended, since, timer, missed, counted, staffSees>>

PublishStatus(k, what) ==
  /\ <<k, what, "staff">> \in saying
  /\ \/ staffSees' = (what = "online")
     \/ staffSees' = staffSees
  /\ saying' = saying \ {<<k, what, "staff">>}
  /\ UNCHANGED <<socket, ended, since, timer, missed, counted, online, lost>>

\* Mutant: the check only looks at the account, not at the session.
RecheckAccount(k) ==
  /\ socket[k] = "open" /\ timer[k] = 0
  /\ timer' = [timer EXCEPT ![k] = Interval]
  /\ UNCHANGED <<socket, ended, since, missed, counted, saying, online, staffSees, lost>>

Recheck(k) ==
  /\ socket[k] = "open" /\ timer[k] = 0
  /\ IF StillAllowed(k)
     THEN timer' = [timer EXCEPT ![k] = Interval] /\ UNCHANGED <<socket, counted, saying>>
     ELSE Closes(k)
  /\ UNCHANGED <<ended, since, missed, online, staffSees, lost>>

\* Redis or the database does not answer: the socket stays until the next one.
RecheckFails(k) ==
  /\ socket[k] = "open" /\ timer[k] = 0 /\ missed[k] < MaxMissed
  /\ timer' = [timer EXCEPT ![k] = Interval]
  /\ missed' = [missed EXCEPT ![k] = IF k \in ended THEN @ + 1 ELSE @]
  /\ UNCHANGED <<socket, ended, since, counted, saying, online, staffSees, lost>>

\* Logged out, expired, or the account suspended.
SessionEnds(k) ==
  /\ k \notin ended
  /\ ended' = ended \union {k}
  /\ UNCHANGED <<socket, since, timer, missed, counted, saying, online, staffSees, lost>>

\* Timers fire on time.
TimePasses ==
  /\ \E k \in Sockets : socket[k] = "open"
  /\ \A k \in Sockets : socket[k] = "open" => timer[k] > 0
  /\ timer' = [k \in Sockets |-> IF socket[k] = "open" THEN timer[k] - 1 ELSE timer[k]]
  /\ since' = [k \in Sockets |-> IF k \in ended /\ socket[k] = "open" /\ since[k] <= Longest THEN since[k] + 1 ELSE since[k]]
  /\ UNCHANGED <<socket, ended, missed, counted, saying, online, staffSees, lost>>

\* A process dies without closing its sockets: nobody takes them off the set.
ProcessKilled ==
  /\ lost < MaxLost /\ lost' = lost + 1
  /\ \E p \in {On[k] : k \in Sockets} :
       LET gone == {k \in Sockets : On[k] = p}
       IN /\ socket' = [k \in Sockets |-> IF k \in gone THEN "closed" ELSE socket[k]]
          /\ timer' = [k \in Sockets |-> IF k \in gone THEN 0 ELSE timer[k]]
          /\ saying' = {a \in saying : a[1] \notin gone}
  /\ UNCHANGED <<ended, since, missed, counted, online, staffSees>>

\* A day after the last socket opened, whether or not some are still open.
CountExpires ==
  /\ lost < MaxLost /\ lost' = lost + 1
  /\ counted # {}
  /\ counted' = {}
  /\ UNCHANGED <<socket, ended, since, timer, missed, saying, online, staffSees>>

LiveInit ==
  /\ socket = [k \in Sockets |-> "closed"] /\ ended = {} /\ counted = {} /\ saying = {}
  /\ since = [k \in Sockets |-> 0] /\ timer = [k \in Sockets |-> 0] /\ missed = [k \in Sockets |-> 0]
  /\ online = FALSE /\ staffSees = FALSE /\ lost = 0

LiveNext ==
  \/ \E k \in Sockets :
       \/ Authenticate(k) \/ Connect(k) \/ Disconnect(k)
       \/ Recheck(k) \/ RecheckFails(k) \/ SessionEnds(k)
       \/ \E what \in {"online", "offline"} : WriteRow(k, what) \/ PublishStatus(k, what)
  \/ TimePasses \/ ProcessKilled \/ CountExpires

-----------------------------------------------------------------------------
(* Properties. *)

\* A socket outlives its session by one interval at most, and by one more for
\* each check that could not be made - also a socket whose session ended
\* between its being allowed and its being connected.
EndedSocketsClose ==
  \A k \in ended : socket[k] = "open" => since[k] <= Interval * (1 + missed[k])

\* presence.ts: sockets are counted "so closing one of two tabs doesn't mark
\* them offline".
OnlineWhileOpen ==
  (lost = 0 /\ saying = {}) => (online <=> counted # {})
=============================================================================
