------------------------------- MODULE Scheduler -------------------------------
(***************************************************************************)
(* The scheduled jobs.  Every worker ticks; a tick that finds a job due    *)
(* takes the job's lock in Redis, claims the slot (the minute, hour or     *)
(* day) and runs.  A call is one runDue of one job; each Redis command is  *)
(* a step.  A call keeps the slot it read when it began.                   *)
(***************************************************************************)
EXTENDS Naturals, FiniteSets

CONSTANTS
  Calls,
  NoCall,
  KilledCall,   \* as the lock's holder: a call that was killed
  MaxTime,      \* twice the slots the clock goes through (a bound of the model)
  MaxKills      \* processes that stop (a bound of the model)

VARIABLES
  now,       \* time; a slot's second half is when a daily job is due
  lock,      \* job-lock: the call whose token it holds
  claimed,   \* slots whose key exists
  call,
  late,      \* history: calls that outlived their lock
  started,   \* history: how often the job was started for each slot
  finished,  \* history: slots whose run came to its end
  kills

schedulerVars == <<now, lock, claimed, call, late, started, finished, kills>>

Slots == 1..((MaxTime + 1) \div 2)

\* slotOf: before DAILY_HOUR the day's slot is not due (0).
SlotOf(time) == IF time % 2 = 1 THEN (time + 1) \div 2 ELSE 0

Resting == [pc |-> "idle", slot |-> 0]

SchedulerTypeOK ==
  /\ now \in 0..MaxTime
  /\ lock \in Calls \union {NoCall, KilledCall}
  /\ claimed \subseteq Slots
  /\ call \in [Calls -> [pc : {"idle", "exists", "lock", "claim", "run", "release"}, slot : {0} \union Slots]]
  /\ late \subseteq Calls
  /\ started \in [Slots -> Nat]
  /\ finished \subseteq claimed
  /\ kills \in 0..MaxKills

SchedulerInit ==
  /\ now = 0
  /\ lock = NoCall
  /\ claimed = {} /\ finished = {}
  /\ call = [c \in Calls |-> Resting]
  /\ late = {}
  /\ started = [s \in Slots |-> 0]
  /\ kills = 0

TimePasses ==
  /\ now < MaxTime
  /\ now' = now + 1
  /\ UNCHANGED <<lock, claimed, call, late, started, finished, kills>>

\* The minute tick; nothing to do when no slot is due.
Tick(c) ==
  /\ call[c].pc = "idle" /\ SlotOf(now) # 0
  /\ call' = [call EXCEPT ![c] = [pc |-> "exists", slot |-> SlotOf(now)]]
  /\ UNCHANGED <<now, lock, claimed, late, started, finished, kills>>

Rest(c) == call' = [call EXCEPT ![c] = Resting] /\ late' = late \ {c}

LookForSlot(c) ==
  /\ call[c].pc = "exists"
  /\ IF call[c].slot \in claimed
       THEN Rest(c)
       ELSE call' = [call EXCEPT ![c].pc = "lock"] /\ UNCHANGED late
  /\ UNCHANGED <<now, lock, claimed, started, finished, kills>>

\* SET NX EX maxSeconds.
TakeLock(c) ==
  /\ call[c].pc = "lock"
  /\ IF lock = NoCall
       THEN lock' = c /\ call' = [call EXCEPT ![c].pc = "claim"] /\ UNCHANGED late
       ELSE Rest(c) /\ UNCHANGED lock
  /\ UNCHANGED <<now, claimed, started, finished, kills>>

\* Mutant: under the lock the slot is set without NX.
ClaimSlotAgain(c) ==
  /\ call[c].pc = "claim"
  /\ claimed' = claimed \union {call[c].slot}
  /\ started' = [started EXCEPT ![call[c].slot] = @ + 1]
  /\ call' = [call EXCEPT ![c].pc = "run"]
  /\ UNCHANGED <<now, lock, late, finished, kills>>

\* SET NX; the job starts with the claim.
ClaimSlot(c) ==
  /\ call[c].pc = "claim"
  /\ LET s == call[c].slot IN
     IF s \in claimed
       THEN /\ call' = [call EXCEPT ![c].pc = "release"]
            /\ UNCHANGED <<claimed, started>>
       ELSE /\ claimed' = claimed \union {s}
            /\ started' = [started EXCEPT ![s] = @ + 1]
            /\ call' = [call EXCEPT ![c].pc = "run"]
  /\ UNCHANGED <<now, lock, late, finished, kills>>

\* The job returns or throws; either way the run is over.
JobEnds(c) ==
  /\ call[c].pc = "run"
  /\ call' = [call EXCEPT ![c].pc = "release"]
  /\ finished' = finished \union {call[c].slot}
  /\ UNCHANGED <<now, lock, claimed, late, started, kills>>

ReleaseLock(c) ==
  /\ call[c].pc = "release"
  /\ lock' = IF lock = c THEN NoCall ELSE lock
  /\ Rest(c)
  /\ UNCHANGED <<now, claimed, started, finished, kills>>

\* Mutant: the lock is taken without an expiry.
LockNeverExpires == FALSE /\ UNCHANGED schedulerVars

\* maxSeconds pass: the lock of a call that runs on, or was killed.
LockExpires ==
  /\ lock # NoCall
  /\ late' = late \union ({lock} \ {KilledCall})
  /\ lock' = NoCall
  /\ UNCHANGED <<now, claimed, call, started, finished, kills>>

\* The process crashes, or shuts down: requests in flight are waited for, jobs
\* are not.
Killed(c) ==
  /\ kills < MaxKills /\ call[c].pc # "idle"
  /\ kills' = kills + 1
  /\ Rest(c)
  /\ lock' = IF lock = c THEN KilledCall ELSE lock
  /\ UNCHANGED <<now, claimed, started, finished>>

CallStep(c) == LookForSlot(c) \/ TakeLock(c) \/ ClaimSlot(c) \/ JobEnds(c) \/ ReleaseLock(c)

SchedulerNext ==
  \/ \E c \in Calls : Tick(c) \/ CallStep(c) \/ Killed(c)
  \/ TimePasses \/ LockExpires

\* The timers fire and Redis answers; a job comes to an end; keys expire.
SchedulerFairness ==
  /\ \A c \in Calls : WF_schedulerVars(Tick(c)) /\ WF_schedulerVars(CallStep(c))
  /\ WF_schedulerVars(LockExpires)

-----------------------------------------------------------------------------
(* Properties. *)

Running(c) == call[c].pc = "run"

\* scheduler.ts:14-16 "each run is claimed in Redis ... so it happens exactly
\* once": no slot is run twice, however many workers, late ticks and expired
\* locks.
SlotOnce == \A s \in Slots : started[s] <= 1

\* scheduler.ts:64: a run that is in time never shares the job with another
\* that is, even after one that overran has released "its" lock.
OneInTime == Cardinality({c \in Calls : Running(c) /\ c \notin late}) <= 1

\* "A daily run missed while the servers were down happens at the next tick":
\* while a slot is due it comes to be claimed, whatever was killed before.
DueIsClaimed == \A s \in Slots : (SlotOf(now) = s) ~> (s \in claimed \/ SlotOf(now) # s)

\* scheduler.ts:50 "One run at a time, even when the last one overruns into the
\* next slot."
OneRunAtATime == Cardinality({c \in Calls : Running(c)}) <= 1

\* scheduler.ts:16 "it happens exactly once": a claimed slot is being run or was.
ClaimedIsRun == \A s \in claimed : s \in finished \/ \E c \in Calls : Running(c) /\ call[c].slot = s
=============================================================================
