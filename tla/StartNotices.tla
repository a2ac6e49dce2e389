----------------------------- MODULE StartNotices -----------------------------
(***************************************************************************)
(* "Your service has started": the job that runs every minute and tells a  *)
(* customer once that an appointment's start has come.  Appointments hold  *)
(* wall-clock text, the job runs on instants, so the start goes through    *)
(* the customer's time zone, whose offset may change on the way.  The row  *)
(* is stamped before the notice is sent, and the notice is fired and       *)
(* forgotten: what fails between the two is not made up for.               *)
(***************************************************************************)
EXTENDS Integers

CONSTANTS
  Day,       \* units of time in a day
  Recent,    \* RECENT_MS: how long after its start an appointment is still told of
  Zones,     \* [before, after, change]: the offset until the instant change, and from it
  Walls,     \* the wall-clock times an appointment may have
  LastClock,
  Runs,      \* runs of the job, which may overlap
  MaxMoves   \* bound of the model

ASSUME NoticeAssumptions ==
  /\ Day \in Nat \ {0} /\ Recent \in Nat /\ LastClock \in Nat /\ MaxMoves \in Nat
  /\ Zones \subseteq [before : Int, after : Int, change : Int]
  /\ Walls \subseteq Int

\* The world's clocks are between 12 hours behind and 14 ahead: the dates
\* looked at leave room for that and for Recent.
ASSUME OffsetAssumption ==
  \A z \in Zones : z.before \in (Recent - Day)..Day /\ z.after \in (Recent - Day)..Day

VARIABLES
  clock,   \* the instant
  zone,    \* the customer's time zone
  wall,    \* the appointment's start
  status,  \* "booked" (Confirmed or Rescheduled) or "over"
  stamped, \* serviceStartedNotifiedAt is set
  run,     \* each run: idle, or about to claim the appointment it read
  sending, \* notices on their way to the table, which nobody waits for
  sent,    \* notices in the customer's bell
  lost,    \* history: a row was stamped and its notice never fired or not stored
  told,    \* history: one was fired since the appointment was last moved
  due,     \* history: a run left the appointment alone though it had just started
  moves    \* times it was moved

noticeVars == <<clock, zone, wall, status, stamped, run, sending, sent, lost, told, due, moves>>

Offset(z, t) == IF t < z.change THEN z.before ELSE z.after

\* wallMsAt: the wall clock at an instant.
WallAt(z, t) == t + Offset(z, t)

InstantInOnePass(w, z) == w - (WallAt(z, w) - w)

\* instantOfWallClock: two passes settle the offset.
InstantOfWallClock(w, z) ==
  LET first == w - (WallAt(z, w) - w)
  IN w - (WallAt(z, first) - first)

-----------------------------------------------------------------------------
(* The job. *)

\* The dates yesterday to tomorrow cover every zone; of those, the starts that
\* came within the last Recent.
IsCandidate(w) == w \div Day \in (clock \div Day - 1)..(clock \div Day + 1)
JustStarted(w) ==
  LET startsAt == InstantOfWallClock(w, zone) IN clock >= startsAt /\ clock - startsAt <= Recent

\* The instants the zone's clock shows the start at: two when the clock is put
\* back over it, none when it is put forward over it.
StartInstants == {t \in (wall - Day)..(wall + Day) : WallAt(zone, t) = wall}
StartIsRecent == StartInstants # {} /\ \A t \in StartInstants : clock >= t /\ clock - t <= Recent

ToAnnounce == status = "booked" /\ ~stamped /\ IsCandidate(wall) /\ JustStarted(wall)

ReadCandidates(r) ==
  /\ run[r] = "idle"
  /\ run' = [run EXCEPT ![r] = IF ToAnnounce THEN "claim" ELSE "idle"]
  /\ due' = (due \/ (~ToAnnounce /\ status = "booked" /\ StartIsRecent))
  /\ UNCHANGED <<clock, zone, wall, status, stamped, sending, sent, lost, told, moves>>

\* Claimed before it is sent: only the run that stamps the row sends.  The
\* run may be killed, or not get the answer, once the row is stamped.
ClaimNotice(r) ==
  /\ run[r] = "claim"
  /\ run' = [run EXCEPT ![r] = "idle"]
  /\ stamped' = TRUE
  /\ IF stamped THEN UNCHANGED <<sending, lost, told>>
     ELSE \/ sending' = sending + 1 /\ told' = TRUE /\ UNCHANGED lost
          \/ lost' = TRUE /\ UNCHANGED <<sending, told>>
  /\ UNCHANGED <<clock, zone, wall, status, sent, due, moves>>

\* The update fails, or the run is killed before it: the next run reads again.
ClaimFails(r) ==
  /\ run[r] = "claim"
  /\ run' = [run EXCEPT ![r] = "idle"]
  /\ UNCHANGED <<clock, zone, wall, status, stamped, sending, sent, lost, told, due, moves>>

\* notifyUser's insert, on its own: a failure is logged.
NoticeEnds ==
  /\ sending > 0
  /\ sending' = sending - 1
  /\ \/ sent' = sent + 1 /\ UNCHANGED lost
     \/ lost' = TRUE /\ UNCHANGED sent
  /\ UNCHANGED <<clock, zone, wall, status, stamped, run, told, due, moves>>

MinutePasses ==
  /\ clock < LastClock
  /\ clock' = clock + 1
  /\ UNCHANGED <<zone, wall, status, stamped, run, sending, sent, lost, told, due, moves>>

\* The customer or the salon moves the booking; its stamp stays as it was.
MoveAppointment ==
  /\ status = "booked" /\ moves < MaxMoves
  /\ wall' \in Walls \ {wall}
  /\ moves' = moves + 1
  /\ due' = FALSE /\ told' = FALSE
  /\ UNCHANGED <<clock, zone, status, stamped, run, sending, sent, lost>>

\* It is finished or cancelled.
AppointmentOver ==
  /\ status = "booked"
  /\ status' = "over"
  /\ UNCHANGED <<clock, zone, wall, stamped, run, sending, sent, lost, told, due, moves>>

NoticeInit ==
  /\ clock = 0 /\ zone \in Zones /\ wall \in Walls
  /\ status = "booked" /\ stamped = FALSE
  /\ run = [r \in Runs |-> "idle"]
  /\ sending = 0 /\ sent = 0 /\ lost = FALSE /\ told = FALSE /\ due = FALSE /\ moves = 0

NoticeNext ==
  \/ \E r \in Runs : ReadCandidates(r) \/ ClaimNotice(r) \/ ClaimFails(r)
  \/ NoticeEnds \/ MinutePasses \/ MoveAppointment \/ AppointmentOver

-----------------------------------------------------------------------------
(* Properties. *)

\* However runs overlap and fail, the customer is told at most once; and once
\* a run has left the appointment alone within two hours of its start - as the
\* customer's own clock tells it, across a change of that clock too - the
\* notice is in the bell, or on its way, or was lost after its stamp.
StartToldUnlessLost ==
  /\ sent + sending <= 1
  /\ due => sent + sending = 1 \/ lost

\* serviceStarted.ts: "your service has started" goes to the customer "once a
\* confirmed appointment's start time arrives" - whatever fails on the way.
StartIsTold == due => sent + sending = 1

\* The same promise for the start an appointment was moved to.
MovedIsNoticed == due => told \/ lost
=============================================================================
