------------------------------ MODULE SlotRules ------------------------------
(***************************************************************************)
(* Which times a salon takes bookings at and who does them: opening hours, *)
(* the salon's rules (notice, how far ahead, same-day cutoff, buffer,      *)
(* double bookings), blocked-out time, the stylists who can do a service   *)
(* and are free; and the times the apps offer from the same check - the    *)
(* salon's list for a day and "next free" on the search cards.             *)
(*                                                                         *)
(* SalonCalendar has the lock under which a time is taken; here a booking  *)
(* is one step and the check is exact.  Times are half hours, counted from *)
(* the first day's midnight on one wall clock.                             *)
(***************************************************************************)
EXTENDS Integers, Sequences, FiniteSets, FiniteSetsExt

CONSTANTS
  Days,         \* how many days the model lasts
  DayLength,    \* half hours in a day
  Services,     \* of the salon
  Length,       \* of each service
  Assigned,     \* the active staff assigned to each service ({}: anyone)
  Team,         \* the active staff
  NoOne,
  Weeks,        \* the opening hours the salon may have
  NoHours,      \* a salon that never set any
  DefaultHours, \* DEFAULT_WINDOW
  Sources,      \* booking_policies and business_owner_settings the salon may have
  None,
  DaysAhead,    \* DAYS_AHEAD
  Bookings      \* appointments and blocked times there are at once (a bound of the model)

ASSUME SlotAssumptions ==
  /\ Days \in Nat \ {0} /\ DayLength \in Nat \ {0} /\ DaysAhead \in Nat
  /\ Length \in [Services -> Nat \ {0}] /\ Assigned \in [Services -> SUBSET Team]
  /\ NoOne \notin Team

\* Opening hours are times of the day, the rules' numbers are not negative, and
\* no card looks further ahead than the salon's own list may (a year).
ASSUME HoursAndRulesAssumption ==
  /\ Weeks \subseteq [0..(Days - 1) -> [open : 0..DayLength, close : 0..DayLength]]
  /\ DefaultHours \in [open : 0..DayLength, close : 0..DayLength]
  /\ \A s \in Sources : /\ {s.policies.lead, s.settings.lead} \subseteq Nat \union {None}
                        /\ s.settings.advance \in Nat \union {None}
  /\ DaysAhead <= 365

VARIABLES
  now,     \* the wall clock
  source,  \* the salon's stored rules
  hours,   \* its opening hours
  booked,  \* its active appointments: [day, start, length, who]
  blocks   \* its blocked-out time: [day, start, end, who]

slotVars == <<now, source, hours, booked, blocks>>

-----------------------------------------------------------------------------
(* The rules. *)

Or(value, other) == IF value # None THEN value ELSE other

\* resolveBookingRules: the policies first, then the settings, then the defaults.
Rules ==
  LET p == source.policies
      s == source.settings
  IN [lead |-> Or(p.lead, Or(s.lead, DayLength)),
      buffer |-> Or(p.buffer, Or(s.buffer, 0)),
      advance |-> Or(s.advance, 90),
      cutoff |-> s.cutoff,
      double |-> s.double = TRUE]

\* The salon booking for itself is held to the clashes, not to the notice.
SalonRules == [Rules EXCEPT !.lead = 0, !.advance = 365, !.cutoff = None]

Overlap(from1, to1, from2, to2) == from1 < to2 /\ to1 > from2

\* openWindow; a closed day has no window.
Window(day) == IF hours = NoHours THEN DefaultHours ELSE hours[day]
IsOpen(day) == Window(day).close > Window(day).open

WithinHours(day, start, length) ==
  hours = NoHours \/ (IsOpen(day) /\ start >= hours[day].open /\ start + length <= hours[day].close)

SalonBlocked(day, start, length) ==
  \E b \in blocks : b.day = day /\ b.who = NoOne /\ Overlap(start, start + length, b.start, b.end)

OnDay(day) == {b \in DOMAIN booked : booked[b].day = day}

\* Clear of an appointment, with the salon's buffer on both sides.
Clear(b, start, length, buffer) ==
  ~Overlap(start, start + length + buffer, booked[b].start, booked[b].start + booked[b].length + buffer)

\* checkBookingAgainstRules
KeepsRules(rules, day, start, length) ==
  LET today == now \div DayLength
  IN /\ day * DayLength + start - now >= rules.lead
     /\ day - today <= rules.advance
     /\ rules.cutoff # None /\ day = today => now % DayLength <= rules.cutoff
     /\ ~rules.double => \A b \in OnDay(day) : Clear(b, start, length, rules.buffer)

-----------------------------------------------------------------------------
(* Who does it. *)

Eligible(service) == IF Assigned[service] = {} THEN Team ELSE Team \intersect Assigned[service]

IsStylistFree(s, day, start, length) ==
  /\ \A b \in OnDay(day) : booked[b].who = s => Clear(b, start, length, Rules.buffer)
  /\ \A b \in blocks : b.day = day /\ b.who \in {s, NoOne} => ~Overlap(start, start + length, b.start, b.end)

Load(s, day) == Cardinality({b \in OnDay(day) : booked[b].who = s})

\* chooseStylist: who may get it (the free ones with the fewest appointments;
\* NoOne leaves it unassigned), or nobody at all when it is refused.
Choice(service, day, start, wanted) ==
  LET free == {s \in Eligible(service) : IsStylistFree(s, day, start, Length[service])}
      pool == IF free # {} THEN free ELSE IF Rules.double THEN Eligible(service) ELSE {}
  IN IF wanted # NoOne
     THEN {wanted} \intersect (IF Rules.double THEN Eligible(service) ELSE free)
     ELSE IF pool = {} THEN {NoOne}
     ELSE {s \in pool : \A t \in pool : Load(s, day) <= Load(t, day)}

\* evaluateSlot: the stylists it may be booked with; {} when it can't be.
EvaluateSlot(service, day, start, wanted, asSalon) ==
  IF /\ WithinHours(day, start, Length[service])
     /\ KeepsRules(IF asSalon THEN SalonRules ELSE Rules, day, start, Length[service])
     /\ ~SalonBlocked(day, start, Length[service])
  THEN Choice(service, day, start, wanted) ELSE {}

-----------------------------------------------------------------------------
(* What the apps offer. *)

\* The starts tried on a day.
Starts(service, day) ==
  IF IsOpen(day) THEN {t \in Window(day).open..Window(day).close : t + Length[service] <= Window(day).close} ELSE {}

\* listAvailableTimes, for the salon's new-booking form.
AvailableTimes(service, day) == {t \in Starts(service, day) : EvaluateSlot(service, day, t, NoOne, TRUE) # {}}

NextFreeBeforeLastDay(service) ==
  LET today == now \div DayLength
      found == UNION {{d * DayLength + t : t \in {t \in Starts(service, d) : EvaluateSlot(service, d, t, NoOne, FALSE) # {}}} :
                        d \in {today} \intersect 0..Days - 1}
  IN IF found = {} THEN None ELSE Min(found)

\* nextFreeTimes: two weeks ahead at most, and no further than the rules allow.
NextFree(service) ==
  LET today == now \div DayLength
      lastDay == today + (IF Rules.advance < DaysAhead THEN Rules.advance ELSE DaysAhead)
      found == UNION {{d * DayLength + t : t \in {t \in Starts(service, d) : EvaluateSlot(service, d, t, NoOne, FALSE) # {}}} :
                        d \in today..(IF lastDay < Days THEN lastDay ELSE Days - 1)}
  IN IF found = {} THEN None ELSE Min(found)

-----------------------------------------------------------------------------
(* Actions. *)

Take(service, day, start, wanted, asSalon) ==
  /\ Len(booked) + Cardinality(blocks) < Bookings
  /\ \E who \in EvaluateSlot(service, day, start, wanted, asSalon) :
       booked' = Append(booked, [day |-> day, start |-> start, length |-> Length[service], who |-> who])
  /\ UNCHANGED <<now, source, hours, blocks>>

BookOnline == \E service \in Services, day \in 0..Days - 1, start \in 0..DayLength - 1, wanted \in Team \union {NoOne} :
                Take(service, day, start, wanted, FALSE)

BookBySalon == \E service \in Services, day \in 0..Days - 1, start \in 0..DayLength - 1, wanted \in Team \union {NoOne} :
                 Take(service, day, start, wanted, TRUE)

\* A cancelled appointment is no longer among the active ones.
CancelAppointment ==
  /\ \E b \in DOMAIN booked :
       booked' = [k \in 1..Len(booked) - 1 |-> booked[IF k < b THEN k ELSE k + 1]]
  /\ UNCHANGED <<now, source, hours, blocks>>

BlockTime ==
  /\ blocks = {} /\ Len(booked) < Bookings
  /\ \E day \in 0..Days - 1, start \in 0..DayLength - 1, who \in Team \union {NoOne} :
       blocks' = {[day |-> day, start |-> start, end |-> start + 1, who |-> who]}
  /\ UNCHANGED <<now, source, hours, booked>>

UnblockTime ==
  /\ blocks # {} /\ blocks' = {}
  /\ UNCHANGED <<now, source, hours, booked>>

ClockMoves ==
  /\ now < Days * DayLength
  /\ now' = now + 1
  /\ UNCHANGED <<source, hours, booked, blocks>>

SlotInit == now = 0 /\ source \in Sources /\ hours \in Weeks \union {NoHours} /\ booked = <<>> /\ blocks = {}

SlotNext == BookOnline \/ BookBySalon \/ CancelAppointment \/ BlockTime \/ UnblockTime \/ ClockMoves

-----------------------------------------------------------------------------
(* Properties. *)

\* Every time a customer's booking would be accepted at now, whichever half
\* hour it starts at, within the two weeks a card looks ahead.
Acceptable(service) ==
  {w \in 0..Days * DayLength - 1 :
     /\ w \div DayLength - now \div DayLength <= DaysAhead
     /\ EvaluateSlot(service, w \div DayLength, w % DayLength, NoOne, FALSE) # {}}

\* nextFreeService.ts: "the earliest time a customer could book it now": the
\* card names the first time a booking would be accepted, and says there is
\* none only when there is none (for a salon that set its hours).  The salon's
\* own list for that day offers it too.
NextFreeIsEarliest ==
  \A service \in Services :
    LET free == NextFree(service) IN
    /\ hours # NoHours => free = (IF Acceptable(service) = {} THEN None ELSE Min(Acceptable(service)))
    /\ free # None => free % DayLength \in AvailableTimes(service, free \div DayLength)

\* blockedTimeService.ts: "for one team member or the whole salon. Bookings
\* can't be made over it."
NoneOverBlockedTime ==
  [][Len(booked') > Len(booked) =>
       LET made == booked'[Len(booked')]
       IN \A b \in blocks : b.day = made.day /\ b.who \in {made.who, NoOne} =>
            ~Overlap(made.start, made.start + made.length, b.start, b.end)]_slotVars
=============================================================================
