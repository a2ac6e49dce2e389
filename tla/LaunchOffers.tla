----------------------------- MODULE LaunchOffers -----------------------------
(***************************************************************************)
(* Calendar dates and what hangs on them: the periods the merchant's pages *)
(* compare, KHS's founding offer for the first salons it approves, and the *)
(* Reveal window merchants may join.                                       *)
(*                                                                         *)
(* A day is a number, 0 being 1 January 2027; a month is a number too, 0   *)
(* being January 2027.  Staff approve salons and edit the offer's terms in *)
(* another app; the code reads the terms as they are at each call.         *)
(***************************************************************************)
EXTENDS Integers, FiniteSets

CONSTANTS
  LastMonth,  \* the calendar goes so far
  Dates,      \* the days the model looks at (a bound of the model)
  Offers,     \* the terms staff may save, [launch, limit, months]: launchDate,
              \* foundingSalonLimit, foundingCommissionFreeMonths
  Salons,
  Reveal      \* revealPeriod: [enabled, startsAt, endsAt]; a negative date is not set

ASSUME OfferAssumptions ==
  /\ LastMonth \in Nat /\ Dates \subseteq Nat /\ IsFiniteSet(Salons)
  /\ Offers \subseteq [launch : Nat, limit : Nat, months : Nat]

VARIABLES
  today,
  offer,     \* the offer's terms in the payment settings
  approved,  \* each salon's founding number and the day it was approved, [number |-> 0] before
  promised   \* history: what the website said of the offer on that day

offerVars == <<today, offer, approved, promised>>

-----------------------------------------------------------------------------
(* The calendar. *)

IsLeap(year) == year % 4 = 0 /\ (year % 100 # 0 \/ year % 400 = 0)
MonthLength(m) ==
  LET month == m % 12 IN
  IF month = 1 THEN (IF IsLeap(2027 + m \div 12) THEN 29 ELSE 28) ELSE IF month \in {3, 5, 8, 10} THEN 30 ELSE 31

FirstOf[m \in 0..LastMonth] == IF m = 0 THEN 0 ELSE FirstOf[m - 1] + MonthLength(m - 1)
LastOf(m) == FirstOf[m] + MonthLength(m) - 1
MonthOf(d) == CHOOSE m \in 0..LastMonth : FirstOf[m] <= d /\ d <= LastOf(m)

\* The calendar reaches the end of every offer (a bound of the model).
ASSUME CalendarAssumption ==
  \A o \in Offers : \A d \in Dates \union {o.launch} :
    \E m \in 0..(LastMonth - o.months) : FirstOf[m] <= d /\ d <= LastOf(m)

\* Sunday is 0; 1 January 2027 is a Friday.
Weekday(d) == (d + 5) % 7

-----------------------------------------------------------------------------
(* Periods. *)

WeekPeriod(d) == [start |-> d - Weekday(d), end |-> d - Weekday(d) + 6]
MonthPeriod(d) == [start |-> FirstOf[MonthOf(d)], end |-> LastOf(MonthOf(d))]

PeriodBounds(period, d) ==
  IF period = "today" THEN [current |-> [start |-> d, end |-> d], previous |-> [start |-> d - 1, end |-> d - 1]]
  ELSE IF period = "week"
  THEN LET current == WeekPeriod(d)
       IN [current |-> current, previous |-> [start |-> current.start - 7, end |-> current.start - 1]]
  ELSE LET current == MonthPeriod(d)
       IN [current |-> current, previous |-> MonthPeriod(current.start - 1)]

-----------------------------------------------------------------------------
(* The founding offer. *)

AddMonthsRollingOver(d, n) == FirstOf[MonthOf(d) + n] + (d - FirstOf[MonthOf(d)])

\* addMonths: the same day of the month, or its last one.
AddMonths(d, n) ==
  LET m == MonthOf(d)
      day == d - FirstOf[m] + 1
  IN FirstOf[m + n] + (IF day < MonthLength(m + n) THEN day ELSE MonthLength(m + n)) - 1

Later(a, b) == IF a > b THEN a ELSE b

\* foundingStatus: when a salon's free months run; nothing for the others.
NotFounding == [startsAt |-> 0, endsAt |-> 0]
FoundingStatus(s) ==
  IF approved[s].number = 0 \/ approved[s].number > offer.limit THEN NotFounding
  ELSE LET startsAt == Later(approved[s].day, offer.launch)
       IN [startsAt |-> startsAt, endsAt |-> AddMonths(startsAt, offer.months)]

\* commissionRateFor: no commission while the free months run.
PaysCommission(s) == ~(today >= FoundingStatus(s).startsAt /\ today < FoundingStatus(s).endsAt)

\* publicOffers: what the website shows today.
PublicOffer ==
  LET taken == Cardinality({s \in Salons : approved[s].number \in 1..offer.limit})
  IN [available |-> offer.limit > taken /\ offer.months > 0,
      spotsLeft |-> IF offer.limit > taken THEN offer.limit - taken ELSE 0,
      terms |-> offer,
      endsAt |-> AddMonths(Later(today, offer.launch), offer.months)]

-----------------------------------------------------------------------------
(* The Reveal window, in half days (its ends are instants). *)

RevealStatus(now) ==
  [open |-> /\ Reveal.enabled /\ Reveal.endsAt >= 0
            /\ now < Reveal.endsAt
            /\ Reveal.startsAt >= 0 => now >= Reveal.startsAt,
   daysLeft |-> IF Reveal.endsAt < 0 THEN 0 ELSE Later(0, (Reveal.endsAt - now + 1) \div 2)]

-----------------------------------------------------------------------------
(* Actions. *)

\* Staff approve a salon: it gets the next founding number.
ApproveSalon(s) ==
  /\ approved[s].number = 0
  /\ approved' = [approved EXCEPT ![s] = [number |-> Cardinality({t \in Salons : approved[t].number > 0}) + 1, day |-> today]]
  /\ promised' = [promised EXCEPT ![s] = PublicOffer]
  /\ UNCHANGED <<today, offer>>

EditOffer ==
  /\ offer' \in Offers \ {offer}
  /\ UNCHANGED <<today, approved, promised>>

DaysPass ==
  /\ today' \in {d \in Dates : d > today /\ \A e \in Dates : e > today => d <= e}
  /\ UNCHANGED <<offer, approved, promised>>

OfferInit ==
  /\ today \in Dates /\ \A d \in Dates : today <= d
  /\ offer \in Offers
  /\ approved = [s \in Salons |-> [number |-> 0, day |-> 0]]
  /\ promised = [s \in Salons |-> [available |-> FALSE, spotsLeft |-> 0, terms |-> offer, endsAt |-> 0]]

OfferNext == DaysPass \/ EditOffer \/ \E s \in Salons : ApproveSalon(s)

-----------------------------------------------------------------------------
(* Properties. *)

\* While the terms are those the website showed on the day a salon was
\* approved - never edited, or edited back - the salon gets what the website
\* said, whatever was edited and whoever was approved in between: no commission
\* from launch or its approval until that date, and none of it for a salon the
\* offer was not open to.  Under any terms, of two founding salons the one
\* approved later never ends earlier.
OfferAsPromised ==
  \A s \in Salons : approved[s].number > 0 =>
    /\ promised[s].terms = offer =>
         IF promised[s].available
         THEN /\ FoundingStatus(s).endsAt = promised[s].endsAt
              /\ today >= offer.launch /\ today < promised[s].endsAt => ~PaysCommission(s)
              /\ today >= promised[s].endsAt => PaysCommission(s)
         ELSE PaysCommission(s)
    /\ \A t \in Salons : approved[t].number > approved[s].number /\ approved[t].number <= offer.limit =>
         FoundingStatus(t).endsAt >= FoundingStatus(s).endsAt

\* launchOffers.ts: the date shown is "For a salon approved today: when its free
\* months would end" - whatever staff save later.
OfferKept ==
  \A s \in Salons : approved[s].number > 0 /\ promised[s].available =>
    FoundingStatus(s).endsAt = promised[s].endsAt

\* The pages compare like with like: each period holds today, the one before
\* it ends the day before, and walking back from today visits every day once.
PeriodsMeet ==
  \A period \in {"today", "week", "month"} :
    LET b == PeriodBounds(period, today) IN
    /\ b.current.start <= today /\ today <= b.current.end
    /\ b.previous.end + 1 = b.current.start
    /\ b.previous = PeriodBounds(period, b.previous.end).current
    /\ RevealStatus(2 * today).open => RevealStatus(2 * today).daysLeft >= 1
=============================================================================
