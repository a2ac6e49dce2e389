--------------------------- MODULE MCPricesAndTimes ---------------------------
(* An instance of PricesAndTimes for TLC. *)
EXTENDS PricesAndTimes, TLC

CONSTANTS o1, o2, cut, braid, ann, bea

\* The second booking is dearer than the gift card, so a card pays the rest.
OddPrices == (o1 :> 333) @@ (o2 :> 1003)

\* Nothing saved; odd rates; shares of more than the whole.
SomeSettings ==
  LET nothing == [s \in DOMAIN Defaults |-> Unset]
  IN {nothing,
      [nothing EXCEPT !.commissionRate = 1235, !.acquisitionRate = 555, !.earlyFee = 333, !.lateShare = 3333, !.passthroughFixed = 0],
      [nothing EXCEPT !.earlyFee = 0, !.lateShare = 15000, !.discountRate = 5000]}

UnsetValue == -1

Lengths == (cut :> 1) @@ (braid :> 2)
Skills == (cut :> {}) @@ (braid :> {ann})
Closed == [open |-> 0, close |-> 0]
OneWeek == {(0 :> [open |-> 1, close |-> 4]) @@ (1 :> Closed) @@ (2 :> [open |-> 0, close |-> 3])}
NineToFive == [open |-> 1, close |-> 3]

SomeRules ==
  LET nothing == [lead |-> None, buffer |-> None, advance |-> None, cutoff |-> None, double |-> None]
      noPolicy == [lead |-> None, buffer |-> None]
  IN {[policies |-> noPolicy, settings |-> nothing],
      [policies |-> [lead |-> 1, buffer |-> 1], settings |-> [nothing EXCEPT !.lead = 5, !.advance = 2]],
      [policies |-> [noPolicy EXCEPT !.lead = 0], settings |-> [nothing EXCEPT !.cutoff = 1, !.advance = 1]],
      [policies |-> [lead |-> 0, buffer |-> 0], settings |-> [nothing EXCEPT !.double = TRUE]]}

\* A salon without hours follows one of the rules only.
FewSlots == hours = NoHours => source.policies.lead = 1

\* Two-hour units: the far zones, and a clock put forward and back.
SomeZones ==
  {[before |-> -6, after |-> -6, change |-> 0], [before |-> 7, after |-> 7, change |-> 0],
   [before |-> 5, after |-> 6, change |-> 20], [before |-> 5, after |-> 4, change |-> 20],
   [before |-> -2, after |-> -1, change |-> 20], [before |-> -2, after |-> -3, change |-> 20]}
SomeWalls == 12..30

\* Around the launch, the ends of months, the turn of the year and a leap day.
SomeDates == {59, 60, 73, 74, 75, 89, 90, 119, 120, 134, 135, 136, 150, 151, 363, 364, 365, 395, 396, 424, 425, 426}

\* One place more, and a launch put off with a shorter offer.
SomeOffers ==
  {[launch |-> 74, limit |-> 1, months |-> 2], [launch |-> 74, limit |-> 2, months |-> 2],
   [launch |-> 120, limit |-> 1, months |-> 1]}

Window2027 == [enabled |-> TRUE, startsAt |-> 140, endsAt |-> 161]
=============================================================================
