SPECIFICATION PricesSpec
CONSTANTS
  o1 = o1
  o2 = o2
  cut = cut
  braid = braid
  ann = ann
  bea = bea
  Orders = {o1, o2}
  Price <- OddPrices
  GiftValue = 930
  SessionPrice = 255
  Stored <- SomeSettings
  Unset <- UnsetValue
  Days = 3
  DayLength = 4
  Services = {cut, braid}
  Length <- Lengths
  Assigned <- Skills
  Team = {ann, bea}
  NoOne = NoOne
  Weeks <- OneWeek
  NoHours = NoHours
  DefaultHours <- NineToFive
  Sources <- SomeRules
  None = None
  DaysAhead = 1
  Bookings = 2
  Day = 12
  Recent = 1
  Zones <- SomeZones
  Walls <- SomeWalls
  LastClock = 40
  Runs = {r1, r2}
  MaxMoves = 1
  LastMonth = 40
  Dates <- SomeDates
  Offers <- SomeOffers
  Salons = {s1, s2}
  Reveal <- Window2027
CONSTRAINT FewSlots
CHECK_DEADLOCK FALSE
INVARIANTS SalonGetsItsDue AcquisitionOnce NextFreeIsEarliest StartToldUnlessLost OfferAsPromised
\* They hold as well:
\* INVARIANTS CancelledIsShared PeriodsMeet
\* Statements of the repository that the code does not keep; each is violated:
\* INVARIANTS FirstBookingOnce StartIsTold MovedIsNoticed OfferKept
\* PROPERTIES NoneOverBlockedTime
