SPECIFICATION OfficeSpec
CONSTANTS
  tab1 = tab1
  tab2 = tab2
  near = near
  far = far
  k1 = k1
  k2 = k2
  Tabs = {tab1, tab2}
  ProcessOf <- TwoProcesses
  MaxTickets = 4
  MaxOpen = 2
  Sockets = {k1, k2}
  On <- SocketProcesses
  Interval = 2
  MaxMissed = 1
  MaxLost = 1
  States = {x1, x2, x3}
  Grants = {g1, g2, g3}
  NoGrant = NoGrant
  Callers = {a1, a2}
  Apps = {"google", "zoho"}
  Syncs = {s1, s2}
  MaxMoves = 1
  MaxDocs = 2
  MaxFailures = 1
  MaxMethods = 2
  MaxAccounts = 2
  Currencies = {eur, usd}
  NoCurrency = NoCurrency
  Clients = {c1, c2}
  Services = {cut, dye}
  Stylists = {ann}
  NoService = NoService
  Recipients = {1, 3}
  Quota = 4
  Records = {1, 2}
  Emails = {jo, sam}
  NoEmail = NoEmail
  Photos = {p1, p2, p3}
  NoPhoto = NoPhoto
  MaxGallery = 2
  Leads = {30, 90, 120}
  Clerks = {d1, d2}
  MaxDays = 1
  MaxTwice = 3
  Orders = {o1, o2}
  NoOrder = NoOrder
  Forms = {f1, f2}
  EarlierReview = EarlierReview
  Voters = {v1, v2}
  Asks = {q1, q2}
  Paid = 3
  Fees = {1, 3}
  MaxLostAnswers = 1
SYMMETRY Interchangeable
CONSTRAINT FewMatters
CHECK_DEADLOCK FALSE
INVARIANTS OpenBounded EndedSocketsClose CredentialsOfOneGrant AppFollowsBooking PayoutAccountsInOrder SalonRecordsKept FeedbackCounted
\* They hold as well:
\* INVARIANTS ChatTypeOK LiveTypeOK AppTypeOK SyncTypeOK AccountTypeOK DeskTypeOK FeedbackTypeOK
\* Statements of the repository that the code does not keep; each is violated:
\* INVARIANTS TwoOpenAtMost TabsHearOfClosing NoneOnceClosed OnlineWhileOpen DisconnectedIsGone OneEventPerAppointment EventFollowsBooking RebookedIsInvoiced NoneStranded RemovedNotInUse ReadyToldOnce BookedServiceStays CopyAgrees RulesAgree RemovedPhotoGone DailyLimitKept CountryTiedToAccount OneReviewPerBooking ReviewsReachSalon AttendanceToldOnce
\* PROPERTIES FreshConnectionKept RatingKeepsReviews
