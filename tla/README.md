# Formal models of the KHS customer and merchant backend

TLA+ specifications of `khs-iat-customer-be`, their model-checking configurations
and machine-checked proofs. The backend takes bookings and card payments for
salons, holds the money until the appointment is over, pays it into the salon's
wallet and pays the wallet out. It is one Express server in several copies, with
Postgres, Redis, Stripe and Airwallex behind it. Nothing in one process keeps two
requests apart: what does is conditional UPDATEs, advisory locks, Redis `NX`
keys and idempotency keys, and that is what is modelled and checked here.

Paths below are relative to the repository; `services/` stands for
`src/services/` and so on.

## How to run

    tlc -config payments.cfg MCBookingPayments      # PROJECT.json names each run's module and .cfg
    tlapm BookingPayments_proofs.tla

## Inventory

| Part | Its state | Operations | Talks to |
|---|---|---|---|
| Booking payments (`services/bookings`, `merchant/bookings/bookingActions`) | `appointments` rows of an order (status, paymentStatus, createdAt), `stripe_payment_intents`, `transactions` | start, settle, abandon, cancel, finish, move | Stripe calls and webhook; gift card and membership rows; the wallet |
| Prices (`paymentQuote`, `cancellationMoney`, `bookingSettlement`, `platformSettings`) | the settings row, the acquisition fee of a salon's client | quote, settle, split | the payments, the launch offers |
| Salon calendar (`slotCheck`, `createBookingService`, `moveBookingService`, `bookingChanges`) | date and time of the rows, advisory locks per salon and day and per order | book, move, bring back, move by the salon | the payments change statuses under it |
| Times and stylists (`slotCheck`, `stylistAssignment`, `nextFreeService`, `blockedTimeService`) | hours, rules, team, blocked time | check, assign, list the free times | the calendar |
| Salon wallet (`bookings/ledger`, `merchant/wallet/withdrawals`, `chargebacks`, `jobs/walletRelease`) | four columns of `business_wallets`, `transactions` with `availableAt` | credit, charge, release, dispute, withdraw, take back | finishing a booking, Stripe's dispute webhook, the hourly job, the payouts |
| Withdrawals and payouts (`withdrawalPayout`, `lib/airwallex`, `lib/stripe/connect`) | `withdrawals` (status, payoutReference), transfers at the providers | approve, send, record, check, webhook | Airwallex's webhook, Stripe's idempotency keys |
| Payout accounts (`payoutMethods`, `payoutConnect`) | the accounts' rows, Stripe's and Airwallex's own account | add, choose, remove, onboard, refresh | the withdrawals, `account.updated` |
| Gift cards, memberships, their expiry | `business_gift_cards`, `merchant_membership_purchases`, a Redis hold per card | buy, complete, spend, change, expire | Stripe, the wallet, bookings |
| Sessions (`lib/redis/sessionStore`, `services/auth`) | Redis: a token per session, a grace mark per used token, the set of a customer's sessions | log in, refresh, log out, sign out everywhere | every request, the sockets |
| Sign-up and codes (`codeStore`, `signupService`, `merchantSignupService`, `googleAuthService`, `referralService`) | Redis codes, tickets, waits and failed logins; the account and referral rows | ask for a code, verify, sign up, reset | email, Google |
| Jobs and webhook inbox (`jobs/scheduler`, `webhooksController`) | Redis slot keys, locks, event keys | tick, claim, run, release; receive, handle, fail | wallet release, expiry, billing sweep; Stripe and Airwallex events |
| Processes (`server.ts`, `config/database`, `lib/redis`) | workers, connection flags, timers | fork, drain, connect, ping | Postgres, Redis |
| Merchant plans (`merchant/billing`, `merchant/setup`, `jobs/merchantBillingSweep`) | `merchant_subscriptions`, `businesses.status`, Stripe's subscriptions | pay, set up, choose a plan, change the card, sweep | Stripe's subscription webhooks |
| Support chat and live updates (`services/support`, `lib/socket`) | `tickets`, `chat_messages`, sockets, a Redis count of them | open, message, close; connect, re-check, announce | the staff backend, the sessions |
| Integrations (`merchant/integrations`) | a salon's credentials, ids of events and invoices on the appointments, a Redis lock | connect, refresh, disconnect, forget, sync | Google Calendar, ZohoBooks, Mailchimp |
| The salon's own records (`merchant/services`, `staff`, `clients`) | services, `service_staff`, packages, a Redis count of emails | create, assign, delete, send | bookings |
| After the appointment (`bookingFeedbackService`, `salonReviewsService`, `refundRequestsService`) | reviews, votes, ratings, refund requests | confirm attendance, rate, vote, reply, ask back | cancellation's refund |
| Customer pages, notifications and email, other settings | rows edited by one owner, or none | reads and single-row writes | |

What is hard here, and what makes each part correct:

- *Interleaving at every await.* The browser, the payment page, two webhooks and
  the salon act on one order at once. Correct means: a payment is settled once,
  leaves KHS once and to one side, and the booking's status agrees with it; a card has
  one buyer, a membership payment one membership, a session one live token, a salon
  one live plan.
- *A provider and a database that change separately.* A payment may be taken while
  its row is being cancelled; a transfer may exist though its answer was lost; a
  calendar event may outlive its booking.
- *Read, then written, without a lock*: tickets counted, a review looked for, a balance
  read by the expiry sweep. Correct means that what is promised survives, or that the
  excess is bounded by the requests that overlap.
- *Time running out under a request*: the 30-minute hold of a checkout or a gift
  card, Stripe's 24 hours for an idempotency key, the 48 hours of an earning, the 120
  seconds of an event's claim, a job's lock, a token's grace.
- *Crashes between a claim and what it was for*: a refund claimed and not made, a
  transfer made and not recorded, a slot claimed and not run.
- *Redelivery and reordering* of webhooks.
- *Arithmetic at its edges*: rounded cents of fees on fees, months added at a month's
  end, a start that falls into the hour the clock skips.

`PROJECT.json` lists every hazard at its line with the property that covers it.

## Modules

| Module | What it is |
|---|---|
| `Escrow` | the promise: a payment's money goes customer -> KHS -> (customer or salon), once |
| `BookingPayments` | every handler that pays for, settles, cancels, finishes or moves an order; implements `Escrow` |
| `SalonCalendar` | taking, moving and bringing back a time, under two advisory locks |
| `SalonWallet` | every statement that changes a salon's wallet |
| `Payouts` | a withdrawal's way from the request to the bank |
| `Prepaid` | gift cards and memberships, from the sale to the last cent or the expiry |
| `Sessions` | sessions and single-use refresh tokens |
| `SignUp` | codes, tickets, sign-up and reset of one email address, the lockout, referrals |
| `MerchantBilling` | a salon's plan, Stripe's events and the daily sweep |
| `Operations` | composes `Scheduler`, `WebhookInbox`, `Connections`, `Cluster` |
| `PricesAndTimes` | composes `BookingMoney`, `SlotRules`, `StartNotices`, `LaunchOffers` |
| `BackOffice` | composes `SupportChat`, `LiveUpdates`, `AppConnections`, `BookingSync`, `PayoutAccounts`, `SalonDesk`, `Feedback` |
| `MC...` | values for the constants of each |
| `..._proofs` | the theorems, of one specification or two: `Operations_proofs` has `SignUp`'s too, `MerchantBilling_proofs` those of `PricesAndTimes`, `Payouts_proofs` those of `BackOffice` |

The parts of the three compositions share no state in the code. A behaviour picks one
of them (`part`) and the others stay as they start, so that a run explores the sum of
their states and not the product; an invariant of a part is an invariant of the
composition.

In all modules a handler is one request, delivery or sweep, and `job[h]` (or `call`,
`delivery`, `task`) holds where it is and what it has read. One SQL statement or
transaction, one Redis command, `MULTI` or script, one call of a provider: each is one
action, and between two anything may happen. External parts (Stripe's side of a
payment, the clock, an expiring key, the staff's backend) are actions of their own.

### BookingPayments

All rows of an order are read and written together by every handler, so an order
has one status. A card payment (`intent`) is a record of its row's status (`db`),
what Stripe says of it (`stripe`) and the gift card's part. A handler is one HTTP
request: `job[h]` holds where it is and what it has read. A database transaction is
one action and so is a Stripe call; between two actions anything may happen.
`startPayment` is thus `StartPayment` (what it reads first), `ListOutstanding` and
`SettleOutstanding` for each pending attempt, then by the method asked for `QuotePayment`,
`ListAttempts` and `CancelAttempt` per earlier attempt, `CreatePaymentIntent` (at
Stripe) and `RecordPaymentIntent` (in the database), or `RedeemGiftCard`,
`RedeemSession`, `ConfirmFreeBooking`. `settlePaidIntent` is `Settle`, used by the
webhook, the browser's completion and the payment page alike; it takes the gift
card's part as the smaller of what was quoted and what is left. Cancelling is a
transaction (`CancelBooking`, `CancelBookingBySalon`) and then, per payment, a
refund; the attempts it clears in the background are the same `CancelAttempt`. Nobody
awaits that work: when its list of attempts cannot be read, the rejection is unhandled and
`server.ts` exits the process (`ServerExits`). `Finish` releases what is held. `Crash`
ends a process at any step; either ends every request the process was serving
(`ServerEnds`), and `cutOff` records the refunds it had still to make. `credited` and
`returned` count how often a payment left KHS, to either side, so that a second time shows.

Left out: amounts beyond the gift card's and the price, the first-booking
discount, the acquisition fee, wording and announcements. Whether Stripe can
still take a payment (open, processing, succeeded, canceled) is external.

### SalonCalendar

A request reads the order outside any transaction (`Begin...`), takes the day's
lock (`LockDay`), the order's (`LockOrder`; not for a new booking), checks the day
(`ClaimSlot`) and writes (`Write...`), each a step. Holds running out, payments
settling, accepting, abandoning, cancelling and finishing are single steps that
take no lock, or only the order's. `held` is the set of checkouts younger than
30 minutes (`bookingHolds.ts`), `Live` is `liveBookingSql`. Booked stands for
Confirmed and Rescheduled, Done for Completed and No Show: the calendar does not
tell them apart. An order has a `Length` (the sum the code asks for) and a
`Longest` (what its rows, all at one start, cover).

Left out: opening hours, notice, blocked time and the choice of a stylist, which
can only refuse (`SlotRefused` may happen whenever the check runs) and, with double
bookings off, never allow what the overlap check refuses; salons that allow double
bookings promise nothing about overlaps. Rules are constants: `prepareSlot` reads
them before the lock.

### SalonWallet

The four columns, in cents, one action per statement or transaction. An earning
with `availableAt` waits (`HoldEnds` is the clock), is due, and is moved by
`WalletRelease`. `PendingAfter` and `BalanceAfter` are the LEAST/GREATEST
arithmetic of `chargeSalonWallet`. A lost dispute is read outside the transaction
(`ReadDisputedPayment`) and charged in it (`RecoverDispute`), by deliveries that may be
repeated or fail. Sums over records are sizes of sets of cents (`Total`), so that they
can be reasoned about without induction over records.

### Payouts

`status` and `ref` are the withdrawal's columns; `transfer` is what the provider
knows, with the key it was made under (`retryOf`). `ClaimWithdrawal`, `SendTransfer`,
`RecordTransfer` and `CompleteLedger` are the steps of a click; `RefreshPayoutStatus` or
`DeliverEvent`, `RetrieveTransfer` and `ApplyTransferStatus` those of a status check. A
provider asked twice under one key it remembers answers with the same transfer;
`KeyExpires` makes it forget. A lost answer is `ProviderFails` after the transfer
was made. `PayByHand` may complete any approved withdrawal, whatever its account and
whatever a click is doing meanwhile; `byHand` remembers which.

### Prepaid

A card is one row for sale to one buyer: `ReadCardForSale`, `HoldCard` (the Redis `NX`
hold) and `ChargeBuyer` start a purchase; `BeginSale`, `SellCard`, `DropHold` and
`RefundUnfulfilled` are `completeGiftCardPurchase`, called by browser and webhook any
number of times. The salon's changes read, look at the hold and write under their WHERE
(`StillAllowed`). Bookings spend with the row locked (`PayWithGiftCard`) or take what is
left of what was quoted (`SettleGiftPart`). A membership's payment is granted under an
advisory lock (`LookForGrant`, `Grant`) and its sessions are redeemed under the row's
(`RowLocked`). The sweep reads (`ReadDue...`) and then claims each (`Expire...`);
`overtaken` is the history of what was spent in between. Left out: packages' texts, the
public listing, the email to a card's recipient.

### Sessions and SignUp

`Sessions` has the Redis keys of one account: a token is live, retired (in its grace)
or stale, `active` are the open sessions and `tracked` is the set log-out-everywhere lists. A refresh is `ReadToken`,
`RetireToken` (the `COMPARE_AND_SET` script), `StoreNextToken`, then the account check;
a login compares the password before it draws a session, so a change of password may
fall in between. Browsers share one cookie between tabs. A lost request or answer is `Crash`. `SignUp` has one email address: a code per purpose with its attempts and
resend wait, the tickets it is exchanged for, the account row as customer, merchant or
unfinished, Google's sign-in as the same two statements, and the referral's check,
insert and payment.

### MerchantBilling

The salon's subscription row, Stripe's subscriptions with their renewals, the webhooks on
their way, and the business's storefront. The module keeps three things apart that the
code has to bring together: what Stripe knows, what its webhooks have told so far, and
what the row says. Asking Stripe and making a subscription are two steps, the sweep's
claim and the suspension are two statements, and the Redis lock around choosing a plan
may run out; `doubt` is the history of what may have let two requests through.
Left out: reminders, the catalogue of plans, prices.

### Operations

`Scheduler`: a call is one `runDue` of a job; it keeps the slot it read, takes the lock
(token and all), claims the slot, runs, and releases only its own lock. Ticks that are
late, overruns and kills are possible at every step. `WebhookInbox`: `ClaimEvent`,
`HandleEvent`, `MarkDone`, or `Unclaim` after a failure of the handler or of the mark
(`MarkFails`), which may fail itself, with the claim expiring under a slow handler; `lapses`
counts the expired claims and the failed marks. Commands ioredis sends a second time after a
reconnection are left out. `Connections`: the start (`connect()`, then a ping, then waiting for
the client's next event), the two watchers, their timers and pings, and outages in any order. `Cluster`: the primary, its workers, `SIGTERM`.

### PricesAndTimes

`BookingMoney` computes in whole cents, every rounding as the code does it; rates are
hundredths of a percent and `Stored` are sets of settings staff may switch between at
any time. `SlotRules` states `NextFreeIsEarliest` against the plain definition: the
earliest time at which the booking check itself would accept. `StartNotices` follows
instants and wall clocks in two-hour units over zones and clock changes; the two-pass
conversion of `timeZone.ts` is an operator. Reading, stamping (`ClaimNotice`, whose answer may be
lost) and the notice's own insert (`NoticeEnds`) are steps that fail apart; `lost` records a
stamp without its notice, the only way a start goes unannounced. `LaunchOffers` counts days from
1 January 2027 and follows `addMonths`. The offer's terms are a variable staff edit
(`EditOffer`), as the code reads them from the settings at each call; `promised` is what the
website showed on the day of approval, its terms included.

### BackOffice

`SupportChat`: tickets from several tabs, the team closing meanwhile; an emit reaches the
sockets of its own process. `LiveUpdates`: sockets of several processes, the session
re-checked every interval, the Redis count and the two announcements, any of which may
fail and is then only logged. `AppConnections`:
sign-in with a single-use state, refresh before expiry, disconnect, forget; a grant names
the tokens it gave, and one without a refresh token (`bare`) is saved beside the token the
row had (`LookForToken`, `ReplaceKeepingToken`). `BookingSync`: a sync loads the booking
once and takes the appointment's lock afterwards; a client without an email gets no
invoice (`SkipInvoice`). `Feedback` has the fee that staff set at the time an early
cancellation keeps, and none when the salon cancels. `PayoutAccounts`, `SalonDesk`, `Feedback`: requests that
check and then write; `PayoutAccounts` has the salon's country too, which decides the rail
and must not change under an account, and `SalonDesk` the services, team, clients, gallery,
booking rules, emails and waitlist of one salon. Two saves of one service may leave the
team of both (`setTeam` takes no lock), and a `DECRBY` whose answer is lost is sent again
by the Redis client (`twice`). Several properties here say what holds *however requests overlap*
and what holds *while they come one at a time*: the second is what the code was written
for, and the runs' commented properties show what overlapping costs.

## Runs

| Run | Instance | Distinct states, depth | Shows |
|---|---|---|---|
| `payments` | 1 order, 1 card payment, 2 requests, a gift card above the price, 1 session, 1 crash | 2,133,141, 44 | `ConfirmedIsBacked`, `FinishedIsSettled`, `RowsAgreeWithStripe`, the refinement `EscrowKept` |
| `payments_live` | 2 orders (one free), 2 card payments, 1 request, fairness | 431,435, 41 | `PaidIsSettled`, `RefundAccounted` |
| `calendar` | 2 orders (a customer's of two services, one of the salon's), 2 days, 2 starts, 2 requests | 1,653,110, 40 | `BookingsApart`, `NoDeadlock` |
| `wallet` | 3 earnings, a fee, 2 withdrawals, 2 lost disputes by 2 deliveries | 10,984, 20 | `Reconciles`, `PendingIsOwed` |
| `payouts` | 3 withdrawals (to Stripe, Airwallex, a bank), any of them by hand, 3 transfers, 2 handlers, 1 crash | 7,157,712, 48 | `StripePaidOnce`, `CompletedIsPaid`, `TakenBackNotSent` |
| `prepaid` | 1 card of 1 or 2, 2 buyers' payments, 1 membership of 2 sessions, 2 handlers, 1 crash | 4,554,942, 55 | `SoldOnce`, `WorthKept`, `OneGrantPerPayment` |
| `sessions` | 2 sessions, 3 tokens, 1 browser, 2 requests, 2 passwords, 1 crash | 4,132,712, 48 | `OneLiveToken`, `NoFalseAlarm`, `OthersSignedOut` |
| `signup` | customer sign-up and reset, 2 codes, 2 tickets, 2 referrals, 2 requests, 1 attempt, 1 failed login | 4,986,401, 62 | `AttemptsBounded`, `EarningsFollowReferrals`, `SignUpNeverOverwrites` |
| `operations` | 2 calls over 3 slots, 2 kills; 3 deliveries of 1 event, 2 lapses; 2 workers, 2 exits; fairness | 129,404, 32 | `SlotOnce`, `HandledOncePerLapse`, `DueIsClaimed`, `ServesAgain` |
| `billing` | 2 Stripe subscriptions, 2 cards, 2 handlers, 2 invoices, 1 crash | 3,674,635, 67 | `OneLivePlan`, `CancelledIsTakenDown` |
| `prices_and_times` | 2 bookings of odd prices under 3 settings; 3 days of 4 slots, 4 rule sets, 2 stylists; 6 zones, 2 runs of the job; 2 salons, 3 sets of terms, 22 dates | 695,330, 48 | `SalonGetsItsDue`, `AcquisitionOnce`, `NextFreeIsEarliest`, `StartToldUnlessLost`, `OfferAsPromised` |
| `back_office` | 2 tabs and sockets on 2 processes, 3 grants, 2 callers, 2 syncs, 2 clerks, 3 photos for 2 places, 3 lead times, 2 forms, 2 voters | 2,510,915, 37 | `OpenBounded`, `EndedSocketsClose`, `CredentialsOfOneGrant`, `AppFollowsBooking`, `PayoutAccountsInOrder`, `SalonRecordsKept`, `FeedbackCounted` |

Every `.cfg` also names, in comments, properties that hold on the same instance and are
not part of its run (the type invariants, `RowsMoveForward`, `OnlyChargesOverdraw`, `OneInTime`
and others).

Why these bounds are enough to meet the cases: two requests are what every race in
the comments is between, and the webhook, the browser and Stripe act besides them;
one crash separates a claim from its effect. With one payment, a second page of the
same order still races over the attempt of the first. Two starts with services of one
and two units give equal starts, partial overlaps and neighbours, and two days let two
moves of one order hold different days' locks. Amounts in the wallet are chosen so that
a dispute is larger than, and equal to, what was earned, and the withdrawals together
are more than any two earnings. Three transfers are the fewest with which a late status
check can meet a retry and cause another. Three tokens let a session be refreshed, its
old token be reused and a second session exist. A code with one attempt is exhausted by
the first of two parallel guesses. Three slots let a run overrun into the next and the one after it be
claimed; three deliveries put two handlers past an expired claim and one after both. Two
subscriptions are what "never duplicated" is about. The prices are odd on purpose: every
percentage of them has a fraction of a cent. What the small instances do not show, the
theorems below do for any number of everything.

*Constraints* keep unrelated matters apart; each is defined, with its reason, in the MC
module. `OneBought` (`prepaid`): the card and the membership, which share only the order of
the sweep, are not both bought. `FewCodes` (`signup`): two codes over all purposes.
`FewMishaps` (`billing`): renewals are not followed together with a crash or a lost answer.
`FewSlots` (`prices_and_times`): a salon without hours follows one set of rules only. `FewMatters`
(`back_office`): one matter of each part at a time, and nothing further once a payout
account is not of the salon's country. *Symmetry* is over identities
that no definition tells apart (requests, tokens, transfers, days of the same rules), and
never in a run with a liveness property.

`CHECK_DEADLOCK FALSE` everywhere: when all bookings are finished and all
money has moved nothing has to happen, and the system rests.

*Fairness.* `payments_live`: a request being served goes on (the event loop runs it), and
the provider delivers an event until it is answered 200, which Stripe and Airwallex do and
`webhooksController.ts:14-16` relies on; nobody is assumed to pay, cancel or come
back, and nothing outside ends a server; that it exits by itself (`ServerExits`) is not
excluded, and `RefundAccounted` names the refunds it cuts off (`cutOff`). `operations`: timers
fire, a command to Redis or the database comes back, a job ends or is killed, a lock
expires, a started worker comes up, the primary replaces one that ended and exits when it
said it would.
No outage is assumed to end: `ServesAgain` is about those that do.

### Where the code does less than its documents say

TLC finds a counterexample for each of these properties under the named `.cfg`, where they
are commented (`signup.cfg` and `payments.cfg` say with which constants). The quoted statements and
the histories are under `findings` in `PROJECT.json`.

| `.cfg` | Property | What happens |
|---|---|---|
| `payments` | `CancelledNotHeld` | a payment Stripe took before the cancel and settled after it stays held for a cancelled booking |
| | `PaidNotChargedAgain` | a booking paid and moved within its 30 minutes (Rescheduled) is offered for payment again |
| | `RescheduledIsPaid` | a waiting reschedule that read Paid rows makes Rescheduled what was cancelled and brought back unpaid |
| | `RefundNotLost` | a server that stops between claiming and making a refund loses it; one that cannot read the attempts to clear stops by itself |
| `payouts` | `SimultaneousPaidOnce` | a late status check puts a retried transfer back, and the next click sends a third |
| | `PaidOneWay` | KHS pays by hand while the salon's transfer is being made; the transfer is made and not recorded |
| | `OutcomeApplied` | an Airwallex event that overtakes the record of its transfer is acknowledged and lost |
| `calendar` | `WholeTimesApart` | all services of an order are written at its one start, so the end of a longer order is free for others |
| `prepaid` | `RefundedNotKept` | one call refunds a card off sale, the other sells it once it is back on sale |
| | `OnlyUnusedIsSplit` | what a booking spends between the expiry sweep's read and its claim is divided as well (`overtaken`; `WorthKept` leaves exactly this out) |
| `sessions` | `SignedOutEverywhere` | a login between the listing and the deletion keeps its session after a reset |
| `signup` | `AccountKeepsItsSites`, `SessionsUsable` | Google's sign-in and a form finish one unfinished row as two kinds of account |
| | `ReferrerPaidOnce` | a link and a code at once make two pending referrals, and both pay |
| `operations` | `OneRunAtATime` | a lock expires under a run that overran |
| | `ClaimedIsRun` | a worker killed after its claim leaves the slot undone |
| | `AckedIsHandled` | a redelivery is answered 200 while the claim of a dead handler lasts |
| | `HandledOnce` | the mark of a handled event fails and the catch frees its key, or the claim runs out under the handler |
| | `StartsAlwaysRecover` | Redis leaves the first ping unanswered on a connection that stays open; the start waits for events that were before |
| | `EachDrained` | a worker forked during the drain is sent no signal |
| `billing` | `PaymentMidSweepWins`, `PaidNotEnded`, `LapsedIsSuspended` | the sweep's claim and suspension are two statements and it asks only our row |
| | `KhsSuspensionKept` | paying lifts a suspension of KHS when the plan had lapsed before |
| | `ChargedOnce`, `NeverDuplicated` | two calls list no subscription before either makes one; an unanswered question counts as none |
| `prices_and_times` | `FirstBookingOnce` | two bookings quoted before either is paid are both discounted |
| | `MovedIsNoticed` | a booking moved after its notice is not announced again |
| | `StartIsTold` | the stamp precedes the notice: a run cut off between, or a failed insert, leaves nobody told |
| | `OfferKept` | the offer's terms are read at each call: editing them changes what an approved salon was shown |
| | `NoneOverBlockedTime` | with double bookings on, a stylist's blocked time is booked over |
| `back_office` | `TwoOpenAtMost`, `OneReviewPerBooking`, `AttendanceToldOnce`, `NoneStranded`, `ReadyToldOnce` | two requests look before either writes |
| | `TabsHearOfClosing`, `OnlineWhileOpen` | tabs of other processes are not told; two announcements arrive in the other order |
| | `FreshConnectionKept`, `OneEventPerAppointment` | a late failure forgets the new access; the event's id was read before the lock |
| | `DisconnectedIsGone` | a sign-in without a refresh token writes the disconnected one back |
| | `DailyLimitKept` | a refused send given back twice makes room for more than the limit |
| | `RemovedNotInUse`, `BookedServiceStays` | the count is taken before the row is removed |
| | `CountryTiedToAccount` | an account is connected while the new address is looked up |
| | `RulesAgree` | sign-up leaves the settings row at its defaults, whatever the policies say |
| | `CopyAgrees`, `ReviewsReachSalon` | the staff row's copy of services, and a review's client id, are written in one place and not the other |

Some of these have weaker cousins in the same `.cfg` that are violated for the same
reason and are not listed again (`EndedStaysEnded`, `NoneOnceClosed`, `EventFollowsBooking`,
`RebookedIsInvoiced`, `RatingKeepsReviews`, `RemovedPhotoGone`). `CodesNotLost` fails too: a request that read the
earlier code deletes the one that replaced it meanwhile, and the person asks for another.

Known, described by no document, and not a property:

- Two payment pages that list the earlier attempts before either records its own
  leave two payments that can both be paid (`cardPaymentSettle.ts:108-116`).
- A gift card or a session is taken although the order was cancelled while its
  attempts were being cleared (`payWithoutCard.ts:41-45`).
- A payment settled after its hold ran out confirms the booking over one that took the
  time meanwhile (`late` in `SalonCalendar`; `confirmOrder` looks at no calendar).
- A Stripe transfer that was made but never recorded may be made again once Stripe has
  forgotten its key, after 24 hours (`StripePaidOnce` says exactly this).
- A dispute lost while the payment is still held takes nothing from the wallet; KHS is
  asked to cancel by hand (`chargebacks.ts:54`).
- After a charge took one earning's pending money, the release of that earning may
  move pending money of another that is still in its 48 hours; the totals
  agree (`Reconciles`), the date is early.

## Proofs

Each holds for every value of the constants that meets the named ASSUMEs, which
TLC also evaluates in every run. Each module shows that an inductive invariant holds
at the start and is kept, by one lemma per action, and draws its theorems from it.

- `BookingPayments_proofs`: `TypesHold` (no gift card or membership is overdrawn),
  `RowsHold`, `RowsOnlyMoveForward`, `BookingsHold`, `EscrowImplemented`. A row that
  says held, released or refunded must be known to be of a payment Stripe took; that is
  inductive only together with: a payment with a row exists at Stripe (`RowsExist`),
  two requests never record the same one (`Recording`), and a payment is credited exactly
  once when its row is released, returned at most once and only when it is refunded, and
  owed by one request that has not made the refund yet (`Claimed`). The refinement follows
  from where these say the money is (`WhereMoneyIs`).
- `SalonCalendar_proofs`: `NoTimeIsTakenTwice` and `SomeoneGoesOn`. `LocksHeld` says who
  holds a lock is past it; `ClaimsHold` says that what the check found free stays
  clear of every rightful booking until the request writes: only the
  holder of the day's lock places a booking on that day, and no other
  change makes a booking rightful that was not. That last part is why a late
  payment has to be an exception.
- `SalonWallet_proofs`: `WalletHolds`, `ChargesTakePendingFirst`. The balances are the
  difference of two sums; a step adds one item to one sum (`TotalAdd`) and the
  columns change by its worth.
- `Payouts_proofs`: `StripeSentOnce`, `PayoutsHold`. The
  strengthening says that what is sent was approved, that a reference is a
  transfer of its own withdrawal, and that a Stripe transfer made is final.
- `Prepaid_proofs`: `CardsSoldOnce`, `GrantedOnce`, `WorthIsKept`. `SoldOnce` needs that a
  payment being sold for is at Stripe (`SalesHold`) and that a sold card is some payment's
  (`PurchasedIsPaid`). That a membership has one row needs its lock (`GrantsHold`): from
  the look to the grant no other request is past the look. The balances
  (`CardsBalance`, `MembershipsBalance`) are kept by the sweep only because what it read
  of a row nobody spent from since is what is left (`SweepHolds`), and by a redemption
  because its sessions stay there while the row is locked (`RedemptionsHold`).
- `Sessions_proofs`: `OneLive`, `FalseAlarmsNeedALoss`, `EarlierPasswordsSignedOut`,
  `LogOutFindsSessions`, `EndedSessionsStayEnded`. Two `StoreNextToken`s of one session would
  make two live tokens; `StoresAlone` says there is one request that may store for a session, and
  that it holds no live token then: it took it away with `COMPARE_AND_SET`, or has just drawn
  the session (`IssuedForOpened`: nobody has a token of a session not opened). No false
  alarm: a token is in one browser (`OneBrowser`) or on its way to one (`Undelivered`), and a
  browser whose token was exchanged waits for the answer that replaces it (`Replaced`), within the
  grace (`SeenInTime`). Earlier passwords: an open session of one is among those some running job
  found or will find (`OldEnding`), because the set that job reads has every open session
  but the ones opened between the read and the deletion (`TrackedOrMissed`, `ClearingFound`).
- `Operations_proofs`: `SlotsRunOnce`, from "whoever runs a slot holds its claim, and it was
  not run before"; `HandledAsOftenAsLapsed`, from a count: the successes of an event, its
  deliveries past their claim and its free key are together no more than one and its lapses. The same file has
  the theorems of `SignUp`: `GuessesAtACodeBounded` (`CodeCounts`: the guesses compared with a
  code and those that will be are no more than its attempts counted, also when it is gone),
  `PasswordsNotOverwritten`, `ReferralsPaidOnce`, `OneCodeIsSentPerWait` and `FailedLoginsBounded`
  (the request that set the wait, and each one still comparing, counts once).
- `MerchantBilling_proofs`, plans: `PlansNotDuplicated`, `CancelledPlansTakenDown`,
  `CancelledStaysToOthers`, `BusinessCreatedOnce`. `OneInv` follows the lock: who is past it holds
  it, who is to create a plan found none alive, who is to save one has created the only one (a
  save that fails is a `doubt`, as a crash is), and otherwise the only one is the row's.
- `MerchantBilling_proofs`, calculations: `SalonPaidToTheCent`, `AcquisitionClaimedOnce`,
  `CancelledDivided`, `StartTold`, `CardShowsFirstTime`, `FoundersGetTheOffer`. Here the lemmas on
  the operators are the argument: a share of at most 100 % rounds to no more than the whole
  (`RoundDivShare`) and the parts of a quote add up to the price for all settings (`QuoteAddsUp`);
  one of the two passes of `timeZone.ts` finds the instant of a wall-clock time, and that is on one of the dates
  the job reads (`TwoPassesFindTheStart`, `NeighbouringDates`); the day walked to by the
  search card is the first with an acceptable time (`FoundIsAcceptable`); adding months to a
  later day ends no earlier (`AddMonthsInOrder`, where `MonthStartsExist` shows that the
  recursive function of the months' first days is one). Induction over the natural numbers is done
  by the least-number principle (`LeastOfNaturals`): a counterexample has a least one.
- `Payouts_proofs`, second half, the parts of `BackOffice`: `OpenTicketsBounded` (open
  tickets and requests about to create one exceed the limit by fewer than the tabs),
  `VotesAndRefundsCounted` (a vote in the Redis set whose count is still to be raised is not
  counted yet; the cancellation's claim is taken once), `SocketsOfEndedSessionsClose` (the time since the
  session ended and the time to the next check stay together within the bound),
  `CredentialsStayTogether` (a grant not yet saved is one caller's, and of no row that is or was;
  only a row made by a grant without a refresh token holds another's),
  `DeskRecordsKept` (one part of `DeskInv` per matter: emails counted cover those being sent
  but for those given back twice,
  a gallery's append is conditional, the lead time in force covers what was saved),
  `AccountsStayInOrder` and `AppsFollowBookings`. The last two, and a part of `DeskRecordsKept`,
  speak of calls that come one at a time: `OneCall` makes at most one of them active, and
  `CallInOrder`, `Follows` say for each of its steps what is still missing.

*Assumptions.* Most say that a null value is none of the values, that bounds are natural numbers
and that sets to be counted are finite. Those with content, all named where they stand:
`NothingIsNoJob`, `NoJobIsNoWork` and `NoJobAssumption` (an idle handler is not at work);
`StoredAssumption` (settings are whole numbers; a missing one is negative, and `numberOr` replaces
every such); `OffsetAssumption` (no clock is a day ahead of UTC, or a day less two hours
behind); `HoursAndRulesAssumption` (opening hours are times of the day, and a card
looks no further ahead than a salon's list may, a year); `CalendarAssumption` (the modelled
calendar reaches the end of every offer: a bound of the model, for a calendar of any length).

*Only model-checked*, because no prover here does fairness or ENABLED: `PaidIsSettled`,
`RefundAccounted`, `DueIsClaimed`, `ServesAgain`. Every other property of a run is a theorem. Of those
that hold on a run's instance and are commented in its `.cfg`, these have no theorem yet: `PeriodsMeet`,
`LapsedHadNoPlan`, `SoldCardIsTheBuyers`, `OneInTime`, `DoneWasHandled`, and the type invariants of
some modules (the inductive invariants have the types they need).

## Not modelled, and what could come next

Left out of what is modelled partly: the tests' master keys; Google's state and PKCE
cookies; the seven days after which the mark of a handled event is forgotten and the
signature checks; billing reminders and the plans' catalogue; assigning staff to a booking
afterwards, which checks no time; rounding of binary floating point beyond the rounding of
the exact product; the waitlist's one insert; fields one owner edits.

Not modelled at all: customer pages (reads, searches, settings of one row with one
writer), notifications and email (fire and forget; where being told once is promised,
the sender's module has it), routing, validation and rate limits, API documentation,
formatting and logging. None keeps state that two actors share.

Worth proving next: `SalonCalendar` composed with `BookingPayments` through `confirmOrder`;
`PeriodsMeet`, that the reporting periods cover every day once; and the safety half of the four
liveness properties, that what is owed is never forgotten (a payment Stripe took has a row that can
still be settled, a slot that is due is claimed or claimable), which leaves to TLC only that the
step is taken.
