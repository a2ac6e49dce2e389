----------------------------- MODULE SalonCalendar -----------------------------
(***************************************************************************)
(* One salon's calendar: taking a time for a new booking, moving a booking *)
(* and bringing a cancelled one back, while checkouts run out of time, are *)
(* paid late, cancelled and finished.                                      *)
(*                                                                         *)
(* A request reads the booking first, outside any transaction.  Then, in   *)
(* one transaction, it takes the advisory lock of the salon's day, the     *)
(* lock of the order if there is one to move, checks the time against the  *)
(* day's rows and writes.  Each of these is a step here, so that requests  *)
(* interleave between them; locks are let go with the last step.           *)
(*                                                                         *)
(* An order is one appointment row per service, and every row is given the *)
(* order's start: the time asked for is the sum of the services, Length,   *)
(* but the rows together cover only the longest of them, Longest.          *)
(***************************************************************************)
EXTENDS Integers

CONSTANTS
  Orders,
  BySalon,   \* orders the salon makes for its own clients: no customer account
  Length,    \* minutes of all services of an order
  Longest,   \* minutes of its longest service
  Days,
  Slots,     \* start times, in minutes since midnight
  Buffer,    \* minutes the salon keeps free between bookings
  AllowDoubleBookings,
  Handlers,  \* requests being served
  NoHandler,
  NoJob

ASSUME CalendarAssumptions ==
  /\ BySalon \subseteq Orders
  /\ Length \in [Orders -> Nat]
  /\ Longest \in [Orders -> Nat]
  /\ \A o \in Orders : Longest[o] <= Length[o]
  /\ Slots \subseteq Nat
  /\ Buffer \in Nat
  /\ NoHandler \notin Handlers

\* What a request asks for.  Moving is split by wasPaid, as it read the rows.
Kinds == {"create", "move paid", "move unpaid", "return", "salon move"}
Jobs == [kind : Kinds, order : Orders, day : Days, start : Slots]

ASSUME NoJobAssumption == NoJob \notin Jobs

VARIABLES
  status,    \* of the order's rows; Booked is Confirmed or Rescheduled, Done is Completed or No Show
  day, start,
  paid,      \* orders whose rows say Paid
  held,      \* customers' checkouts less than 30 minutes old
  paying,    \* orders with a payment started that may still be settled
  late,      \* history: orders confirmed by a payment after their hold ran out
  pc, job,   \* what each request does next, and what it asks for
  dayLock, orderLock  \* the handler holding each advisory lock

orders == <<status, day, start, paid, held, paying, late>>
requests == <<pc, job, dayLock, orderLock>>
vars == <<status, day, start, paid, held, paying, late, pc, job, dayLock, orderLock>>

Status == {"None", "Pending", "Booked", "Cancelled", "Done"}

TypeOK ==
  /\ status \in [Orders -> Status]
  /\ day \in [Orders -> Days]
  /\ start \in [Orders -> Slots]
  /\ paid \subseteq Orders
  /\ held \subseteq Orders
  /\ paying \subseteq Orders \ BySalon
  /\ late \subseteq Orders
  /\ pc \in [Handlers -> {"idle", "day", "order", "check", "write"}]
  /\ job \in [Handlers -> Jobs \union {NoJob}]
  /\ dayLock \in [Days -> Handlers \union {NoHandler}]
  /\ orderLock \in [Orders -> Handlers \union {NoHandler}]
  /\ \A h \in Handlers : pc[h] = "idle" <=> job[h] = NoJob

Init ==
  /\ status = [o \in Orders |-> "None"]
  /\ \E d \in Days, s \in Slots :
       /\ day = [o \in Orders |-> d]
       /\ start = [o \in Orders |-> s]
  /\ paid = {} /\ held = {} /\ paying = {} /\ late = {}
  /\ pc = [h \in Handlers |-> "idle"]
  /\ job = [h \in Handlers |-> NoJob]
  /\ dayLock = [d \in Days |-> NoHandler]
  /\ orderLock = [o \in Orders |-> NoHandler]

StillBooked(o) == status[o] \in {"Pending", "Booked"}

\* liveBookingSql: the order's rows take up time.
Live(o) ==
  \/ status[o] \in {"Booked", "Done"}
  \/ status[o] = "Pending" /\ o \in held \union BySalon

\* A customer's checkout, whose time runs from now.
HoldAfresh(o) == IF o \in BySalon THEN held ELSE held \union {o}

\* Minutes n from s and m from t keep the buffer between them.
Apart(s, n, t, m) == s >= t + m + Buffer \/ t >= s + n + Buffer

-----------------------------------------------------------------------------
(* A request, up to its transaction. *)

Ask(h, kind, o, d, s) ==
  /\ pc[h] = "idle"
  /\ pc' = [pc EXCEPT ![h] = "day"]
  /\ job' = [job EXCEPT ![h] = [kind |-> kind, order |-> o, day |-> d, start |-> s]]
  /\ UNCHANGED <<orders, dayLock>>

\* createBooking and createSalonBooking; no two requests are given one order id.
BeginCreate(h, o, d, s) ==
  /\ status[o] = "None"
  /\ \A g \in Handlers : pc[g] # "idle" => job[g].order # o
  /\ Ask(h, "create", o, d, s)
  /\ UNCHANGED orderLock

\* rescheduleBooking, of a booking on the calendar.
BeginMove(h, o, d, s) ==
  /\ StillBooked(o)
  /\ Ask(h, IF o \in paid THEN "move paid" ELSE "move unpaid", o, d, s)
  /\ UNCHANGED orderLock

\* rescheduleBooking or restoreBooking, of a cancelled one.
BeginReturn(h, o, d, s) ==
  /\ status[o] = "Cancelled"
  /\ Ask(h, "return", o, d, s)
  /\ UNCHANGED orderLock

\* Mutant: the salon's move locks the order before it reads it.
BeginSalonMoveLocked(h, o, d, s) ==
  /\ StillBooked(o)
  /\ status[o] = "Pending" => o \in BySalon
  /\ orderLock[o] = NoHandler
  /\ Ask(h, "salon move", o, d, s)
  /\ orderLock' = [orderLock EXCEPT ![o] = h]

\* rescheduleSalonBooking: not while the customer is paying.
BeginSalonMove(h, o, d, s) ==
  /\ StillBooked(o)
  /\ status[o] = "Pending" => o \in BySalon
  /\ Ask(h, "salon move", o, d, s)
  /\ UNCHANGED orderLock

-----------------------------------------------------------------------------
(* Its transaction. *)

\* The end of the transaction, committed or not, lets the locks go.
Release(h) ==
  /\ pc' = [pc EXCEPT ![h] = "idle"]
  /\ job' = [job EXCEPT ![h] = NoJob]
  /\ dayLock' = [d \in Days |-> IF dayLock[d] = h THEN NoHandler ELSE dayLock[d]]
  /\ orderLock' = [o \in Orders |-> IF orderLock[o] = h THEN NoHandler ELSE orderLock[o]]

\* Mutant: the lock is the order's own, not the day's.
LockDayShared(h) ==
  /\ pc[h] = "day"
  /\ pc' = [pc EXCEPT ![h] = IF job[h].kind = "create" THEN "check" ELSE "order"]
  /\ UNCHANGED <<orders, job, dayLock, orderLock>>

LockDay(h) ==
  /\ pc[h] = "day"
  /\ dayLock[job[h].day] = NoHandler
  /\ dayLock' = [dayLock EXCEPT ![job[h].day] = h]
  /\ pc' = [pc EXCEPT ![h] = IF job[h].kind = "create" THEN "check" ELSE "order"]
  /\ UNCHANGED <<orders, job, orderLock>>

\* A lock its own transaction holds already does not make it wait.
LockOrder(h) ==
  /\ pc[h] = "order"
  /\ orderLock[job[h].order] \in {NoHandler, h}
  /\ orderLock' = [orderLock EXCEPT ![job[h].order] = h]
  /\ pc' = [pc EXCEPT ![h] = "check"]
  /\ UNCHANGED <<orders, job, dayLock>>

\* No row of another live order of that day is in the way.
IsFree(o, d, s) ==
  \A p \in Orders \ {o} :
    Live(p) /\ day[p] = d => Apart(s, Length[o], start[p], Longest[p])

\* claimSlot finds the time free.
ClaimSlot(h) ==
  /\ pc[h] = "check"
  /\ AllowDoubleBookings \/ IsFree(job[h].order, job[h].day, job[h].start)
  /\ pc' = [pc EXCEPT ![h] = "write"]
  /\ UNCHANGED <<orders, job, dayLock, orderLock>>

\* It refuses, because of another booking or for a reason the data here leaves
\* out: opening hours, notice, blocked time, the stylist asked for.
SlotRefused(h) ==
  /\ pc[h] = "check"
  /\ Release(h)
  /\ UNCHANGED orders

Place(j) ==
  /\ day' = [day EXCEPT ![j.order] = j.day]
  /\ start' = [start EXCEPT ![j.order] = j.start]
  /\ late' = late \ {j.order}

WriteNew(h) ==
  /\ pc[h] = "write" /\ job[h].kind = "create"
  /\ LET o == job[h].order IN
     /\ status' = [status EXCEPT ![o] = IF o \in BySalon THEN "Booked" ELSE "Pending"]
     /\ held' = HoldAfresh(o)
  /\ Place(job[h])
  /\ Release(h)
  /\ UNCHANGED <<paid, paying>>

\* A paid order is Rescheduled whatever it became since it was read.
WriteMovePaid(h) ==
  /\ pc[h] = "write" /\ job[h].kind = "move paid"
  /\ LET o == job[h].order IN
     /\ StillBooked(o)
     /\ status' = [status EXCEPT ![o] = "Booked"]
     /\ held' = held \ {o}
  /\ Place(job[h])
  /\ Release(h)
  /\ UNCHANGED <<paid, paying>>

\* An unpaid one keeps its status and is held afresh.
WriteMoveUnpaid(h) ==
  /\ pc[h] = "write" /\ job[h].kind = "move unpaid"
  /\ LET o == job[h].order IN
     /\ StillBooked(o)
     /\ held' = IF status[o] = "Pending" THEN HoldAfresh(o) ELSE held
  /\ Place(job[h])
  /\ Release(h)
  /\ UNCHANGED <<status, paid, paying>>

WriteReturn(h) ==
  /\ pc[h] = "write" /\ job[h].kind = "return"
  /\ LET o == job[h].order IN
     /\ status[o] = "Cancelled"
     /\ status' = [status EXCEPT ![o] = "Pending"]
     /\ paid' = paid \ {o}
     /\ held' = HoldAfresh(o)
  /\ Place(job[h])
  /\ Release(h)
  /\ UNCHANGED paying

\* The salon's move leaves a Pending order Pending, and its hold as it was.
WriteSalonMove(h) ==
  /\ pc[h] = "write" /\ job[h].kind = "salon move"
  /\ StillBooked(job[h].order)
  /\ Place(job[h])
  /\ Release(h)
  /\ UNCHANGED <<status, paid, held, paying>>

\* The rows are not in the status they were read in: nothing is written.
BookingChanged(h) ==
  /\ pc[h] = "write" /\ job[h].kind # "create"
  /\ IF job[h].kind = "return" THEN status[job[h].order] # "Cancelled"
                               ELSE ~StillBooked(job[h].order)
  /\ Release(h)
  /\ UNCHANGED orders

-----------------------------------------------------------------------------
(* What else happens to a booking meanwhile. *)

\* Thirty minutes pass (the clock).
HoldEnds(o) ==
  /\ o \in held
  /\ held' = held \ {o}
  /\ UNCHANGED <<status, day, start, paid, paying, late, requests>>

\* startPayment, up to the payment Stripe may take.
StartPayment(o) ==
  /\ o \notin BySalon
  /\ status[o] = "Pending" /\ o \in held
  /\ paying' = paying \union {o}
  /\ UNCHANGED <<status, day, start, paid, held, late, requests>>

\* confirmOrder, when the payment settles: no lock, and no second look at the
\* time.
ConfirmOrder(o) ==
  /\ o \in paying
  /\ paying' = paying \ {o}
  /\ IF status[o] = "Cancelled"
       THEN UNCHANGED <<status, paid, held, late>>
       ELSE /\ status' = [status EXCEPT ![o] = "Booked"]
            /\ paid' = paid \union {o}
            /\ held' = held \ {o}
            /\ late' = IF Live(o) THEN late ELSE late \union {o}
  /\ UNCHANGED <<day, start, requests>>

\* The payment is given up (external: Stripe or cancelUnpaidAttempts).
PaymentDropped(o) ==
  /\ o \in paying
  /\ paying' = paying \ {o}
  /\ UNCHANGED <<status, day, start, paid, held, late, requests>>

\* acceptBooking: one of the salon's own that is Pending; no lock.
AcceptBooking(o) ==
  /\ status[o] = "Pending" /\ o \in BySalon
  /\ status' = [status EXCEPT ![o] = "Booked"]
  /\ UNCHANGED <<day, start, paid, held, paying, late, requests>>

\* releaseOrder: an unpaid checkout is left or has run out; no lock.
ReleaseOrder(o) ==
  /\ status[o] = "Pending" /\ o \notin BySalon \union paid
  /\ status' = [status EXCEPT ![o] = "Cancelled"]
  /\ held' = held \ {o}
  /\ UNCHANGED <<day, start, paid, paying, late, requests>>

\* cancelBooking, the customer's or the salon's; the salon's leaves the rows Paid.
CancelBooking(o) ==
  /\ StillBooked(o)
  /\ orderLock[o] = NoHandler
  /\ status' = [status EXCEPT ![o] = "Cancelled"]
  /\ paid' \in {paid, paid \ {o}}
  /\ held' = held \ {o}
  /\ UNCHANGED <<day, start, paying, late, requests>>

\* completeBooking and markNoShow.
Finish(o) ==
  /\ status[o] = "Booked"
  /\ orderLock[o] = NoHandler
  /\ status' = [status EXCEPT ![o] = "Done"]
  /\ paid' = paid \union {o}
  /\ UNCHANGED <<day, start, held, paying, late, requests>>

-----------------------------------------------------------------------------

Begin(h, o, d, s) ==
  BeginCreate(h, o, d, s) \/ BeginMove(h, o, d, s) \/ BeginReturn(h, o, d, s) \/ BeginSalonMove(h, o, d, s)

Write(h) ==
  WriteNew(h) \/ WriteMovePaid(h) \/ WriteMoveUnpaid(h) \/ WriteReturn(h) \/ WriteSalonMove(h) \/ BookingChanged(h)

Transact(h) == LockDay(h) \/ LockOrder(h) \/ ClaimSlot(h) \/ SlotRefused(h) \/ Write(h)

Change(o) ==
  \/ HoldEnds(o) \/ StartPayment(o) \/ ConfirmOrder(o) \/ PaymentDropped(o)
  \/ AcceptBooking(o) \/ ReleaseOrder(o) \/ CancelBooking(o) \/ Finish(o)

Next ==
  \/ \E h \in Handlers :
       Transact(h) \/ \E o \in Orders, d \in Days, s \in Slots : Begin(h, o, d, s)
  \/ \E o \in Orders : Change(o)

Spec == Init /\ [][Next]_vars

-----------------------------------------------------------------------------
(* Properties. *)

\* On the calendar, other than by a payment that came too late.
Rightful(o) == Live(o) /\ o \notin late

\* Two bookings on the calendar never share a minute, nor the buffer, as far as
\* their rows go; only a payment settled after its hold ran out can put one on
\* another's time.  (lockSalonDay and claimSlot, against every other writer.)
BookingsApart ==
  ~AllowDoubleBookings =>
    \A o, p \in Orders :
      (o # p /\ Rightful(o) /\ Rightful(p) /\ day[o] = day[p])
        => Apart(start[o], Longest[o], start[p], Longest[p])

Waiting(h) ==
  \/ pc[h] = "day" /\ dayLock[job[h].day] # NoHandler
  \/ pc[h] = "order" /\ orderLock[job[h].order] \notin {NoHandler, h}

\* Requests never all wait for each other's locks: customers' moves and the
\* salon's take the day's lock and then the order's.
NoDeadlock ==
  (\E h \in Handlers : pc[h] # "idle") => \E h \in Handlers : pc[h] # "idle" /\ ~Waiting(h)

\* README: "created under a Postgres advisory lock per salon and day so two
\* customers can't take the same time".  Of the whole time each booking asked
\* for, not of its rows: an order of two services leaves its tail to others.
WholeTimesApart ==
  \A o, p \in Orders :
    (o # p /\ Rightful(o) /\ Rightful(p) /\ day[o] = day[p])
      => start[o] >= start[p] + Length[p] \/ start[p] >= start[o] + Length[o]
=============================================================================
