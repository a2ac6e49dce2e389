------------------------- MODULE SalonCalendar_proofs -------------------------
(***************************************************************************)
(* Proofs about SalonCalendar, for every set of orders, days, times and    *)
(* requests.  A request that found its time free stays clear of every      *)
(* rightful booking until it writes, because only the holder of the day's  *)
(* lock places a booking on that day, and whatever else happens to a       *)
(* booking never makes one rightful that was not.                          *)
(***************************************************************************)
EXTENDS SalonCalendar, TLAPS

\* Every lock is held by exactly the request that is past it.
LocksHeld ==
  /\ \A h \in Handlers :
       pc[h] \in {"order", "check", "write"} => dayLock[job[h].day] = h
  /\ \A h \in Handlers, d \in Days :
       dayLock[d] = h => pc[h] \in {"order", "check", "write"} /\ job[h].day = d
  /\ \A h \in Handlers, o \in Orders :
       orderLock[o] = h => pc[h] \in {"check", "write"}

\* What claimSlot found still holds when the request writes.
ClaimsHold ==
  ~AllowDoubleBookings =>
    \A h \in Handlers : pc[h] = "write" =>
      \A p \in Orders \ {job[h].order} :
        (Rightful(p) /\ day[p] = job[h].day)
          => Apart(job[h].start, Length[job[h].order], start[p], Longest[p])

IInv == TypeOK /\ LocksHeld /\ ClaimsHold /\ BookingsApart

-----------------------------------------------------------------------------
(* Types. *)

\* A request that is at some step has a job of the right shape.
LEMMA HasJob ==
  ASSUME TypeOK, NEW h \in Handlers, pc[h] # "idle"
  PROVE  /\ job[h] \in Jobs
         /\ job[h].kind \in Kinds /\ job[h].order \in Orders
         /\ job[h].day \in Days /\ job[h].start \in Slots
BY DEF TypeOK, Jobs

\* Asking for a time keeps the types.
LEMMA AskTypes ==
  ASSUME TypeOK, NEW h \in Handlers, NEW o \in Orders, NEW d \in Days, NEW s \in Slots,
         Begin(h, o, d, s)
  PROVE  TypeOK'
<1>1. PICK k \in Kinds : Ask(h, k, o, d, s)
  BY DEF Begin, BeginCreate, BeginMove, BeginReturn, BeginSalonMove, Kinds
<1>2. UNCHANGED orderLock
  BY DEF Begin, BeginCreate, BeginMove, BeginReturn, BeginSalonMove
<1>3. [kind |-> k, order |-> o, day |-> d, start |-> s] \in Jobs
  BY DEF Jobs
<1> QED
  BY <1>1, <1>2, <1>3, NoJobAssumption DEF TypeOK, Ask, orders

\* The end of a transaction keeps the types of the requests.
LEMMA ReleaseTypes ==
  ASSUME TypeOK, NEW h \in Handlers, Release(h)
  PROVE  /\ pc' \in [Handlers -> {"idle", "day", "order", "check", "write"}]
         /\ job' \in [Handlers -> Jobs \union {NoJob}]
         /\ dayLock' \in [Days -> Handlers \union {NoHandler}]
         /\ orderLock' \in [Orders -> Handlers \union {NoHandler}]
         /\ \A g \in Handlers : pc'[g] = "idle" <=> job'[g] = NoJob
BY DEF TypeOK, Release

\* Every step of a transaction keeps the types.
LEMMA TransactTypes ==
  ASSUME TypeOK, NEW h \in Handlers, Transact(h)
  PROVE  TypeOK'
<1>1. CASE LockDay(h)
  BY <1>1, HasJob DEF TypeOK, LockDay, orders
<1>2. CASE LockOrder(h)
  BY <1>2, HasJob DEF TypeOK, LockOrder, orders
<1>3. CASE ClaimSlot(h)
  BY <1>3 DEF TypeOK, ClaimSlot, orders
<1>4. CASE SlotRefused(h) \/ BookingChanged(h)
  <2>1. Release(h) /\ UNCHANGED orders
    BY <1>4 DEF SlotRefused, BookingChanged
  <2> QED  BY <2>1, ReleaseTypes DEF TypeOK, orders
<1>5. ASSUME NEW o \in Orders, o = job[h].order, pc[h] = "write", Place(job[h]), Release(h),
             status' \in [Orders -> Status], held' \subseteq Orders, paid' \subseteq Orders,
             paying' = paying
      PROVE  TypeOK'
  <2>1. /\ day' \in [Orders -> Days] /\ start' \in [Orders -> Slots]
        /\ late' \subseteq Orders
    BY <1>5, HasJob DEF Place, TypeOK
  <2>2. paying' \subseteq Orders \ BySalon
    BY <1>5 DEF TypeOK
  <2> QED  BY <1>5, <2>1, <2>2, ReleaseTypes DEF TypeOK
<1>6. ASSUME pc[h] = "write"
      PROVE  job[h].order \in Orders
  BY <1>6, HasJob
<1>7. CASE WriteNew(h)
  <2>1. status' \in [Orders -> Status] /\ held' \subseteq Orders /\ paid' \subseteq Orders
    BY <1>6, <1>7 DEF WriteNew, TypeOK, Status, HoldAfresh
  <2> QED  BY <1>5, <1>6, <1>7, <2>1 DEF WriteNew
<1>8. CASE WriteMovePaid(h)
  <2>1. status' \in [Orders -> Status] /\ held' \subseteq Orders /\ paid' \subseteq Orders
    BY <1>6, <1>8 DEF WriteMovePaid, TypeOK, Status
  <2> QED  BY <1>5, <1>6, <1>8, <2>1 DEF WriteMovePaid
<1>9. CASE WriteMoveUnpaid(h)
  <2>1. status' \in [Orders -> Status] /\ held' \subseteq Orders /\ paid' \subseteq Orders
    BY <1>6, <1>9 DEF WriteMoveUnpaid, TypeOK, Status, HoldAfresh
  <2> QED  BY <1>5, <1>6, <1>9, <2>1 DEF WriteMoveUnpaid
<1>10. CASE WriteReturn(h)
  <2>1. status' \in [Orders -> Status] /\ held' \subseteq Orders /\ paid' \subseteq Orders
    BY <1>6, <1>10 DEF WriteReturn, TypeOK, Status, HoldAfresh
  <2> QED  BY <1>5, <1>6, <1>10, <2>1 DEF WriteReturn
<1>11. CASE WriteSalonMove(h)
  <2>1. status' \in [Orders -> Status] /\ held' \subseteq Orders /\ paid' \subseteq Orders
    BY <1>11 DEF WriteSalonMove, TypeOK
  <2> QED  BY <1>5, <1>6, <1>11, <2>1 DEF WriteSalonMove
<1> QED
  BY <1>1, <1>2, <1>3, <1>4, <1>7, <1>8, <1>9, <1>10, <1>11 DEF Transact, Write

\* Whatever else happens to a booking keeps the types.
LEMMA ChangeTypes ==
  ASSUME TypeOK, NEW o \in Orders, Change(o)
  PROVE  TypeOK'
<1>1. UNCHANGED requests /\ UNCHANGED <<day, start>>
  BY DEF Change, HoldEnds, StartPayment, ConfirmOrder, PaymentDropped, AcceptBooking,
         ReleaseOrder, CancelBooking, Finish
<1>2. /\ status' \in [Orders -> Status]
      /\ paid' \subseteq Orders /\ held' \subseteq Orders
      /\ paying' \subseteq Orders \ BySalon /\ late' \subseteq Orders
  <2>1. CASE HoldEnds(o) BY <2>1 DEF TypeOK, HoldEnds
  <2>2. CASE StartPayment(o) BY <2>2 DEF TypeOK, StartPayment
  <2>3. CASE ConfirmOrder(o) BY <2>3 DEF TypeOK, ConfirmOrder, Status
  <2>4. CASE PaymentDropped(o) BY <2>4 DEF TypeOK, PaymentDropped
  <2>5. CASE AcceptBooking(o) BY <2>5 DEF TypeOK, AcceptBooking, Status
  <2>6. CASE ReleaseOrder(o) BY <2>6 DEF TypeOK, ReleaseOrder, Status
  <2>7. CASE CancelBooking(o) BY <2>7 DEF TypeOK, CancelBooking, Status
  <2>8. CASE Finish(o) BY <2>8 DEF TypeOK, Finish, Status
  <2> QED
    BY <2>1, <2>2, <2>3, <2>4, <2>5, <2>6, <2>7, <2>8 DEF Change
<1> QED
  BY <1>1, <1>2 DEF TypeOK, requests

LEMMA TypesStep == TypeOK /\ [Next]_vars => TypeOK'
<1> SUFFICES ASSUME TypeOK, [Next]_vars PROVE TypeOK'
  OBVIOUS
<1>1. CASE UNCHANGED vars
  BY <1>1 DEF TypeOK, vars
<1> QED
  BY <1>1, AskTypes, TransactTypes, ChangeTypes DEF Next

-----------------------------------------------------------------------------
(* The locks. *)

LEMMA KeepsLocks ==
  ASSUME TypeOK, LocksHeld, [Next]_vars
  PROVE  LocksHeld'
<1>1. CASE UNCHANGED requests
  BY <1>1 DEF LocksHeld, requests
<1>2. ASSUME NEW h \in Handlers, Release(h)
      PROVE  LocksHeld'
  BY <1>2, HasJob, CalendarAssumptions DEF LocksHeld, Release, TypeOK
<1>3. ASSUME NEW h \in Handlers, LockDay(h)
      PROVE  LocksHeld'
  BY <1>3, HasJob, CalendarAssumptions DEF LocksHeld, LockDay, TypeOK
<1>4. ASSUME NEW h \in Handlers, LockOrder(h)
      PROVE  LocksHeld'
  BY <1>4, HasJob, CalendarAssumptions DEF LocksHeld, LockOrder, TypeOK
<1>5. ASSUME NEW h \in Handlers, ClaimSlot(h)
      PROVE  LocksHeld'
  BY <1>5 DEF LocksHeld, ClaimSlot, TypeOK
<1>6. ASSUME NEW h \in Handlers, NEW o \in Orders, NEW d \in Days, NEW s \in Slots, Begin(h, o, d, s)
      PROVE  LocksHeld'
  <2>1. PICK k \in Kinds : Ask(h, k, o, d, s) /\ UNCHANGED orderLock
    BY <1>6 DEF Begin, BeginCreate, BeginMove, BeginReturn, BeginSalonMove, Kinds
  <2> QED  BY <2>1 DEF LocksHeld, Ask, TypeOK
<1>7. ASSUME NEW h \in Handlers, Write(h) \/ SlotRefused(h)
      PROVE  LocksHeld'
  BY <1>2, <1>7 DEF Write, WriteNew, WriteMovePaid, WriteMoveUnpaid, WriteReturn, WriteSalonMove,
                    BookingChanged, SlotRefused
<1>8. ASSUME NEW o \in Orders, Change(o)
      PROVE  UNCHANGED requests
  BY <1>8 DEF Change, HoldEnds, StartPayment, ConfirmOrder, PaymentDropped, AcceptBooking,
              ReleaseOrder, CancelBooking, Finish
<1> QED
  BY <1>1, <1>3, <1>4, <1>5, <1>6, <1>7, <1>8 DEF Next, Transact, vars, requests

-----------------------------------------------------------------------------
(* Claims and bookings. *)

\* Apart does not care which booking is named first.
LEMMA ApartSymmetric ==
  ASSUME NEW s, NEW n, NEW t, NEW m
  PROVE  Apart(s, n, t, m) <=> Apart(t, m, s, n)
BY DEF Apart

\* A booking clear of a whole time asked for is clear of the rows written for it.
LEMMA RowsFitTheTime ==
  ASSUME NEW o \in Orders, NEW s \in Slots, NEW t \in Slots, NEW p \in Orders,
         Apart(s, Length[o], t, Longest[p])
  PROVE  Apart(s, Longest[o], t, Longest[p])
<1>1. s \in Nat /\ t \in Nat /\ Buffer \in Nat
  BY CalendarAssumptions
<1>2. Longest[o] \in Nat /\ Length[o] \in Nat /\ Longest[p] \in Nat /\ Longest[o] <= Length[o]
  BY CalendarAssumptions
<1> QED
  BY <1>1, <1>2 DEF Apart

\* As long as no booking moves and none becomes rightful, nothing is disturbed.
LEMMA NothingPlaced ==
  ASSUME IInv,
         day' = day, start' = start,
         \A p \in Orders : Rightful(p)' => Rightful(p),
         \A h \in Handlers : pc'[h] = "write" => pc[h] = "write" /\ job'[h] = job[h]
  PROVE  ClaimsHold' /\ BookingsApart'
<1>1. ClaimsHold'
  BY DEF ClaimsHold, IInv
<1>2. BookingsApart'
  BY DEF BookingsApart, IInv
<1> QED  BY <1>1, <1>2

\* A booking placed where it was claimed stays clear of the others, and of what
\* others have claimed: they hold the locks of other days.
LEMMA PlacedAsClaimed ==
  ASSUME IInv, NEW h \in Handlers, pc[h] = "write", Place(job[h]), Release(h),
         \A p \in Orders \ {job[h].order} : Rightful(p)' => Rightful(p)
  PROVE  ClaimsHold' /\ BookingsApart'
<1> DEFINE o == job[h].order
           d == job[h].day
<1>1. o \in Orders /\ d \in Days /\ job[h].start \in Slots
  BY HasJob DEF IInv
<1>2. /\ day'[o] = d /\ start'[o] = job[h].start
      /\ \A p \in Orders \ {o} : day'[p] = day[p] /\ start'[p] = start[p]
  BY <1>1 DEF Place, IInv, TypeOK
<1>3. ClaimsHold'
  <2> SUFFICES ASSUME ~AllowDoubleBookings,
                      NEW g \in Handlers, pc'[g] = "write",
                      NEW p \in Orders, p # job'[g].order,
                      Rightful(p)', day'[p] = job'[g].day
               PROVE  Apart(job'[g].start, Length[job'[g].order], start'[p], Longest[p])
    BY DEF ClaimsHold
  <2>1. g # h /\ pc[g] = "write" /\ job'[g] = job[g]
    BY DEF Release, IInv, TypeOK
  <2>2. dayLock[job[g].day] = g /\ dayLock[d] = h
    BY <2>1 DEF IInv, LocksHeld
  <2>3. job[g].day # d
    BY <2>1, <2>2
  <2>4. p # o
    BY <1>2, <2>1, <2>3
  <2>5. Rightful(p) /\ day'[p] = day[p] /\ start'[p] = start[p]
    BY <1>2, <2>4
  <2> QED  BY <2>1, <2>5 DEF ClaimsHold, IInv
<1>4. ASSUME ~AllowDoubleBookings, NEW p \in Orders, p # o, Rightful(p)', day'[p] = d
      PROVE  Apart(start'[o], Longest[o], start'[p], Longest[p])
  <2>1. Rightful(p) /\ day[p] = d /\ start'[p] = start[p]
    BY <1>2, <1>4
  <2>2. Apart(job[h].start, Length[o], start[p], Longest[p])
    BY <1>4, <2>1 DEF ClaimsHold, IInv
  <2>3. start[p] \in Slots
    BY DEF IInv, TypeOK
  <2> QED  BY <1>1, <1>2, <2>1, <2>2, <2>3, RowsFitTheTime
<1>5. BookingsApart'
  <2> SUFFICES ASSUME ~AllowDoubleBookings, NEW p \in Orders, NEW q \in Orders, p # q,
                      Rightful(p)', Rightful(q)', day'[p] = day'[q]
               PROVE  Apart(start'[p], Longest[p], start'[q], Longest[q])
    BY DEF BookingsApart
  <2>1. CASE p = o
    BY <1>2, <1>4, <2>1
  <2>2. CASE q = o
    BY <1>2, <1>4, <2>2, ApartSymmetric
  <2>3. CASE p # o /\ q # o
    BY <1>2, <2>3 DEF BookingsApart, IInv
  <2> QED  BY <2>1, <2>2, <2>3
<1> QED  BY <1>3, <1>5

LEMMA KeepsWhenWriting ==
  ASSUME IInv, NEW h \in Handlers, Write(h)
  PROVE  ClaimsHold' /\ BookingsApart'
<1>1. CASE BookingChanged(h)
  <2>1. \A g \in Handlers : pc'[g] = "write" => pc[g] = "write" /\ job'[g] = job[g]
    BY <1>1 DEF BookingChanged, Release, IInv, TypeOK
  <2>2. \A p \in Orders : Rightful(p)' => Rightful(p)
    BY <1>1 DEF BookingChanged, orders, Rightful, Live
  <2> QED  BY <1>1, <2>1, <2>2, NothingPlaced DEF BookingChanged, orders
<1>2. CASE WriteNew(h) \/ WriteMovePaid(h) \/ WriteMoveUnpaid(h) \/ WriteReturn(h) \/ WriteSalonMove(h)
  <2>1. pc[h] = "write" /\ Place(job[h]) /\ Release(h)
    BY <1>2 DEF WriteNew, WriteMovePaid, WriteMoveUnpaid, WriteReturn, WriteSalonMove
  <2>2. job[h].order \in Orders
    BY <2>1, HasJob DEF IInv
  <2>3. ASSUME NEW p \in Orders, p # job[h].order
        PROVE  status'[p] = status[p] /\ (p \in held' <=> p \in held) /\ (p \in late' <=> p \in late)
    BY <1>2, <2>1, <2>2, <2>3
       DEF WriteNew, WriteMovePaid, WriteMoveUnpaid, WriteReturn, WriteSalonMove, Place, HoldAfresh, IInv, TypeOK
  <2>4. \A p \in Orders \ {job[h].order} : Rightful(p)' => Rightful(p)
    BY <2>3 DEF Rightful, Live
  <2> QED  BY <2>1, <2>4, PlacedAsClaimed
<1> QED  BY <1>1, <1>2 DEF Write

\* The check: what it finds free is what the claim says.
LEMMA KeepsWhenClaiming ==
  ASSUME IInv, NEW h \in Handlers, ClaimSlot(h)
  PROVE  ClaimsHold' /\ BookingsApart'
<1>1. UNCHANGED <<orders, job>>
  BY DEF ClaimSlot
<1>2. \A p \in Orders : Rightful(p)' <=> Rightful(p)
  BY <1>1 DEF orders, Rightful, Live
<1>3. BookingsApart'
  BY <1>1, <1>2 DEF BookingsApart, orders, IInv
<1>4. ClaimsHold'
  <2> SUFFICES ASSUME ~AllowDoubleBookings,
                      NEW g \in Handlers, pc'[g] = "write",
                      NEW p \in Orders, p # job[g].order,
                      Rightful(p), day[p] = job[g].day
               PROVE  Apart(job[g].start, Length[job[g].order], start[p], Longest[p])
    BY <1>1, <1>2 DEF ClaimsHold, orders
  <2>1. CASE g = h
    BY <2>1 DEF ClaimSlot, IsFree, Rightful
  <2>2. CASE g # h
    BY <2>2 DEF ClaimSlot, ClaimsHold, IInv, TypeOK
  <2> QED  BY <2>1, <2>2
<1> QED  BY <1>3, <1>4

\* Nothing else makes a booking rightful that was not: a payment settled too
\* late is late.
LEMMA KeepsOtherwise ==
  ASSUME IInv, NEW o \in Orders, Change(o)
  PROVE  ClaimsHold' /\ BookingsApart'
<1>1. UNCHANGED requests /\ UNCHANGED <<day, start>>
  BY DEF Change, HoldEnds, StartPayment, ConfirmOrder, PaymentDropped, AcceptBooking,
         ReleaseOrder, CancelBooking, Finish
<1>2. ASSUME NEW p \in Orders, Rightful(p)'
      PROVE  Rightful(p)
  <2>1. CASE HoldEnds(o) BY <1>2, <2>1 DEF HoldEnds, Rightful, Live
  <2>2. CASE StartPayment(o) BY <1>2, <2>2 DEF StartPayment, Rightful, Live
  <2>3. CASE ConfirmOrder(o)
    BY <1>2, <2>3 DEF ConfirmOrder, Rightful, Live, IInv, TypeOK
  <2>4. CASE PaymentDropped(o) BY <1>2, <2>4 DEF PaymentDropped, Rightful, Live
  <2>5. CASE AcceptBooking(o) BY <1>2, <2>5 DEF AcceptBooking, Rightful, Live, IInv, TypeOK
  <2>6. CASE ReleaseOrder(o) BY <1>2, <2>6 DEF ReleaseOrder, Rightful, Live, IInv, TypeOK
  <2>7. CASE CancelBooking(o) BY <1>2, <2>7 DEF CancelBooking, Rightful, Live, IInv, TypeOK
  <2>8. CASE Finish(o) BY <1>2, <2>8 DEF Finish, Rightful, Live, IInv, TypeOK
  <2> QED
    BY <2>1, <2>2, <2>3, <2>4, <2>5, <2>6, <2>7, <2>8 DEF Change
<1> QED
  BY <1>1, <1>2, NothingPlaced DEF requests

LEMMA InvStep == IInv /\ [Next]_vars => IInv'
<1> SUFFICES ASSUME IInv, [Next]_vars PROVE IInv'
  OBVIOUS
<1>1. TypeOK' /\ LocksHeld'
  BY TypesStep, KeepsLocks DEF IInv
<1>2. ASSUME UNCHANGED orders,
             \A g \in Handlers : pc'[g] = "write" => pc[g] = "write" /\ job'[g] = job[g]
      PROVE  ClaimsHold' /\ BookingsApart'
  <2>1. \A p \in Orders : Rightful(p)' => Rightful(p)
    BY <1>2 DEF orders, Rightful, Live
  <2> QED  BY <1>2, <2>1, NothingPlaced DEF orders
<1>3. ASSUME UNCHANGED vars
      PROVE  ClaimsHold' /\ BookingsApart'
  BY <1>2, <1>3 DEF vars, orders
<1>4. ASSUME NEW h \in Handlers, NEW o \in Orders, NEW d \in Days, NEW s \in Slots, Begin(h, o, d, s)
      PROVE  ClaimsHold' /\ BookingsApart'
  <2>1. PICK k \in Kinds : Ask(h, k, o, d, s)
    BY <1>4 DEF Begin, BeginCreate, BeginMove, BeginReturn, BeginSalonMove, Kinds
  <2>2. \A g \in Handlers : pc'[g] = "write" => pc[g] = "write" /\ job'[g] = job[g]
    BY <2>1 DEF Ask, IInv, TypeOK
  <2> QED  BY <1>2, <2>1, <2>2 DEF Ask
<1>5. ASSUME NEW h \in Handlers, LockDay(h) \/ LockOrder(h) \/ SlotRefused(h)
      PROVE  ClaimsHold' /\ BookingsApart'
  <2>1. \A g \in Handlers : pc'[g] = "write" => pc[g] = "write" /\ job'[g] = job[g]
    BY <1>5 DEF LockDay, LockOrder, SlotRefused, Release, IInv, TypeOK
  <2> QED  BY <1>2, <1>5, <2>1 DEF LockDay, LockOrder, SlotRefused
<1>6. ClaimsHold' /\ BookingsApart'
  BY <1>3, <1>4, <1>5, KeepsWhenWriting, KeepsWhenClaiming, KeepsOtherwise DEF Next, Transact
<1> QED  BY <1>1, <1>6 DEF IInv

LEMMA InvInit == Init => IInv
<1> SUFFICES ASSUME Init PROVE IInv
  OBVIOUS
<1>1. TypeOK
  BY DEF Init, TypeOK, Status
<1>2. LocksHeld
  BY CalendarAssumptions DEF Init, LocksHeld
<1>3. ClaimsHold
  BY DEF Init, ClaimsHold
<1>4. BookingsApart
  BY DEF Init, BookingsApart, Rightful, Live
<1> QED  BY <1>1, <1>2, <1>3, <1>4 DEF IInv

THEOREM InvAlways == Spec => []IInv
BY InvInit, InvStep, PTL DEF Spec

\* Every request, lock and order stays of its type.
THEOREM TypesHold == Spec => []TypeOK
<1>1. IInv => TypeOK
  BY DEF IInv
<1> QED  BY <1>1, InvAlways, PTL

\* No two bookings share time, nor the buffer, on a salon's day: lockSalonDay
\* and claimSlot keep them apart, but for a payment that settled too late.
THEOREM NoTimeIsTakenTwice == Spec => []BookingsApart
<1>1. IInv => BookingsApart
  BY DEF IInv
<1> QED  BY <1>1, InvAlways, PTL

\* Requests never all wait for one another: whoever holds an order's lock is
\* past its last wait, and whoever holds a day's waits at most for such a one.
THEOREM SomeoneGoesOn == Spec => []NoDeadlock
<1>1. IInv => NoDeadlock
  <2> SUFFICES ASSUME IInv, NEW h \in Handlers, pc[h] # "idle"
               PROVE  \E g \in Handlers : pc[g] # "idle" /\ ~Waiting(g)
    BY DEF NoDeadlock
  <2>1. ASSUME NEW g \in Handlers, pc[g] = "order"
        PROVE  \E k \in Handlers : pc[k] # "idle" /\ ~Waiting(k)
    <3>1. CASE orderLock[job[g].order] \in {NoHandler, g}
      BY <2>1, <3>1 DEF Waiting
    <3>2. CASE orderLock[job[g].order] \notin {NoHandler, g}
      <4>1. PICK k \in Handlers : orderLock[job[g].order] = k
        BY <2>1, <3>2, HasJob DEF IInv, TypeOK
      <4>2. pc[k] \in {"check", "write"}
        BY <2>1, <4>1, HasJob DEF IInv, LocksHeld
      <4> QED  BY <4>2 DEF Waiting
    <3> QED  BY <3>1, <3>2
  <2>2. CASE ~Waiting(h)
    BY <2>2
  <2>3. CASE pc[h] = "order"
    BY <2>1, <2>3
  <2>4. CASE pc[h] = "day" /\ dayLock[job[h].day] # NoHandler
    <3>1. PICK g \in Handlers : dayLock[job[h].day] = g
      BY <2>4, HasJob DEF IInv, TypeOK
    <3>2. pc[g] \in {"order", "check", "write"}
      BY <2>4, <3>1, HasJob DEF IInv, LocksHeld
    <3>3. CASE pc[g] = "order"
      BY <2>1, <3>3
    <3>4. CASE pc[g] \in {"check", "write"}
      BY <3>4 DEF Waiting
    <3> QED  BY <3>2, <3>3, <3>4
  <2> QED  BY <2>2, <2>3, <2>4 DEF Waiting
<1> QED  BY <1>1, InvAlways, PTL
=============================================================================
