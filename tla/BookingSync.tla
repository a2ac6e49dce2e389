------------------------------ MODULE BookingSync ------------------------------
(***************************************************************************)
(* A booking's appointment and the salon's connected app that follows it:  *)
(* an event in Google Calendar, or an invoice in ZohoBooks.  Each change   *)
(* of the booking starts a sync in the background, which loads the booking *)
(* once and works from what it loaded; the lock of an appointment is taken *)
(* after that, and a sync that finds it taken gives up.                    *)
(***************************************************************************)
EXTENDS Naturals, FiniteSets

CONSTANTS
  Apps,       \* "google" and "zoho"
  Syncs,      \* background syncs under way at most (a bound of the model)
  MaxMoves,   \* new times (a bound of the model)
  MaxDocs,    \* events or invoices made (a bound of the model)
  MaxFailures \* calls refused and processes killed (a bound of the model)

ASSUME SyncAssumptions == MaxMoves \in Nat /\ MaxDocs \in Nat /\ MaxFailures \in Nat

VARIABLES
  app,      \* the one connected
  booking,  \* the appointment: its status, time, whether it is paid and its client has an email
  doc,      \* its googleEventId or zohoInvoiceId (0: none)
  made,     \* events or invoices made at the app so far
  calendar, \* events at Google: [id, at]
  invoice,  \* invoices at ZohoBooks: "none", "unpaid", "paid" or "void"
  sync,     \* what each sync is at, and the booking it loaded
  locked,   \* the appointment's lock: held by a sync, by a dead one, or free
  told,     \* the salon was told to credit an invoice
  again,    \* history: the booking was cancelled and brought back
  overlap,  \* history: a sync began while another was under way
  failures, \* calls refused and processes killed so far
  touched   \* history: the owner deleted the event at Google

syncVars == <<app, booking, doc, made, calendar, invoice, sync, locked, told, again, overlap, failures, touched>>
atApps == <<calendar, invoice, made>>
history == <<again, overlap, failures, touched>>

Free == "free"
Dead == "dead"
Kinds == {"confirmed", "rescheduled", "cancelled"}
Statuses == {"Pending", "Confirmed", "Rescheduled", "Cancelled", "Completed"}
NoSync == [pc |-> "idle", kind |-> "confirmed", status |-> "Pending", at |-> 0, paid |-> FALSE, email |-> FALSE, doc |-> 0]

SyncTypeOK ==
  /\ app \in Apps /\ booking \in [status : Statuses, at : 0..MaxMoves, paid : BOOLEAN, email : BOOLEAN]
  /\ doc \in 0..MaxDocs /\ made \in 0..MaxDocs
  /\ calendar \subseteq [id : 1..MaxDocs, at : 0..MaxMoves]
  /\ invoice \in [1..MaxDocs -> {"none", "unpaid", "paid", "void"}]
  /\ locked \in Syncs \union {Free, Dead} /\ told \in BOOLEAN /\ failures \in 0..MaxFailures

Quiet == \A s \in Syncs : sync[s].pc = "idle"
IsOnCalendar(status) == status \in {"Confirmed", "Rescheduled"}
AtSync(s, step) == sync[s].pc = step
Onward(s, step) == sync' = [sync EXCEPT ![s].pc = step]
EndSync(s) == sync' = [sync EXCEPT ![s] = NoSync]
Release(s) == EndSync(s) /\ locked' = Free

-----------------------------------------------------------------------------
(* The booking's changes; announcing one starts its sync and awaits nothing. *)

Start(kind) ==
  /\ \E s \in Syncs :
       /\ AtSync(s, "idle")
       /\ sync' = [sync EXCEPT ![s] = [NoSync EXCEPT !.pc = "load", !.kind = kind]]
  /\ overlap' = (overlap \/ ~Quiet)

\* The client may have been given an email, or lost it, since it was made.
BookingConfirmed ==
  /\ booking.status = "Pending"
  /\ \E paid, email \in BOOLEAN :
       booking' = [booking EXCEPT !.status = "Confirmed", !.paid = paid, !.email = email]
  /\ Start("confirmed")
  /\ UNCHANGED <<app, doc, atApps, locked, told, again, failures, touched>>

\* A salon's pending booking stays pending.
BookingMoved ==
  /\ booking.status \in {"Pending", "Confirmed", "Rescheduled"} /\ booking.at < MaxMoves
  /\ booking' = [booking EXCEPT !.status = IF @ = "Pending" THEN @ ELSE "Rescheduled", !.at = @ + 1]
  /\ Start("rescheduled")
  /\ UNCHANGED <<app, doc, atApps, locked, told, again, failures, touched>>

BookingCancelled ==
  /\ booking.status = "Pending" \/ IsOnCalendar(booking.status)
  /\ booking' = [booking EXCEPT !.status = "Cancelled"]
  /\ Start("cancelled")
  /\ UNCHANGED <<app, doc, atApps, locked, told, again, failures, touched>>

\* Brought back by the customer, to be paid again; nothing is synced until then.
BookingRestored ==
  /\ booking.status = "Cancelled" /\ ~again
  /\ booking' = [booking EXCEPT !.status = "Pending", !.paid = FALSE]
  /\ again' = TRUE
  /\ UNCHANGED <<app, doc, atApps, sync, locked, told, overlap, failures, touched>>

BookingCompleted ==
  /\ IsOnCalendar(booking.status)
  /\ booking' = [booking EXCEPT !.status = "Completed"]
  /\ UNCHANGED <<app, doc, atApps, sync, locked, told, history>>

-----------------------------------------------------------------------------
(* A sync. *)

\* What it goes on to do with what it loaded.
StepAfterLoad(kind) ==
  IF kind = "cancelled" THEN IF booking.status = "Cancelled" /\ doc # 0 THEN "remove" ELSE "idle"
  ELSE IF app = "google"
       THEN IF IsOnCalendar(booking.status) \/ (booking.status = "Pending" /\ doc # 0) THEN "lock" ELSE "idle"
       ELSE IF kind = "confirmed" /\ IsOnCalendar(booking.status) /\ doc = 0 THEN "lock" ELSE "idle"

LoadSyncOrder(s) ==
  /\ AtSync(s, "load")
  /\ IF StepAfterLoad(sync[s].kind) = "idle"
     THEN EndSync(s)
     ELSE sync' = [sync EXCEPT ![s] = [pc |-> StepAfterLoad(sync[s].kind), kind |-> sync[s].kind, status |-> booking.status,
                                       at |-> booking.at, paid |-> booking.paid, email |-> booking.email, doc |-> doc]]
  /\ UNCHANGED <<app, booking, doc, atApps, locked, told, history>>

TakeLock(s) ==
  /\ AtSync(s, "lock")
  /\ IF locked # Free THEN EndSync(s) /\ UNCHANGED locked
     ELSE /\ locked' = s
          /\ Onward(s, IF app = "google" /\ sync[s].doc # 0 THEN "update" ELSE "make")
  /\ UNCHANGED <<app, booking, doc, atApps, told, history>>

\* updateEvent: an event that is gone is made anew.
UpdateEvent(s) ==
  /\ AtSync(s, "update")
  /\ IF \E e \in calendar : e.id = sync[s].doc
     THEN /\ calendar' = {IF e.id = sync[s].doc THEN [e EXCEPT !.at = sync[s].at] ELSE e : e \in calendar}
          /\ Release(s)
     ELSE Onward(s, "make") /\ UNCHANGED <<calendar, locked>>
  /\ UNCHANGED <<app, booking, doc, invoice, made, told, history>>

\* contactFor: the client's contact at ZohoBooks is found by email or made; one
\* kept on the appointment by a sync that failed afterwards needs no email.
ContactFor(s) == sync[s].email \/ (again /\ failures > 0)

\* A client without an email gets no invoice.
SkipInvoice(s) ==
  /\ AtSync(s, "make") /\ app = "zoho" /\ ~sync[s].email
  /\ Release(s)
  /\ UNCHANGED <<app, booking, doc, atApps, told, history>>

\* insertEvent, or the invoice.
MakeDoc(s) ==
  /\ AtSync(s, "make") /\ made < MaxDocs
  /\ app = "google" \/ ContactFor(s)
  /\ made' = made + 1
  /\ sync' = [sync EXCEPT ![s].pc = "keep", ![s].doc = made + 1]
  /\ IF app = "google"
     THEN calendar' = calendar \union {[id |-> made + 1, at |-> sync[s].at]} /\ UNCHANGED invoice
     ELSE invoice' = [invoice EXCEPT ![made + 1] = "unpaid"] /\ UNCHANGED calendar
  /\ UNCHANGED <<app, booking, doc, locked, told, history>>

\* Mutant: the event's id is not kept.
KeepNothing(s) ==
  /\ AtSync(s, "keep")
  /\ Release(s)
  /\ UNCHANGED <<app, booking, doc, atApps, told, history>>

\* Kept on the appointment - an invoice only if it has none by now; then the
\* payment goes on the invoice.
KeepDocId(s) ==
  /\ AtSync(s, "keep")
  /\ doc' = IF app = "google" \/ doc = 0 THEN sync[s].doc ELSE doc
  /\ IF app = "zoho" /\ sync[s].paid THEN Onward(s, "pay") /\ UNCHANGED locked ELSE Release(s)
  /\ UNCHANGED <<app, booking, atApps, told, history>>

\* recordPayment: its failure is logged, and the invoice stays.
RecordPayment(s) ==
  /\ AtSync(s, "pay")
  /\ invoice' = [invoice EXCEPT ![sync[s].doc] = "paid"]
  /\ Release(s)
  /\ UNCHANGED <<app, booking, doc, calendar, made, told, history>>

\* deleteEvent: one already gone counts as deleted.
DeleteEvent(s) ==
  /\ AtSync(s, "remove") /\ app = "google"
  /\ calendar' = {e \in calendar : e.id # sync[s].doc}
  /\ Onward(s, "clear")
  /\ UNCHANGED <<app, booking, doc, invoice, made, locked, told, history>>

ClearEventId(s) ==
  /\ AtSync(s, "clear")
  /\ doc' = IF doc = sync[s].doc THEN 0 ELSE doc
  /\ EndSync(s)
  /\ UNCHANGED <<app, booking, atApps, locked, told, history>>

\* voidCancelled: ZohoBooks refuses once a payment is on it, and the salon is told.
VoidInvoice(s) ==
  /\ AtSync(s, "remove") /\ app = "zoho"
  /\ invoice' = [invoice EXCEPT ![sync[s].doc] = IF @ = "unpaid" THEN "void" ELSE @]
  /\ told' = (told \/ invoice[sync[s].doc] = "paid")
  /\ EndSync(s)
  /\ UNCHANGED <<app, booking, doc, calendar, made, locked, history>>

\* The app refuses a call or cannot be reached; the finally frees the lock.
CallFails(s) ==
  /\ sync[s].pc \in {"load", "update", "make", "pay", "remove"} /\ failures < MaxFailures
  /\ failures' = failures + 1
  /\ EndSync(s)
  /\ locked' = IF locked = s THEN Free ELSE locked
  /\ UNCHANGED <<app, booking, doc, atApps, told, again, overlap, touched>>

\* The process is killed; its lock runs out by itself.
SyncKilled(s) ==
  /\ ~AtSync(s, "idle") /\ failures < MaxFailures
  /\ failures' = failures + 1
  /\ EndSync(s)
  /\ locked' = IF locked = s THEN Dead ELSE locked
  /\ UNCHANGED <<app, booking, doc, atApps, told, again, overlap, touched>>

LockExpires ==
  /\ locked = Dead
  /\ locked' = Free
  /\ UNCHANGED <<app, booking, doc, atApps, sync, told, history>>

\* At Google (external).
OwnerDeletesEvent ==
  /\ calendar # {} /\ ~touched
  /\ \E e \in calendar : calendar' = calendar \ {e}
  /\ touched' = TRUE
  /\ UNCHANGED <<app, booking, doc, invoice, made, sync, locked, told, again, overlap, failures>>

SyncInit ==
  /\ app \in Apps
  /\ booking = [status |-> "Pending", at |-> 0, paid |-> FALSE, email |-> FALSE]
  /\ doc = 0 /\ made = 0 /\ calendar = {} /\ invoice = [i \in 1..MaxDocs |-> "none"]
  /\ sync = [s \in Syncs |-> NoSync] /\ locked = Free /\ told = FALSE
  /\ again = FALSE /\ overlap = FALSE /\ failures = 0 /\ touched = FALSE

SyncNext ==
  \/ BookingConfirmed \/ BookingMoved \/ BookingCancelled \/ BookingRestored \/ BookingCompleted
  \/ \E s \in Syncs :
       \/ LoadSyncOrder(s) \/ TakeLock(s) \/ UpdateEvent(s) \/ SkipInvoice(s) \/ MakeDoc(s) \/ KeepDocId(s) \/ RecordPayment(s)
       \/ DeleteEvent(s) \/ ClearEventId(s) \/ VoidInvoice(s) \/ CallFails(s) \/ SyncKilled(s)
  \/ LockExpires \/ OwnerDeletesEvent

-----------------------------------------------------------------------------
(* Properties. *)

OneEventAtItsTime == {[id |-> doc, at |-> booking.at]}
Standing == {i \in 1..MaxDocs : invoice[i] \in {"unpaid", "paid"}}

\* While changes come one at a time and no call fails, the app follows the
\* booking: a booked appointment has its one event at its time - also when the
\* owner deleted the last one and it was moved since - or its one invoice, paid
\* if it is, and none for a client without an email; a cancelled one has no
\* event, and its invoice is void unless a payment is on it, which the salon is
\* told of.
AppFollowsBooking ==
  (~overlap /\ failures = 0 /\ Quiet) =>
    /\ app = "google" =>
         /\ IsOnCalendar(booking.status) => calendar = OneEventAtItsTime \/ (touched /\ calendar = {})
         /\ booking.status = "Cancelled" => calendar = {} /\ doc = 0
    /\ (app = "zoho" /\ ~again) =>
         /\ IsOnCalendar(booking.status) =>
              IF booking.email THEN Standing = {doc} /\ (invoice[doc] = "paid" <=> booking.paid)
              ELSE Standing = {} /\ doc = 0
         /\ booking.status = "Cancelled" => Standing = {} \/ (Standing = {doc} /\ told)

\* calendarSync.ts: "Two syncs of one appointment at once would create two
\* events" - which the lock is there to prevent.
OneEventPerAppointment == Cardinality(calendar) <= 1

\* calendarSync.ts: an event is "moved when it's rescheduled and removed when
\* it's cancelled".
EventFollowsBooking ==
  (app = "google" /\ failures = 0 /\ ~touched /\ Quiet) =>
    /\ IsOnCalendar(booking.status) => \E e \in calendar : e.at = booking.at
    /\ booking.status = "Cancelled" => calendar = {}

\* booksSync.ts: the invoice comes "with the payment recorded on it when the
\* client paid" - also for a booking that was cancelled and booked again.
RebookedIsInvoiced ==
  (app = "zoho" /\ again /\ booking.paid /\ booking.email /\ IsOnCalendar(booking.status) /\ ~overlap /\ failures = 0 /\ Quiet) =>
    \E i \in Standing : invoice[i] = "paid"
=============================================================================
