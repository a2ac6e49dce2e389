------------------------------ MODULE SupportChat ------------------------------
(***************************************************************************)
(* One customer's support conversations, used from several tabs, each      *)
(* connected to some process of the cluster.  A request reads, then writes *)
(* without a lock, and the team closes and answers tickets meanwhile from  *)
(* their own backend.                                                      *)
(***************************************************************************)
EXTENDS Naturals, FiniteSets

CONSTANTS
  Tabs,
  ProcessOf,   \* the process each tab's requests and socket are served by
  MaxTickets,  \* tickets numbered 1.. (a bound of the model)
  MaxOpen      \* MAX_OPEN_TICKETS

ASSUME ChatAssumptions == MaxTickets \in Nat /\ MaxOpen \in Nat \ {0} /\ IsFiniteSet(Tabs)

VARIABLES
  ticket,    \* "none", "open" or "closed"
  assigned,  \* the tickets with an assignedAdminId
  asking,    \* what each tab's request is at
  shown,     \* the tickets each tab shows as open
  late       \* history: a ticket took a customer's message once closed

chatVars == <<ticket, assigned, asking, shown, late>>

Tickets == 1..MaxTickets
NoTicket == 0
Idle == [pc |-> "idle", ticket |-> NoTicket, send |-> FALSE, staff |-> FALSE]

ChatTypeOK ==
  /\ ticket \in [Tickets -> {"none", "open", "closed"}]
  /\ assigned \subseteq Tickets /\ late \in BOOLEAN
  /\ asking \in [Tabs -> [pc : {"idle", "create", "save", "close"}, ticket : Tickets \union {NoTicket}, send : BOOLEAN, staff : BOOLEAN]]
  /\ shown \in [Tabs -> SUBSET Tickets]

Status(s) == {t \in Tickets : ticket[t] = s}
AtChat(c, step) == asking[c].pc = step
Ask(c, step, t, send, staff) == asking' = [asking EXCEPT ![c] = [pc |-> step, ticket |-> t, send |-> send, staff |-> staff]]
Answered(c) == asking' = [asking EXCEPT ![c] = Idle]

\* listOpenTickets, and listTicketHistory with it.
LoadTickets(c) ==
  /\ AtChat(c, "idle")
  /\ shown' = [shown EXCEPT ![c] = Status("open")]
  /\ UNCHANGED <<ticket, assigned, asking, late>>

\* Mutant: one conversation more is let through.
WithinLimitOffByOne == Cardinality(Status("open")) <= MaxOpen

\* Counted before the row is created.
WithinLimit == Cardinality(Status("open")) < MaxOpen

StartConversation(c) ==
  /\ AtChat(c, "idle") /\ WithinLimit
  /\ \E staff \in BOOLEAN : Ask(c, "create", NoTicket, FALSE, staff)
  /\ UNCHANGED <<ticket, assigned, shown, late>>

\* The next number of the sequence.  For a message the conversation is opened
\* for nobody yet, so without a receiver the message is refused - and the
\* ticket stays.
CreateTicket(c) ==
  /\ AtChat(c, "create")
  /\ \E t \in Tickets :
       /\ ticket[t] = "none" /\ \A n \in 1..(t - 1) : ticket[n] # "none"
       /\ ticket' = [ticket EXCEPT ![t] = "open"]
       /\ assigned' = IF asking[c].staff /\ ~asking[c].send THEN assigned \union {t} ELSE assigned
       /\ IF asking[c].send /\ asking[c].staff THEN Ask(c, "save", t, TRUE, TRUE) ELSE Answered(c)
       /\ shown' = [shown EXCEPT ![c] = @ \union {t}]
  /\ UNCHANGED late

\* resolveTicket: the one named, or their only open one; opened if there is none.
SendMessage(c) ==
  /\ AtChat(c, "idle")
  /\ \E named \in Tickets \union {NoTicket}, receiver \in BOOLEAN :
       \/ \E t \in Tickets :
            /\ named = t \/ (named = NoTicket /\ Status("open") = {t})
            /\ ticket[t] = "open"
            /\ receiver \/ t \in assigned
            /\ Ask(c, "save", t, TRUE, TRUE)
       \/ /\ named = NoTicket /\ Status("open") = {} /\ WithinLimit
          /\ Ask(c, "create", NoTicket, TRUE, receiver)
  /\ UNCHANGED <<ticket, assigned, shown, late>>

\* Saved after the image was stored and the sender read, whatever became of
\* the ticket; then published, which never fails the request.
SaveMessage(c) ==
  /\ AtChat(c, "save")
  /\ late' = (late \/ ticket[asking[c].ticket] = "closed")
  /\ Answered(c)
  /\ UNCHANGED <<ticket, assigned, shown>>

\* storeChatImage refuses the image, or the upload fails.
ImageRefused(c) ==
  /\ AtChat(c, "save")
  /\ Answered(c)
  /\ UNCHANGED <<ticket, assigned, shown, late>>

ReadToClose(c) ==
  /\ AtChat(c, "idle")
  /\ \E t \in Status("open") : Ask(c, "close", t, FALSE, FALSE)
  /\ UNCHANGED <<ticket, assigned, shown, late>>

\* emitToCustomer reaches the tabs connected to this process.
CloseOwnTicket(c) ==
  /\ AtChat(c, "close")
  /\ ticket' = [ticket EXCEPT ![asking[c].ticket] = "closed"]
  /\ shown' = [d \in Tabs |-> IF ProcessOf[d] = ProcessOf[c] THEN shown[d] \ {asking[c].ticket} ELSE shown[d]]
  /\ Answered(c)
  /\ UNCHANGED <<assigned, late>>

\* The team's backend (external): its events come over the bridge to every
\* process, each of which tells the customer's tabs connected to it.
StaffCloses ==
  /\ \E t \in Status("open") :
       /\ ticket' = [ticket EXCEPT ![t] = "closed"]
       /\ shown' = [c \in Tabs |-> shown[c] \ {t}]
  /\ UNCHANGED <<assigned, asking, late>>

ChatInit ==
  /\ ticket = [t \in Tickets |-> "none"] /\ assigned = {} /\ late = FALSE
  /\ asking = [c \in Tabs |-> Idle]
  /\ shown = [c \in Tabs |-> {}]

ChatNext ==
  \/ \E c \in Tabs :
       \/ LoadTickets(c) \/ StartConversation(c) \/ CreateTicket(c) \/ SendMessage(c) \/ SaveMessage(c)
       \/ ImageRefused(c) \/ ReadToClose(c) \/ CloseOwnTicket(c)
  \/ StaffCloses

-----------------------------------------------------------------------------
(* Properties. *)

\* The limit is checked before the ticket is created, so requests made at once
\* may pass it together - by one ticket each and never more, and whether they
\* start a conversation or send a message into none.
OpenBounded == Cardinality(Status("open")) <= MaxOpen - 1 + Cardinality(Tabs)

\* ticketsService.ts: "Open conversations a customer may have at once" (two).
TwoOpenAtMost == Cardinality(Status("open")) <= MaxOpen

\* ticketsService.ts: "The customer's other open tabs close it too."
TabsHearOfClosing == \A c \in Tabs : AtChat(c, "idle") => shown[c] \intersect Status("closed") = {}

\* messagesService.ts: "This conversation is closed. Start a new one instead."
NoneOnceClosed == ~late
=============================================================================
