------------------------------ MODULE BackOffice ------------------------------
(***************************************************************************)
(* The services around bookings and money: the customer's conversations    *)
(* with support and the sockets they are updated over, the apps a salon    *)
(* connects and what follows its bookings there, the accounts it is paid   *)
(* out to, its own records, and what customers say and ask afterwards.     *)
(* They share no state; a behaviour follows one and the others rest.       *)
(***************************************************************************)
EXTENDS SupportChat, LiveUpdates, AppConnections, BookingSync, PayoutAccounts, SalonDesk, Feedback

VARIABLE part  \* the one followed

officeVars == <<chatVars, liveVars, appVars, syncVars, accountVars, deskVars, feedbackVars, part>>

One(S) == CHOOSE x \in S : TRUE

\* A part that rests starts in one state only.
OfficeInit ==
  /\ ChatInit /\ LiveInit /\ AppInit /\ SyncInit /\ AccountInit /\ DeskInit /\ FeedbackInit
  /\ part \in {"chat", "live", "connection", "sync", "accounts", "desk", "feedback"}
  /\ part # "connection" => way = "signIn"
  /\ part # "sync" => app = One(Apps)
  /\ part # "accounts" => rail = "stripe"

ChatStep == part = "chat" /\ ChatNext /\ UNCHANGED <<liveVars, appVars, syncVars, accountVars, deskVars, feedbackVars, part>>
LiveStep == part = "live" /\ LiveNext /\ UNCHANGED <<chatVars, appVars, syncVars, accountVars, deskVars, feedbackVars, part>>
AppStep == part = "connection" /\ AppNext /\ UNCHANGED <<chatVars, liveVars, syncVars, accountVars, deskVars, feedbackVars, part>>
SyncStep == part = "sync" /\ SyncNext /\ UNCHANGED <<chatVars, liveVars, appVars, accountVars, deskVars, feedbackVars, part>>
AccountStep == part = "accounts" /\ AccountNext /\ UNCHANGED <<chatVars, liveVars, appVars, syncVars, deskVars, feedbackVars, part>>
DeskStep == part = "desk" /\ DeskNext /\ UNCHANGED <<chatVars, liveVars, appVars, syncVars, accountVars, feedbackVars, part>>
FeedbackStep == part = "feedback" /\ FeedbackNext /\ UNCHANGED <<chatVars, liveVars, appVars, syncVars, accountVars, deskVars, part>>

OfficeNext == ChatStep \/ LiveStep \/ AppStep \/ SyncStep \/ AccountStep \/ DeskStep \/ FeedbackStep

OfficeSpec == OfficeInit /\ [][OfficeNext]_officeVars
=============================================================================
