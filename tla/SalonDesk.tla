------------------------------- MODULE SalonDesk -------------------------------
(***************************************************************************)
(* A salon's own records: its team, its services and who does them, the    *)
(* packages sold on them, its clients and the emails it sends them, its    *)
(* photo gallery and its booking rules; and the pre-launch waitlist.       *)
(* Requests check first and write afterwards; the database's keys, its     *)
(* conditional updates and Redis's counter settle what the checks missed.  *)
(***************************************************************************)
EXTENDS Integers, FiniteSets

CONSTANTS
  Services,
  Stylists,
  NoService,
  Recipients, \* numbers of clients a message may go to
  Quota,      \* CLIENT_MESSAGES_PER_DAY
  Records,    \* client records of the owner
  Emails,
  NoEmail,
  Photos,     \* gallery photos, each uploaded once
  NoPhoto,
  MaxGallery, \* MAX_GALLERY
  Leads,      \* lead times a salon may set, in minutes
  Clerks,     \* requests being served
  MaxDays,    \* days of sending (a bound of the model)
  MaxTwice    \* emails given back twice in a day (a bound of the model)

ASSUME DeskAssumptions ==
  /\ NoService \notin Services /\ NoEmail \notin Emails /\ NoPhoto \notin Photos
  /\ Recipients \subseteq Nat \ {0} /\ Leads \subseteq Nat /\ Quota \in Nat
  /\ MaxDays \in Nat /\ MaxTwice \in Nat /\ MaxGallery \in Nat

VARIABLES
  service,  \* of each: "none", "listed" or "deleted"
  team,     \* active team members
  does,     \* service_staff
  copies,   \* staff.servicesAssigned: each member's own copy
  booked,   \* services with an appointment
  packaged, \* services sold as a package: "none", "onSale", "offSale"
  lostOnes, \* history: services whose appointment or package lost them
  used,     \* the day's counter in Redis
  sentToday,\* history: emails sent that day
  day,
  twice,    \* history: emails given back twice that day
  clerk,    \* what each request is at
  busy,     \* history: a request began while another was under way
  listed,   \* the waitlist row of an address: its stage (0: none)
  contact,  \* the owner's clients: email (unique with the owner) and isActive
  gallery,  \* businesses.businessImage
  files,    \* photos in storage
  uploaded, \* history: photos ever uploaded
  rules     \* the lead time of booking_policies (none: -1), of the settings row, and the last saved

deskVars == <<service, team, does, copies, booked, packaged, lostOnes, used, sentToday, day, twice, clerk, busy, listed,
              contact, gallery, files, uploaded, rules>>
records == <<service, team, does, copies, booked, packaged, lostOnes>>
photos == <<gallery, files, uploaded>>
profile == <<contact, photos, rules>>
mail == <<used, sentToday, day, twice, profile>>

NoContact == [email |-> NoEmail, active |-> FALSE]
NoClerk == [pc |-> "idle", of |-> NoService, team |-> {}, count |-> 0, who |-> NoContact, id |-> 0, photo |-> NoPhoto, seen |-> {}]
AtDesk(h, step) == clerk[h].pc = step
Take(h, c) ==
  /\ AtDesk(h, "idle")
  /\ clerk' = [clerk EXCEPT ![h] = c]
  /\ busy' = (busy \/ \E k \in Clerks : ~AtDesk(k, "idle"))
Serve(h, step, v, who, n) == Take(h, [NoClerk EXCEPT !.pc = step, !.of = v, !.team = who, !.count = n])
Served(h) == clerk' = [clerk EXCEPT ![h] = NoClerk] /\ UNCHANGED busy

DeskTypeOK ==
  /\ service \in [Services -> {"none", "listed", "deleted"}]
  /\ team \subseteq Stylists /\ does \subseteq Stylists \X Services /\ copies \in [Stylists -> SUBSET Services]
  /\ booked \subseteq Services /\ lostOnes \subseteq Services
  /\ packaged \in [Services -> {"none", "onSale", "offSale"}]
  /\ used \in Int /\ sentToday \in Nat /\ day \in 0..MaxDays /\ twice \in 0..MaxTwice /\ listed \in 0..2
  /\ contact \in [Records -> [email : Emails \union {NoEmail}, active : BOOLEAN]]
  /\ gallery \subseteq Photos /\ files \subseteq uploaded /\ uploaded \subseteq Photos

Listed == {v \in Services : service[v] = "listed"}
OthersDo(v) == {d \in does : d[2] # v}
OtherServices(s) == {d \in does : d[1] # s}

-----------------------------------------------------------------------------
(* Services. *)

\* assertTeam, assertPlan: everyone named is on the active team now.
CheckService(h) ==
  /\ \E v \in Services, who \in SUBSET team : service[v] # "deleted" /\ Serve(h, "saveService", v, who, 0)
  /\ UNCHANGED <<records, mail, listed>>

\* createService, updateService, assignServiceStaff: setTeam replaces who does
\* it; it takes no lock, so the rows of one saved meanwhile may stay.
SaveService(h) ==
  LET v == clerk[h].of
  IN /\ AtDesk(h, "saveService")
     /\ IF service[v] = "deleted" THEN UNCHANGED <<service, does>>
        ELSE /\ service' = [service EXCEPT ![v] = "listed"]
             /\ \E kept \in SUBSET (IF busy THEN does \ OthersDo(v) ELSE {}) :
                  does' = OthersDo(v) \union kept \union (clerk[h].team \X {v})
     /\ Served(h)
     /\ UNCHANGED <<team, copies, booked, packaged, lostOnes, mail, listed>>

CheckDeletion(h) ==
  /\ \E v \in Listed : v \notin booked /\ packaged[v] = "none" /\ Serve(h, "delete", v, {}, 0)
  /\ UNCHANGED <<records, mail, listed>>

\* Its appointments keep no service, and its packages and who does it go with it.
DeleteService(h) ==
  LET v == clerk[h].of
  IN /\ AtDesk(h, "delete")
     /\ service' = [service EXCEPT ![v] = "deleted"]
     /\ does' = OthersDo(v)
     /\ packaged' = [packaged EXCEPT ![v] = "none"]
     /\ lostOnes' = IF v \in booked \/ packaged[v] # "none" THEN lostOnes \union {v} ELSE lostOnes
     /\ Served(h)
     /\ UNCHANGED <<team, copies, booked, mail, listed>>

\* A customer's booking, and a package: the row cannot name a service that is gone.
BookService ==
  /\ \E v \in Listed : booked' = booked \union {v}
  /\ busy' = (busy \/ \E h \in Clerks : ~AtDesk(h, "idle"))
  /\ UNCHANGED <<service, team, does, copies, packaged, lostOnes, mail, clerk, listed>>

CheckPackage(h) ==
  /\ \E v \in Listed : packaged[v] = "none" /\ Serve(h, "package", v, {}, 0)
  /\ UNCHANGED <<records, mail, listed>>

CreatePackage(h) ==
  /\ AtDesk(h, "package")
  /\ packaged' = IF service[clerk[h].of] = "listed" THEN [packaged EXCEPT ![clerk[h].of] = "onSale"] ELSE packaged
  /\ Served(h)
  /\ UNCHANGED <<service, team, does, copies, booked, lostOnes, mail, listed>>

DeactivatePackage ==
  /\ \E v \in Services : packaged[v] = "onSale" /\ packaged' = [packaged EXCEPT ![v] = "offSale"]
  /\ UNCHANGED <<service, team, does, copies, booked, lostOnes, mail, clerk, busy, listed>>

-----------------------------------------------------------------------------
(* The team. *)

\* addStaff (someone removed before is brought back), editStaff and
\* setStaffServices: the services are the salon's, and replace the member's.
SetStaff ==
  /\ \E s \in Stylists, mine \in SUBSET Listed :
       /\ team' = team \union {s}
       /\ does' = OtherServices(s) \union ({s} \X mine)
       /\ copies' = [copies EXCEPT ![s] = mine]
  /\ UNCHANGED <<service, booked, packaged, lostOnes, mail, clerk, busy, listed>>

\* Kept as an inactive record, services and all.
RemoveStaff ==
  /\ \E s \in team : team' = team \ {s}
  /\ UNCHANGED <<service, does, copies, booked, packaged, lostOnes, mail, clerk, busy, listed>>

-----------------------------------------------------------------------------
(* Emails to clients. *)

\* useQuota: INCRBY counts and reads at once; past the limit it is given back.
CountMessages(h) ==
  /\ \E n \in Recipients :
       /\ Serve(h, IF used + n > Quota THEN "giveBack" ELSE "send", NoService, {}, n)
       /\ used' = used + n
  /\ UNCHANGED <<records, sentToday, day, twice, profile, listed>>

SendClientMessage(h) ==
  /\ AtDesk(h, "send")
  /\ sentToday' = sentToday + clerk[h].count
  /\ Served(h)
  /\ UNCHANGED <<records, used, day, twice, profile, listed>>

\* Or the process dies, and the count stays; or the DECRBY's answer is lost with
\* the connection, and the client sends it again.
GiveBack(h) ==
  /\ AtDesk(h, "giveBack")
  /\ \/ used' = used - clerk[h].count /\ UNCHANGED twice
     \/ UNCHANGED <<used, twice>>
     \/ /\ twice + clerk[h].count <= MaxTwice /\ twice' = twice + clerk[h].count
        /\ used' = used - 2 * clerk[h].count
  /\ Served(h)
  /\ UNCHANGED <<records, sentToday, day, profile, listed>>

\* The counter's key is the date's (a send under way counts for the day it began).
DayBegins ==
  /\ day < MaxDays /\ day' = day + 1
  /\ \A h \in Clerks : ~AtDesk(h, "send") /\ ~AtDesk(h, "giveBack")
  /\ used' = 0 /\ sentToday' = 0 /\ twice' = 0
  /\ UNCHANGED <<records, profile, clerk, busy, listed>>

-----------------------------------------------------------------------------
(* The waitlist. *)

\* findByEmail: a second sign-up is refused; so is one made at the same moment,
\* by the unique address.
CheckWaitlist(h) ==
  /\ \E stage \in {1, 2} : (stage = 1 => listed = 0) /\ Serve(h, IF listed = 0 THEN "join" ELSE "details", NoService, {}, stage)
  /\ UNCHANGED <<records, mail, listed>>

\* createRow: the unique address refuses the second of two.
JoinWaitlist(h) ==
  /\ AtDesk(h, "join")
  /\ listed' = IF listed = 0 THEN clerk[h].count ELSE listed
  /\ Served(h)
  /\ UNCHANGED <<records, mail>>

SaveDetails(h) ==
  /\ AtDesk(h, "details")
  /\ listed' = 2
  /\ Served(h)
  /\ UNCHANGED <<records, mail>>

-----------------------------------------------------------------------------
(* Clients. *)

Kept(e) == {c \in Records : contact[c].email = e}
TakenBy(e, others) == Kept(e) \ others # {}

\* createClient: an email is one client per owner; one removed is found to be
\* brought back.  updateClient: the record is active, the new email no one else's.
CheckClient(h) ==
  /\ \E e \in Emails :
       \/ Kept(e) = {} /\ Take(h, [NoClerk EXCEPT !.pc = "addClient", !.who = [email |-> e, active |-> TRUE]])
       \/ \E c \in Kept(e) :
            ~contact[c].active /\ Take(h, [NoClerk EXCEPT !.pc = "bringBack", !.id = c, !.who = [email |-> e, active |-> TRUE]])
       \/ \E c \in Records : /\ contact[c].active /\ ~TakenBy(e, {c})
                            /\ Take(h, [NoClerk EXCEPT !.pc = "saveClient", !.id = c, !.who = [email |-> e, active |-> TRUE]])
  /\ UNCHANGED <<records, used, sentToday, day, twice, listed, profile>>

\* The insert, refused by the key on email and owner when one came first.
AddClient(h) ==
  /\ AtDesk(h, "addClient")
  /\ IF TakenBy(clerk[h].who.email, {}) THEN UNCHANGED contact
     ELSE \E c \in Records : contact[c] = NoContact /\ contact' = [contact EXCEPT ![c] = clerk[h].who]
  /\ Served(h)
  /\ UNCHANGED <<records, used, sentToday, day, twice, listed, photos, rules>>

\* The update, which the same key may refuse.  It locks the row, so the
\* addresses, contacts and settings replaced after it are of one request.
\* An ordinary save leaves isActive as it is.
SaveClient(h) ==
  LET c == clerk[h].id
  IN /\ AtDesk(h, "bringBack") \/ AtDesk(h, "saveClient")
     /\ contact' = IF TakenBy(clerk[h].who.email, {c}) THEN contact
                   ELSE [contact EXCEPT ![c] = [email |-> clerk[h].who.email,
                                                active |-> contact[c].active \/ AtDesk(h, "bringBack")]]
     /\ Served(h)
     /\ UNCHANGED <<records, used, sentToday, day, twice, listed, photos, rules>>

\* deleteClient: ownClient, then isActive; nothing that comes between matters.
RemoveClient ==
  /\ \E c \in Records : contact[c].active /\ contact' = [contact EXCEPT ![c].active = FALSE]
  /\ UNCHANGED <<records, used, sentToday, day, twice, listed, photos, rules, clerk, busy>>

-----------------------------------------------------------------------------
(* The photo gallery.  (Every photo here was uploaded here.) *)

\* addGalleryImage: the limit is checked, and the photo uploaded.
UploadPhoto(h) ==
  /\ Cardinality(gallery) < MaxGallery
  /\ \E p \in Photos \ uploaded :
       /\ Take(h, [NoClerk EXCEPT !.pc = "append", !.photo = p])
       /\ uploaded' = uploaded \union {p} /\ files' = files \union {p}
  /\ UNCHANGED <<records, used, sentToday, day, twice, listed, contact, gallery, rules>>

\* Mutant: the photo is appended without looking again.
AppendUnchecked(h) ==
  /\ AtDesk(h, "append")
  /\ gallery' = gallery \union {clerk[h].photo}
  /\ Served(h)
  /\ UNCHANGED <<records, used, sentToday, day, twice, listed, contact, files, uploaded, rules>>

\* Appended in SQL, with the limit checked again; or its file is deleted.
AppendPhoto(h) ==
  /\ AtDesk(h, "append")
  /\ IF Cardinality(gallery) < MaxGallery
     THEN gallery' = gallery \union {clerk[h].photo} /\ UNCHANGED files
     ELSE files' = files \ {clerk[h].photo} /\ UNCHANGED gallery
  /\ Served(h)
  /\ UNCHANGED <<records, used, sentToday, day, twice, listed, contact, uploaded, rules>>

\* removeGalleryImage reads the photos; writes what is left of those; and
\* deletes the file.
ReadGallery(h) ==
  /\ \E p \in gallery : Take(h, [NoClerk EXCEPT !.pc = "dropPhoto", !.photo = p, !.seen = gallery])
  /\ UNCHANGED <<records, used, sentToday, day, twice, listed, profile>>

DropPhoto(h) ==
  /\ AtDesk(h, "dropPhoto")
  /\ gallery' = clerk[h].seen \ {clerk[h].photo}
  /\ clerk' = [clerk EXCEPT ![h].pc = "deleteFile"] /\ UNCHANGED busy
  /\ UNCHANGED <<records, used, sentToday, day, twice, listed, contact, files, uploaded, rules>>

DeletePhoto(h) ==
  /\ AtDesk(h, "deleteFile")
  /\ files' = files \ {clerk[h].photo}
  /\ Served(h)
  /\ UNCHANGED <<records, used, sentToday, day, twice, listed, contact, gallery, uploaded, rules>>

-----------------------------------------------------------------------------
(* Booking rules: the lead time stands for the three values kept twice. *)

NoLead == 0 - 1
DefaultLead == 1440  \* 24 hours, the settings row's default
HoursOf(minutes) == (minutes + 59) \div 60
\* resolveBookingRules, getSettings: the policies, else the settings row.
LeadInForce == IF rules.policy # NoLead THEN rules.policy ELSE rules.setting

\* createBusiness: the policies are the wizard's, the settings row's lead time
\* the default.  (A salon of the old app has no policies.)
SignUpWithPolicies ==
  /\ rules.policy = NoLead /\ rules.saved = NoLead
  /\ \E lead \in Leads : rules' = [rules EXCEPT !.policy = lead]
  /\ UNCHANGED <<records, used, sentToday, day, twice, listed, contact, photos, clerk, busy>>

\* ensureSettings and the save: the settings row, in whole hours, and the
\* policies when the salon has them, in one transaction that locks the row first.
SaveBookingRules ==
  /\ \E lead \in Leads :
       rules' = [policy |-> IF rules.policy = NoLead THEN NoLead ELSE lead, setting |-> 60 * HoursOf(lead), saved |-> lead]
  /\ UNCHANGED <<records, used, sentToday, day, twice, listed, contact, photos, clerk, busy>>

DeskInit ==
  /\ service = [v \in Services |-> "none"] /\ team = {} /\ does = {} /\ copies = [s \in Stylists |-> {}]
  /\ booked = {} /\ packaged = [v \in Services |-> "none"] /\ lostOnes = {}
  /\ used = 0 /\ sentToday = 0 /\ day = 0 /\ twice = 0
  /\ clerk = [h \in Clerks |-> NoClerk] /\ busy = FALSE /\ listed = 0
  /\ contact = [c \in Records |-> NoContact] /\ gallery = {} /\ files = {} /\ uploaded = {}
  /\ rules = [policy |-> NoLead, setting |-> DefaultLead, saved |-> NoLead]

DeskNext ==
  \/ \E h \in Clerks :
       \/ CheckService(h) \/ SaveService(h) \/ CheckDeletion(h) \/ DeleteService(h) \/ CheckPackage(h) \/ CreatePackage(h)
       \/ CountMessages(h) \/ SendClientMessage(h) \/ GiveBack(h) \/ CheckWaitlist(h) \/ JoinWaitlist(h) \/ SaveDetails(h)
       \/ CheckClient(h) \/ AddClient(h) \/ SaveClient(h)
       \/ UploadPhoto(h) \/ AppendPhoto(h) \/ ReadGallery(h) \/ DropPhoto(h) \/ DeletePhoto(h)
  \/ BookService \/ DeactivatePackage \/ SetStaff \/ RemoveStaff \/ DayBegins \/ RemoveClient \/ SignUpWithPolicies \/ SaveBookingRules

-----------------------------------------------------------------------------
(* Properties. *)

\* However requests overlap, and whichever of them die: the emails of a day -
\* but for as many as were given back twice - and the photos of the gallery
\* stay within their limits, an email is one
\* client, the lead time booking enforces is never shorter than the one last
\* saved, and nobody does a service that is gone.  While they come one at a
\* time, a service with a booking or a package stays, and every photo of the
\* gallery has its file.
SalonRecordsKept ==
  /\ sentToday <= Quota + twice
  /\ Cardinality(gallery) <= MaxGallery
  /\ \A e \in Emails : Cardinality(Kept(e)) <= 1
  /\ rules.saved <= LeadInForce
  /\ \A d \in does : service[d[2]] = "listed"
  /\ ~busy => lostOnes = {} /\ gallery \subseteq files

\* clientMessages.ts: "Counts the sends against today's limit (atomic); refuses
\* past it."
DailyLimitKept == sentToday <= Quota

\* serviceChanges.ts: "One with bookings stays (the booking history needs it),
\* and so does one sold as a membership".
BookedServiceStays == lostOnes = {}

\* staffChanges.ts: "the staff table keeps a copy of the service ids too".
CopyAgrees == \A s \in team : copies[s] = {v \in Services : <<s, v>> \in does}

\* ownerSettings.ts: changes go to the settings and the policies "in one
\* transaction and the two never disagree".
RulesAgree == rules.policy # NoLead => rules.setting = 60 * HoursOf(rules.policy)

\* removeGalleryImage: "Removes a gallery photo (and its file ...)".
RemovedPhotoGone == gallery \subseteq files
=============================================================================
