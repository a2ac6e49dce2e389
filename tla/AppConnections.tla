----------------------------- MODULE AppConnections -----------------------------
(***************************************************************************)
(* A salon's connection to an app: one it signs in to (Google Calendar or  *)
(* ZohoBooks), with the sign-in's single-use state, the saved credentials  *)
(* and the access token refreshed when it is about to expire; or one it    *)
(* gives its own API key for (Mailchimp).  The credentials go in three     *)
(* ways: replaced, disconnected by the owner, or forgotten when the app    *)
(* refuses them.  Each consent or key the owner gives is a grant; its      *)
(* tokens are named after it.                                              *)
(***************************************************************************)
EXTENDS Naturals, FiniteSets

CONSTANTS
  States,    \* sign-in states (their jti)
  Grants,    \* consents given at the app
  NoGrant,
  Callers    \* requests and booking syncs being served

ASSUME ConnectionAssumptions == NoGrant \notin Grants

VARIABLES
  way,       \* how the app is connected: by "signIn" or by "key"
  state,     \* of each sign-in: "none", "signed", "used" or "expired"
  saved,     \* the credentials row: the save that made it, and whose tokens it holds
  given,     \* consents given so far
  bare,      \* those of them the app gave an access token for and no refresh token
  revoked,   \* those withdrawn at the app
  dropped,   \* history: those whose row was deleted by a disconnect
  caller     \* what each caller is at, and what it read

appVars == <<way, state, saved, given, bare, revoked, dropped, caller>>

NoRow == [id |-> NoGrant, access |-> NoGrant, refresh |-> NoGrant]
AtRest == [pc |-> "idle", row |-> NoGrant, grant |-> NoGrant]

AppTypeOK ==
  /\ way \in {"signIn", "key"}
  /\ state \in [States -> {"none", "signed", "used", "expired"}]
  /\ saved \in [id : Grants \union {NoGrant}, access : Grants \union {NoGrant}, refresh : Grants \union {NoGrant}]
  /\ given \subseteq Grants /\ bare \subseteq given /\ revoked \subseteq given /\ dropped \subseteq given
  /\ caller \in [Callers -> [pc : {"idle", "exchange", "save", "look", "replace", "pick", "refresh", "contact", "keep", "forget", "delete", "revoke"},
                             row : Grants \union {NoGrant}, grant : Grants \union {NoGrant}]]

AtCall(h, step) == caller[h].pc = step
Proceed(h, step, row, grant) == caller' = [caller EXCEPT ![h] = [pc |-> step, row |-> row, grant |-> grant]]
EndCall(h) == caller' = [caller EXCEPT ![h] = AtRest]

\* startGoogle, startZoho: signed for this salon and owner.
StartSignIn ==
  /\ way = "signIn"
  /\ \E x \in States : state[x] = "none" /\ state' = [state EXCEPT ![x] = "signed"]
  /\ UNCHANGED <<way, saved, given, bare, revoked, dropped, caller>>

StateExpires ==
  /\ \E x \in States : state[x] = "signed" /\ state' = [state EXCEPT ![x] = "expired"]
  /\ UNCHANGED <<way, saved, given, bare, revoked, dropped, caller>>

\* consumeState: used once, by SET NX.
FinishSignIn(h) ==
  /\ AtCall(h, "idle")
  /\ \E x \in States : state[x] = "signed" /\ state' = [state EXCEPT ![x] = "used"]
  /\ Proceed(h, "exchange", NoGrant, NoGrant)
  /\ UNCHANGED <<way, saved, given, bare, revoked, dropped>>

\* The consent usually brings a refresh token.  Without one Google's goes on
\* with the access token alone; Zoho's, one without an organisation or a failed
\* exchange saves nothing.  (What ZohoBooks does, Google Calendar may do.)
ExchangeCode(h) ==
  /\ AtCall(h, "exchange")
  /\ \/ \E g \in Grants \ given : given' = given \union {g} /\ Proceed(h, "save", NoGrant, g) /\ UNCHANGED bare
     \/ \E g \in Grants \ given : given' = given \union {g} /\ bare' = bare \union {g} /\ Proceed(h, "look", NoGrant, g)
     \/ EndCall(h) /\ UNCHANGED <<given, bare>>
  /\ UNCHANGED <<way, state, saved, revoked, dropped>>

\* connectMailchimp: the owner types a key of the account.
ConnectMailchimp(h) ==
  /\ way = "key" /\ AtCall(h, "idle")
  /\ \E g \in Grants \ given : given' = given \union {g} /\ Proceed(h, "pick", NoGrant, g)
  /\ UNCHANGED <<way, state, saved, bare, revoked, dropped>>

\* Saved with the audience chosen, or the only one; without it, or with a
\* key Mailchimp refuses, nothing is.
PickAudience(h) ==
  /\ AtCall(h, "pick")
  /\ \/ caller[h].grant \notin revoked /\ Proceed(h, "save", NoGrant, caller[h].grant)
     \/ EndCall(h)
  /\ UNCHANGED <<way, state, saved, given, bare, revoked, dropped>>

\* The lock of the salon's saves; nothing else takes it.
SaveLockIsFree == \A k \in Callers : ~AtCall(k, "replace")

\* saveGoogle, saveZoho, saveMailchimp: the row is replaced, under the lock.
SaveCredentials(h) ==
  /\ AtCall(h, "save") /\ SaveLockIsFree
  /\ saved' = [id |-> caller[h].grant, access |-> caller[h].grant, refresh |-> caller[h].grant]
  /\ EndCall(h)
  /\ UNCHANGED <<way, state, given, bare, revoked, dropped>>

\* saveGoogle without a refresh token keeps the one it finds, or is refused.
LookForToken(h) ==
  /\ AtCall(h, "look") /\ SaveLockIsFree
  /\ IF saved = NoRow THEN EndCall(h) ELSE Proceed(h, "replace", saved.refresh, caller[h].grant)
  /\ UNCHANGED <<way, state, saved, given, bare, revoked, dropped>>

\* The row is deleted, if it is still there, and made anew - or all is undone.
ReplaceKeepingToken(h) ==
  /\ AtCall(h, "replace")
  /\ \/ saved' = [id |-> caller[h].grant, access |-> caller[h].grant, refresh |-> caller[h].row]
     \/ UNCHANGED saved
  /\ EndCall(h)
  /\ UNCHANGED <<way, state, given, bare, revoked, dropped>>

\* googleAccess, zohoAccess, for a booking sync: the access token is used while
\* it lasts; a row that cannot be opened, or a token the app refuses, ends it.
UseAccess(h) ==
  /\ way = "signIn" /\ AtCall(h, "idle") /\ saved # NoRow
  /\ \/ Proceed(h, "refresh", saved.id, saved.refresh)
     \/ Proceed(h, "forget", saved.id, saved.refresh)
  /\ UNCHANGED <<way, state, saved, given, bare, revoked, dropped>>

\* mailchimpAccess: the key itself; one that cannot be opened ends it.
UseKey(h) ==
  /\ way = "key" /\ AtCall(h, "idle") /\ saved # NoRow
  /\ Proceed(h, "contact", saved.id, saved.refresh) \/ Proceed(h, "forget", saved.id, saved.refresh)
  /\ UNCHANGED <<way, state, saved, given, bare, revoked, dropped>>

\* upsertMember: the booking's client becomes a contact of the audience.
AddClientToAudience(h) ==
  /\ AtCall(h, "contact")
  /\ IF caller[h].grant \in revoked THEN Proceed(h, "forget", caller[h].row, caller[h].grant) ELSE EndCall(h)
  /\ UNCHANGED <<way, state, saved, given, bare, revoked, dropped>>

\* A grant withdrawn at the app is an IntegrationAuthError; another failure is logged.
RefreshToken(h) ==
  /\ AtCall(h, "refresh")
  /\ IF caller[h].grant \in revoked
     THEN Proceed(h, "forget", caller[h].row, caller[h].grant)
     ELSE Proceed(h, "keep", caller[h].row, caller[h].grant) \/ EndCall(h)
  /\ UNCHANGED <<way, state, saved, given, bare, revoked, dropped>>

\* Mutant: the fresh token is kept by salon, whichever row it now has.
KeepForSalon(h) ==
  /\ AtCall(h, "keep")
  /\ saved' = IF saved = NoRow THEN saved ELSE [saved EXCEPT !.access = caller[h].grant]
  /\ EndCall(h)
  /\ UNCHANGED <<way, state, given, bare, revoked, dropped>>

\* The fresh token is kept on the row that was read, if it is still there.
KeepFreshToken(h) ==
  /\ AtCall(h, "keep")
  /\ saved' = IF saved.id = caller[h].row THEN [saved EXCEPT !.access = caller[h].grant] ELSE saved
  /\ EndCall(h)
  /\ UNCHANGED <<way, state, given, bare, revoked, dropped>>

\* guarded: the app's credentials are forgotten and the salon told to reconnect.
ForgetApp(h) ==
  /\ AtCall(h, "forget")
  /\ saved' = NoRow
  /\ EndCall(h)
  /\ UNCHANGED <<way, state, given, bare, revoked, dropped>>

\* disconnectGoogle, disconnectZoho: read, deleted, then withdrawn at the app.
\* disconnectMailchimp only deletes the row.
DisconnectApp(h) ==
  /\ AtCall(h, "idle")
  /\ IF way = "key" THEN Proceed(h, "delete", NoGrant, NoGrant) ELSE Proceed(h, "delete", saved.id, saved.refresh)
  /\ UNCHANGED <<way, state, saved, given, bare, revoked, dropped>>

DeleteCredentials(h) ==
  /\ AtCall(h, "delete")
  /\ saved' = NoRow
  /\ dropped' = dropped \union ({saved.refresh} \ {NoGrant})
  /\ IF caller[h].grant = NoGrant THEN EndCall(h) ELSE Proceed(h, "revoke", NoGrant, caller[h].grant)
  /\ UNCHANGED <<way, state, given, bare, revoked>>

\* A failure to revoke is not minded.
RevokeToken(h) ==
  /\ AtCall(h, "revoke")
  /\ \/ revoked' = revoked \union {caller[h].grant}
     \/ revoked' = revoked
  /\ EndCall(h)
  /\ UNCHANGED <<way, state, saved, given, bare, dropped>>

\* In the owner's account at the app (external).
OwnerWithdraws ==
  /\ \E g \in given \ revoked : revoked' = revoked \union {g}
  /\ UNCHANGED <<way, state, saved, given, bare, dropped, caller>>

AppInit ==
  /\ way \in {"signIn", "key"}
  /\ state = [x \in States |-> "none"]
  /\ saved = NoRow /\ given = {} /\ bare = {} /\ revoked = {} /\ dropped = {}
  /\ caller = [h \in Callers |-> AtRest]

AppNext ==
  \/ StartSignIn \/ StateExpires \/ OwnerWithdraws
  \/ \E h \in Callers :
       \/ ConnectMailchimp(h) \/ PickAudience(h) \/ UseKey(h) \/ AddClientToAudience(h)
       \/ FinishSignIn(h) \/ ExchangeCode(h) \/ SaveCredentials(h) \/ LookForToken(h) \/ ReplaceKeepingToken(h) \/ UseAccess(h) \/ RefreshToken(h)
       \/ KeepFreshToken(h) \/ ForgetApp(h) \/ DisconnectApp(h) \/ DeleteCredentials(h) \/ RevokeToken(h)

-----------------------------------------------------------------------------
(* Properties. *)

\* However refreshes, sign-ins and disconnects overlap: the access token and
\* the refresh token of the row come from one consent, and not from one whose
\* row a disconnect deleted - but for a sign-in that brought no refresh token,
\* whose row keeps another consent's, and has an access token of either; and a
\* sign-in's state brings one consent at most.
CredentialsOfOneGrant ==
  /\ saved.access \in {saved.id, saved.refresh} /\ saved.refresh \notin bare
  /\ saved.id \notin bare => saved.refresh = saved.id /\ saved.refresh \notin dropped
  /\ way = "signIn" => Cardinality(given) <= Cardinality({x \in States : state[x] = "used"})

\* integrations.yaml: disconnecting means "access revoked at Google, tokens
\* deleted" - and not saved again by a sign-in that found them before.
DisconnectedIsGone == saved.refresh \notin dropped

\* integrationSync.ts: "When an app's saved access stops working it's
\* forgotten" - that access, and not the one the owner has connected since.
FreshConnectionKept ==
  [][\A h \in Callers : AtCall(h, "forget") /\ caller'[h] = AtRest => saved = NoRow \/ saved.id = caller[h].row]_appVars
=============================================================================
