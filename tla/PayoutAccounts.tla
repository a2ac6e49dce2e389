----------------------------- MODULE PayoutAccounts -----------------------------
(***************************************************************************)
(* Where a salon's withdrawals are paid: bank accounts, and one connected  *)
(* Stripe or Airwallex account by the salon's country.  A call reads the   *)
(* rows, asks the provider, and writes; Stripe's account.updated events    *)
(* carry the account as it was and come in any order.  Calls are those of  *)
(* the salon's people and of the webhook.                                  *)
(***************************************************************************)
EXTENDS Naturals, FiniteSets

CONSTANTS
  MaxMethods,  \* rows (a bound of the model)
  MaxAccounts, \* Stripe accounts (a bound of the model)
  Currencies,
  NoCurrency,
  Clients      \* calls being served

ASSUME AccountAssumptions == MaxMethods \in Nat /\ MaxAccounts \in Nat /\ NoCurrency \notin Currencies

VARIABLES
  rail,     \* availableRail of the salon's country on file
  method,   \* the rows
  account,  \* Stripe's accounts: "none", "started" or "enabled" (payouts_enabled)
  notices,  \* account.updated events on their way
  asked,    \* methods with a withdrawal under way
  call,     \* what each call is at, and what it read
  ready,    \* times the salon was told its account is ready
  opened,   \* history: times Stripe opened an account's payouts
  crossed   \* history: a call began while another was under way

accountVars == <<rail, method, account, notices, asked, call, ready, opened, crossed>>

MethodIds == 1..MaxMethods
Accounts == 1..MaxAccounts
NoMethod == [kind |-> "none", active |-> FALSE, default |-> FALSE, account |-> 0, enabled |-> FALSE, currency |-> NoCurrency]
NoCall == [pc |-> "idle", id |-> 0, account |-> 0, enabled |-> FALSE, was |-> NoMethod, to |-> "none"]

Method == [kind : {"none", "stripe", "airwallex", "bank"}, active : BOOLEAN, default : BOOLEAN,
           account : Accounts \union {0}, enabled : BOOLEAN, currency : Currencies \union {NoCurrency}]

AccountTypeOK ==
  /\ rail \in {"stripe", "airwallex"}
  /\ method \in [MethodIds -> Method]
  /\ account \in [Accounts -> {"none", "started", "enabled"}]
  /\ notices \subseteq Accounts \X BOOLEAN /\ asked \subseteq MethodIds

Active(kind) == {i \in MethodIds : method[i].active /\ method[i].kind = kind}
AllActive == {i \in MethodIds : method[i].active}
NextId == CHOOSE i \in MethodIds : method[i].kind = "none"
HasRoom == \E i \in MethodIds : method[i].kind = "none"
Insert(m) == HasRoom /\ method' = [method EXCEPT ![NextId] = m]

Calling(h, step) == call[h].pc = step
Begin(h, c) == Calling(h, "idle") /\ call' = [call EXCEPT ![h] = c] /\ crossed' = (crossed \/ \E k \in Clients : ~Calling(k, "idle"))
GoOn(h, c) == call' = [call EXCEPT ![h] = c] /\ UNCHANGED crossed
EndOf(h) == GoOn(h, NoCall)

\* methodView: has a currency, and a finished connection.
Usable(m) == m.currency # NoCurrency /\ (m.kind = "stripe" => m.enabled)

-----------------------------------------------------------------------------
(* Stripe. *)

\* An account already there, finished or not, is reused: only a link is made.
StripeOnboardingLink(h) ==
  /\ rail = "stripe" /\ Active("stripe") = {}
  /\ Begin(h, [NoCall EXCEPT !.pc = "createAccount"])
  /\ UNCHANGED <<rail, method, account, notices, asked, ready, opened>>

CreateConnectedAccount(h) ==
  /\ Calling(h, "createAccount")
  /\ \/ \E a \in Accounts :
          /\ account[a] = "none" /\ \A b \in 1..(a - 1) : account[b] # "none"
          /\ account' = [account EXCEPT ![a] = "started"]
          /\ GoOn(h, [NoCall EXCEPT !.pc = "saveAccount", !.account = a])
     \/ EndOf(h) /\ UNCHANGED account
  /\ UNCHANGED <<rail, method, notices, asked, ready, opened>>

SaveConnectedAccount(h) ==
  /\ Calling(h, "saveAccount")
  /\ Insert([NoMethod EXCEPT !.kind = "stripe", !.active = TRUE, !.account = call[h].account])
  /\ EndOf(h)
  /\ UNCHANGED <<rail, account, notices, asked, ready, opened>>

\* At Stripe (external): payouts open, or are stopped; an event says so.
StripeDecides ==
  /\ \E a \in Accounts :
       /\ account[a] # "none" /\ (account[a] = "started" => opened < MaxAccounts)
       /\ account' = [account EXCEPT ![a] = IF @ = "started" THEN "enabled" ELSE "started"]
       /\ notices' = notices \union {<<a, account[a] = "started">>}
       /\ opened' = IF account[a] = "started" THEN opened + 1 ELSE opened
  /\ UNCHANGED <<rail, method, asked, call, ready, crossed>>

\* syncStripeAccount: the row is read, then the account at Stripe.
SyncStripeAccount(h) ==
  /\ rail = "stripe"
  /\ \E i \in Active("stripe") : Begin(h, [NoCall EXCEPT !.pc = "retrieve", !.id = i, !.account = method[i].account, !.was = method[i]])
  /\ UNCHANGED <<rail, method, account, notices, asked, ready, opened>>

RetrieveAccount(h) ==
  /\ Calling(h, "retrieve")
  /\ GoOn(h, [call[h] EXCEPT !.pc = "apply", !.enabled = account[call[h].account] = "enabled"])
  /\ UNCHANGED <<rail, method, account, notices, asked, ready, opened>>

\* applyStripeAccountEvent: an account that is no salon's is passed over.
AccountUpdated(h) ==
  /\ \E n \in notices :
       /\ notices' = notices \ {n}
       /\ LET known == {i \in Active("stripe") : method[i].account = n[1]}
          IN IF known = {} THEN Calling(h, "idle") /\ UNCHANGED <<call, crossed>>
             ELSE \E i \in known : Begin(h, [NoCall EXCEPT !.pc = "apply", !.id = i, !.account = n[1], !.enabled = n[2], !.was = method[i]])
  /\ UNCHANGED <<rail, method, account, asked, ready, opened>>

\* applyStripeAccount: the currency is set once; what is new is judged by the row that was read.
ApplyStripeAccount(h) ==
  LET c == call[h]
  IN /\ Calling(h, "apply")
     /\ \E own \in Currencies \union {NoCurrency} :
          method' = [method EXCEPT ![c.id].enabled = c.enabled,
                                   ![c.id].currency = IF c.was.currency # NoCurrency THEN c.was.currency
                                                      ELSE IF c.enabled THEN own ELSE NoCurrency]
     /\ ready' = IF c.enabled /\ ~c.was.enabled THEN ready + 1 ELSE ready
     /\ EndOf(h)
     /\ UNCHANGED <<rail, account, notices, asked, opened>>

-----------------------------------------------------------------------------
(* Airwallex and bank accounts. *)

ConnectAirwallex(h) ==
  /\ rail = "airwallex" /\ Active("airwallex") = {}
  /\ Begin(h, [NoCall EXCEPT !.pc = "beneficiary"])
  /\ UNCHANGED <<rail, method, account, notices, asked, ready, opened>>

\* createBeneficiary: refused answers leave nothing behind.
CreateBeneficiary(h) ==
  /\ Calling(h, "beneficiary")
  /\ \/ \E own \in Currencies : Insert([NoMethod EXCEPT !.kind = "airwallex", !.active = TRUE, !.currency = own])
     \/ UNCHANGED method
  /\ EndOf(h)
  /\ UNCHANGED <<rail, account, notices, asked, ready, opened>>

\* The default is decided and the others' reset in a transaction that ends
\* with the new row; another's reset meanwhile does not see it.
AddBankAccount(h) ==
  /\ HasRoom
  /\ \E wanted \in BOOLEAN :
       LET default == wanted \/ AllActive = {}
       IN /\ Begin(h, [NoCall EXCEPT !.pc = "addBank", !.enabled = default])
          /\ method' = IF default THEN [i \in MethodIds |-> [method[i] EXCEPT !.default = FALSE]] ELSE method
  /\ UNCHANGED <<rail, account, notices, asked, ready, opened>>

SaveBankAccount(h) ==
  /\ Calling(h, "addBank")
  /\ \E own \in Currencies :
       Insert([NoMethod EXCEPT !.kind = "bank", !.active = TRUE, !.default = call[h].enabled, !.currency = own])
  /\ EndOf(h)
  /\ UNCHANGED <<rail, account, notices, asked, ready, opened>>

\* Only of an account the salon typed in.
SetPayoutCurrency ==
  /\ \E i \in Active("bank"), own \in Currencies : method' = [method EXCEPT ![i].currency = own]
  /\ UNCHANGED <<rail, account, notices, asked, call, ready, opened, crossed>>

SetDefaultMethod(h) ==
  /\ \E i \in AllActive :
       /\ Begin(h, [NoCall EXCEPT !.pc = "setDefault", !.id = i])
       /\ method' = [j \in MethodIds |-> [method[j] EXCEPT !.default = FALSE]]
  /\ UNCHANGED <<rail, account, notices, asked, ready, opened>>

SaveDefault(h) ==
  /\ Calling(h, "setDefault")
  /\ method' = [method EXCEPT ![call[h].id].default = TRUE]
  /\ EndOf(h)
  /\ UNCHANGED <<rail, account, notices, asked, ready, opened>>

\* Mutant: an account with a withdrawal under way is removed too.
RemoveAny(h) ==
  /\ \E i \in AllActive : Begin(h, [NoCall EXCEPT !.pc = "remove", !.id = i])
  /\ UNCHANGED <<rail, method, account, notices, asked, ready, opened>>

\* Not while a withdrawal to it is under way - as counted before it goes.
RemoveMethod(h) ==
  /\ \E i \in AllActive \ asked : Begin(h, [NoCall EXCEPT !.pc = "remove", !.id = i])
  /\ UNCHANGED <<rail, method, account, notices, asked, ready, opened>>

SaveRemoval(h) ==
  /\ Calling(h, "remove")
  /\ method' = [method EXCEPT ![call[h].id].active = FALSE, ![call[h].id].default = FALSE]
  /\ EndOf(h)
  /\ UNCHANGED <<rail, account, notices, asked, ready, opened>>

\* The rate is fetched for the account as read; before the withdrawal is
\* saved the account must still be active and in that currency.  (One at a time
\* to each account: a bound of the model.)
RequestPayout(h) ==
  /\ \E i \in AllActive \ asked : Usable(method[i]) /\ Begin(h, [NoCall EXCEPT !.pc = "convert", !.id = i, !.was = method[i]])
  /\ UNCHANGED <<rail, method, account, notices, asked, ready, opened>>

StillTheSame(h) ==
  /\ Calling(h, "convert")
  /\ IF method[call[h].id].active /\ method[call[h].id].currency = call[h].was.currency
     THEN GoOn(h, [call[h] EXCEPT !.pc = "saveRequest"]) ELSE EndOf(h)
  /\ UNCHANGED <<rail, method, account, notices, asked, ready, opened>>

SaveRequest(h) ==
  /\ Calling(h, "saveRequest")
  /\ asked' = asked \union {call[h].id}
  /\ EndOf(h)
  /\ UNCHANGED <<rail, method, account, notices, ready, opened>>

\* Paid, rejected or taken back (Payouts).
PayoutOver ==
  /\ \E i \in asked : asked' = asked \ {i}
  /\ UNCHANGED <<rail, method, account, notices, call, ready, opened, crossed>>

-----------------------------------------------------------------------------
(* The country, which decides the rail.  (A move between two countries of    *)
(* one rail changes nothing here.)                                           *)

\* updateBusinessLocation: refused while an account is connected or a
\* withdrawal is under way - as counted before the address is looked up.
ChangeCountry(h) ==
  /\ Active("stripe") \union Active("airwallex") = {} /\ asked = {}
  /\ \E to \in {"stripe", "airwallex"} \ {rail} : Begin(h, [NoCall EXCEPT !.pc = "lookUp", !.to = to])
  /\ UNCHANGED <<rail, method, account, notices, asked, ready, opened>>

SaveLocation(h) ==
  /\ Calling(h, "lookUp")
  /\ rail' = call[h].to
  /\ EndOf(h)
  /\ UNCHANGED <<method, account, notices, asked, ready, opened>>

AccountInit ==
  /\ rail \in {"stripe", "airwallex"}
  /\ method = [i \in MethodIds |-> NoMethod] /\ account = [a \in Accounts |-> "none"]
  /\ notices = {} /\ asked = {} /\ call = [h \in Clients |-> NoCall]
  /\ ready = 0 /\ opened = 0 /\ crossed = FALSE

AccountNext ==
  \/ \E h \in Clients :
       \/ StripeOnboardingLink(h) \/ CreateConnectedAccount(h) \/ SaveConnectedAccount(h)
       \/ SyncStripeAccount(h) \/ RetrieveAccount(h) \/ AccountUpdated(h) \/ ApplyStripeAccount(h)
       \/ ConnectAirwallex(h) \/ CreateBeneficiary(h) \/ AddBankAccount(h) \/ SaveBankAccount(h)
       \/ SetDefaultMethod(h) \/ SaveDefault(h) \/ RemoveMethod(h) \/ SaveRemoval(h)
       \/ RequestPayout(h) \/ StillTheSame(h) \/ SaveRequest(h)
       \/ ChangeCountry(h) \/ SaveLocation(h)
  \/ StripeDecides \/ SetPayoutCurrency \/ PayoutOver

-----------------------------------------------------------------------------
(* Properties. *)

OfItsCountry == \A i \in Active("stripe") \union Active("airwallex") : method[i].kind = rail

\* While calls come one at a time: the salon has one connected account, of the
\* rail of its country, and at most one default, none of its withdrawals is on
\* its way to a removed account, and an account in use has the currency it was
\* asked in.
PayoutAccountsInOrder ==
  ~crossed =>
    /\ Cardinality(Active("stripe") \union Active("airwallex")) <= 1
    /\ OfItsCountry
    /\ Cardinality({i \in MethodIds : method[i].default}) <= 1
    /\ asked \subseteq AllActive
    /\ \A i \in asked : method[i].currency # NoCurrency

\* payoutConnect.ts: "an unfinished one is reused rather than stranding a
\* second account".
NoneStranded == Cardinality(Active("stripe")) <= 1

\* payoutMethods.ts: a payout account is removed, but "not while a withdrawal
\* to it is under way".
RemovedNotInUse == asked \subseteq AllActive

\* businessProfile.ts: "The country decides the payout rail, so it can't change
\* while a connected payout account or a withdrawal is tied to the current one."
CountryTiedToAccount == OfItsCountry

\* payoutConnect.ts: "tells the salon the first time payouts open up".
ReadyToldOnce == ready <= opened
=============================================================================
