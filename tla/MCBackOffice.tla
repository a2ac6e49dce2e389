----------------------------- MODULE MCBackOffice -----------------------------
(* An instance of BackOffice for TLC. *)
EXTENDS BackOffice, TLC

CONSTANTS tab1, tab2, near, far, k1, k2

\* The customer's tabs, and their sockets, are served by two processes.
TwoProcesses == (tab1 :> near) @@ (tab2 :> far)
SocketProcesses == (k1 :> near) @@ (k2 :> far)

Interchangeable == Permutations(Clients) \union Permutations(Currencies)

\* One conversation is closed; payouts open once, with one event on its way,
\* one account is asked to pay and one removed, and no further step is taken
\* once an account is not of the salon's country; emails are counted past the
\* limit a few times; one service is booked or packaged, and the salon sees to
\* its team and services, its emails, its waitlist place, its clients, its
\* gallery or its booking rules; and one thing is done after the appointment.
FewMatters ==
  /\ Cardinality(Status("closed")) <= 1
  /\ opened <= 1 /\ ready <= 2 /\ Cardinality(notices) <= 1 /\ Cardinality(asked) <= 1
  /\ Cardinality({i \in MethodIds : method[i].kind # "none" /\ ~method[i].active}) <= 1 /\ OfItsCountry
  /\ used <= 2 * Quota
  /\ Cardinality(booked \union {v \in Services : packaged[v] # "none"}) <= 1
  /\ Cardinality({matter \in {"services", "emails", "waitlist", "clients", "gallery", "rules"} :
                     CASE matter = "services" -> team # {} \/ \E v \in Services : service[v] # "none"
                       [] matter = "emails" -> used # 0 \/ sentToday + day > 0
                       [] matter = "waitlist" -> listed > 0
                       [] matter = "clients" -> contact # [c \in Records |-> NoContact]
                       [] matter = "gallery" -> uploaded # {}
                       [] OTHER -> rules.policy # NoLead \/ rules.saved # NoLead}) <= 1
  /\ Cardinality({matter \in {"reviews", "votes", "attendance", "refund"} :
                     CASE matter = "reviews" -> replied # {} \/ \E f \in Forms : form[f] # NoForm \/ about[f] # NoOrder
                       [] matter = "votes" -> \E r \in Reviews : likes[r] > 0 \/ votes[r] # {}
                       [] matter = "attendance" -> attends \/ \E q \in Asks : ask[q] = "attend"
                       [] OTHER -> claimed \/ refund # NoRefund \/ \E q \in Asks : ask[q] = "ask"}) <= 1
=============================================================================
