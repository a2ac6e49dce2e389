------------------------------- MODULE MCSignUp -------------------------------
(* An instance of SignUp for TLC. *)
EXTENDS SignUp, TLC

Alike == Permutations(Handlers) \union Permutations(Tickets) \union Permutations(Referrals)

\* MaxCodes codes for all purposes together, and as many being entered.
FewCodes == Cardinality({pn \in Purposes \X (1..MaxCodes) : pn[2] <= sent[pn[1]]}) <= MaxCodes
=============================================================================
