------------------------------ MODULE MCPrepaid ------------------------------
(* An instance of Prepaid for TLC: one card two buyers want. *)
EXTENDS Prepaid, TLC

CONSTANTS c1, p1, p2, b1, b2, m1

OneCard == [p \in Payments |-> c1]
Alike == Permutations(Handlers)

\* The card and the membership share only the order of the sweep: a state in
\* which both were bought is not looked into.
OneBought == ~(\E m \in Memberships : membership[m].stripe # "none") \/ \A p \in Payments : pay[p].stripe = "none"

TwoBuyers == p1 :> b1 @@ p2 :> b2
=============================================================================
