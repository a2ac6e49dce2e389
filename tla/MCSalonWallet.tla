----------------------------- MODULE MCSalonWallet -----------------------------
(* An instance of SalonWallet for TLC. *)
EXTENDS SalonWallet, TLC

CONSTANTS e1, e2, e3, f1, w1, w2, d1, d2

\* Two bookings and a gift card sale; the first booking's dispute is for more
\* than the salon was paid, the second's for as much; the withdrawals are
\* together more than any two of the earnings.
Amounts == e1 :> 2 @@ e2 :> 3 @@ e3 :> 1 @@ f1 :> 1 @@ w1 :> 2 @@ w2 :> 4 @@ d1 :> 3 @@ d2 :> 3
DisputedEarning == d1 :> e1 @@ d2 :> e2

Interchangeable == Permutations(Handlers)
=============================================================================
