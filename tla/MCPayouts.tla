------------------------------- MODULE MCPayouts -------------------------------
(* Instances of Payouts for TLC. *)
EXTENDS Payouts, TLC

CONSTANTS w1, w2, w3

AllKinds == w1 :> "stripe" @@ w2 :> "airwallex" @@ w3 :> "bank"
OnlyAirwallex == w2 :> "airwallex"

Interchangeable == Permutations(Transfers) \union Permutations(Handlers)
=============================================================================
