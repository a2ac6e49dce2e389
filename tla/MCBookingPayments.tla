--------------------------- MODULE MCBookingPayments ---------------------------
(* Instances of BookingPayments for TLC. *)
EXTENDS BookingPayments, TLC

CONSTANTS o1, o2, i1, i2, h1, h2

OneOrder == [i \in Intents |-> o1]

\* Prices in the smallest unit that tells apart a gift card covering the whole
\* booking, a part of it, and none of it.
PaidPrice == o1 :> 2
PaidAndFree == o1 :> 2 @@ o2 :> 0
=============================================================================
