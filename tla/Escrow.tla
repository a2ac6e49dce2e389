-------------------------------- MODULE Escrow --------------------------------
(***************************************************************************)
(* What KHS promises about the money of a card payment, whatever requests  *)
(* and webhooks do: it is taken from the customer at most once, kept until *)
(* the booking is finished or cancelled, and then either given back or     *)
(* paid to the salon.  BookingPayments implements it.                      *)
(***************************************************************************)
CONSTANT Payments

VARIABLE place   \* where each payment's money is

Init == place = [p \in Payments |-> "customer"]

Move(S, from, to) ==
  /\ \A p \in S : place[p] = from
  /\ place' = [p \in Payments |-> IF p \in S THEN to ELSE place[p]]

Take(p) == Move({p}, "customer", "kept")
Return(p) == Move({p}, "kept", "returned")

\* One finished or late-cancelled booking pays out all it held.
PayOut(S) == Move(S, "kept", "salon")

Next ==
  \/ \E p \in Payments : Take(p) \/ Return(p)
  \/ \E S \in SUBSET Payments : PayOut(S)

Spec == Init /\ [][Next]_place
=============================================================================
