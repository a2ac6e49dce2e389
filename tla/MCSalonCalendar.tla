---------------------------- MODULE MCSalonCalendar ----------------------------
(* An instance of SalonCalendar for TLC. *)
EXTENDS SalonCalendar, TLC

CONSTANTS o1, o2

\* o1 is two services, of two units and of one; o2 is one service.
Lengths == o1 :> 3 @@ o2 :> 1
LongestServices == o1 :> 2 @@ o2 :> 1

Interchangeable == Permutations(Handlers) \union Permutations(Days)
=============================================================================
