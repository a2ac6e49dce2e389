------------------------------ MODULE MCSessions ------------------------------
(* An instance of Sessions for TLC: two sessions, a browser with two tabs. *)
EXTENDS Sessions, TLC

Alike == Permutations(Handlers) \union Permutations(Sids) \union Permutations(Tokens)
=============================================================================
