------------------------------ MODULE MCSessions ------------------------------
(* Sessions of one identity, small enough to check. *)
EXTENDS Sessions, TLC

CONSTANTS s1, s2, a1, a2

IdsSym == Permutations({s1, s2}) \cup Permutations({a1, a2})
=============================================================================
