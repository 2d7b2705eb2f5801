------------------------------ MODULE MCKbIndex ------------------------------
(* Instances of KbIndex for TLC. *)
EXTENDS KbIndex, TLC

\* Job slots are interchangeable.  Not for runs with a liveness property.
Symmetry == Permutations(Jobs)
==============================================================================
