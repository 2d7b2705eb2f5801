------------------------------ MODULE MCFaqQueue ------------------------------
(* Values of the constants of FaqQueue for TLC. *)
EXTENDS FaqQueue

CONSTANTS p1, p2, p3, d1
=============================================================================
