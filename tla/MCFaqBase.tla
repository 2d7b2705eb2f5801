------------------------------ MODULE MCFaqBase ------------------------------
(* Values of the constants of FaqBase for TLC. *)
EXTENDS FaqBase, TLC

CONSTANTS d1, d2, qa, qb, qc

\* Questions that are not compound are alike.
Symmetry == Permutations({qb, qc})
=============================================================================
