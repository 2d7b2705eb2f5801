---------------------------- MODULE MCAnswerCache ----------------------------
(* Values of the constants of AnswerCache for TLC. *)
EXTENDS AnswerCache, TLC

CONSTANTS q1, q2, w1, p1, p2

Ask(scope, level) == [scope |-> scope, level |-> level]

OneAsk == {Ask({1}, 0)}
\* A user of one base, and one with more bases and a higher level.
FewBases == {Ask({1}, 0), Ask({1, 2}, 1)}
\* The fourth of four bases is cut off in the key.
FourBases == {Ask({1, 2, 3, 4}, 0)}

OneProcess == (q1 :> p1) @@ (q2 :> p1) @@ (w1 :> p1)
\* The writer shares a process with one of the requests.
TwoProcesses == (q1 :> p1) @@ (q2 :> p2) @@ (w1 :> p1)

\* The requests of one process are alike (only for the safety run).
Symmetry == Permutations({q1, q2})
=============================================================================
