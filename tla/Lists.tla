--------------------------------- MODULE Lists ---------------------------------
(***************************************************************************)
(* Python's sorted and its list comprehensions, by what they give: a set   *)
(* in the order of a relation, and the items of a list at some of its      *)
(* places.                                                                 *)
(***************************************************************************)
EXTENDS Integers, Sequences, FiniteSets

\* The members of S, each behind those that R puts before it; R is a set of
\* pairs and a strict total order on S.
Sorted(S, R) ==
    LET place == [x \in S |-> 1 + Cardinality({y \in S : <<y, x>> \in R})]
    IN  [k \in 1..Cardinality(S) |-> CHOOSE x \in S : place[x] = k]

\* Numbers, the least first.
InOrder(S) == Sorted(S, {p \in S \X S : p[1] < p[2]})

\* The greatest score first, and of equal scores the least place.
BestFirst(S, score, place) ==
    Sorted(S, {p \in S \X S : \/ score[p[1]] > score[p[2]]
                              \/ score[p[1]] = score[p[2]] /\ place[p[1]] < place[p[2]]})

\* The items of s at the places I, in their order.
Sift(s, I) == LET at == InOrder(I \cap DOMAIN s) IN [k \in DOMAIN at |-> s[at[k]]]
=============================================================================
