----------------------------- MODULE Search_proofs -----------------------------
(***************************************************************************)
(* Proofs about FAQs around their rows (FaqQueue, FaqLookup, FaqDrafts)    *)
(* and about finding and embedding text (Retrieval, Embedding), for any    *)
(* number of processes, lookups and writers, and lists of any length.      *)
(* Chunking_proofs goes on from here.                                      *)
(*                                                                         *)
(* First come lists: functions built step by step, sorting, parts of a     *)
(* list, a list of lists put together.  Then each component has its own    *)
(* section, which says what its argument is.                               *)
(***************************************************************************)
EXTENDS FaqQueue, Search, FiniteSetTheorems, FunctionTheorems, SequenceTheorems, WellFoundedInduction, TLAPS


-----------------------------------------------------------------------------
(* Numbers and functions built step by step *)

\* A nonempty set of numbers has a least one.
LEMMA LeastThereIs ==
    ASSUME NEW S, S \subseteq Nat, S # {}
    PROVE  \E m \in S : \A i \in S : m <= i
<1> DEFINE below == OpToRel(<, Nat)
<1>1. IsWellFoundedOn(below, Nat)
  BY NatLessThanWellFounded
<1>2. ASSUME NEW x \in Nat, NEW y \in Nat, y < x PROVE <<y, x>> \in below
  BY <1>2 DEF OpToRel
<1> HIDE DEF below
<1>3. PICK m \in S : \A y \in S : ~(<<y, m>> \in below)
  BY <1>1, WFMin
<1>4. ASSUME NEW i \in S PROVE m <= i
  <2>1. i \in Nat /\ m \in Nat
    BY <1>3
  <2>2. ~(i < m)
    BY <1>2, <1>3, <2>1
  <2> QED BY <2>1, <2>2
<1> QED BY <1>4

\* What holds of 0 and goes on holds of every number.
LEMMA Upwards == ASSUME NEW T, T \subseteq Nat, 0 \in T, \A n \in T : n + 1 \in T PROVE Nat = T
<1> SUFFICES ASSUME NEW m \in Nat, m \notin T PROVE FALSE
  OBVIOUS
<1>1. PICK n \in Nat \ T : \A k \in Nat \ T : n <= k
  <2>1. Nat \ T \subseteq Nat /\ Nat \ T # {}
    OBVIOUS
  <2> QED BY <2>1, LeastThereIs
<1>2. n # 0 /\ n - 1 \in Nat /\ n - 1 \in T
  BY <1>1
<1> QED BY <1>1, <1>2

\* f is built from v by step.
BuiltBy(f, v, step, n) == f[0] = v /\ \A i \in 1..n : f[i] = step[<<i, f[i - 1]>>]

\* What is defined step by step exists.
LEMMA StepByStep ==
    ASSUME NEW V, NEW v \in V, NEW n \in Nat, NEW step \in [(1..n) \X V -> V]
    PROVE  \E f \in [0..n -> V] : BuiltBy(f, v, step, n)
<1> DEFINE Upto(m) == \E f \in [0..m -> V] : f[0] = v /\ \A i \in 1..m : f[i] = step[<<i, f[i - 1]>>]
           T == {m \in Nat : m <= n => Upto(m)}
<1>1. 0 \in T
  <2> DEFINE f == [i \in 0..0 |-> v]
  <2>1. f \in [0..0 -> V] /\ f[0] = v /\ \A i \in 1..0 : f[i] = step[<<i, f[i - 1]>>]
    OBVIOUS
  <2>2. Upto(0)
    BY <2>1
  <2> QED BY <2>2
<1>2. ASSUME NEW m \in T PROVE m + 1 \in T
  <2> SUFFICES ASSUME m + 1 <= n PROVE Upto(m + 1)
    OBVIOUS
  <2>1. m \in Nat /\ Upto(m)
    OBVIOUS
  <2>2. PICK f \in [0..m -> V] : f[0] = v /\ \A i \in 1..m : f[i] = step[<<i, f[i - 1]>>]
    BY <2>1
  <2> DEFINE x == step[<<m + 1, f[m]>>]
             g == [i \in 0..(m + 1) |-> IF i = m + 1 THEN x ELSE f[i]]
  <2>3. x \in V
    <3>1. m + 1 \in 1..n /\ f[m] \in V
      BY <2>1
    <3> QED BY <3>1
  <2>4. g \in [0..(m + 1) -> V]
    BY <2>1, <2>3
  <2>5. ASSUME NEW i \in 1..(m + 1) PROVE g[i] = step[<<i, g[i - 1]>>]
    <3>1. CASE i = m + 1
      BY SMTT(30), <2>1, <3>1
    <3>2. CASE i # m + 1
      <4>1. i \in 1..m /\ i \in 0..(m + 1) /\ i - 1 \in 0..(m + 1) /\ i - 1 # m + 1
        BY <2>1, <3>2
      <4> QED BY <2>2, <4>1, <3>2
    <3> QED BY <3>1, <3>2
  <2>6. g[0] = v
    BY <2>1, <2>2
  <2> HIDE DEF g
  <2> QED BY <2>4, <2>5, <2>6
<1>3. n \in T
  <2>1. T \subseteq Nat
    OBVIOUS
  <2> HIDE DEF T
  <2> QED BY <2>1, <1>1, <1>2, Upwards
<1> QED BY <1>3 DEF BuiltBy


\* The least and the greatest of two numbers.
LEMMA LesserOf ==
    ASSUME NEW a_ \in Int, NEW b_ \in Int
    PROVE  Min({a_, b_}) = IF a_ <= b_ THEN a_ ELSE b_
<1>1. \E x \in {a_, b_} : \A y \in {a_, b_} : x <= y
  OBVIOUS
<1>2. Min({a_, b_}) \in {a_, b_} /\ \A y \in {a_, b_} : Min({a_, b_}) <= y
  BY <1>1 DEF Min
<1> QED BY <1>2

LEMMA GreaterOf ==
    ASSUME NEW a_ \in Int, NEW b_ \in Int
    PROVE  Max({a_, b_}) = IF a_ >= b_ THEN a_ ELSE b_
<1>1. \E x \in {a_, b_} : \A y \in {a_, b_} : x >= y
  OBVIOUS
<1>2. Max({a_, b_}) \in {a_, b_} /\ \A y \in {a_, b_} : Max({a_, b_}) >= y
  BY <1>1 DEF Max
<1> QED BY <1>2

\* The least of a nonempty set of numbers, and the greatest of a bounded one.
LEMMA LeastOf ==
    ASSUME NEW S, S \subseteq Nat, S # {}
    PROVE  Min(S) \in S /\ \A y \in S : Min(S) <= y
<1>1. \E x \in S : \A y \in S : x <= y
  BY LeastThereIs
<1> QED BY <1>1 DEF Min

LEMMA GreatestOf ==
    ASSUME NEW S, S \subseteq Nat, S # {}, NEW n \in Nat, \A y \in S : y <= n
    PROVE  Max(S) \in S /\ \A y \in S : Max(S) >= y
<1> DEFINE D == {d_ \in Nat : \E y \in S : d_ = n - y}
<1>1. D \subseteq Nat /\ D # {}
  <2>1. PICK y \in S : TRUE
    OBVIOUS
  <2>2. n - y \in D
    BY <2>1
  <2> QED BY <2>2
<1>2. PICK m \in D : \A i \in D : m <= i
  <2> HIDE DEF D
  <2> QED BY <1>1, LeastThereIs
<1>3. PICK x \in S : m = n - x
  BY <1>2
<1>4. \A y \in S : x >= y
  <2> TAKE y \in S
  <2>1. n - y \in D
    OBVIOUS
  <2>2. m <= n - y
    BY <1>2, <2>1
  <2> QED BY <1>3, <2>2
<1>5. \E z \in S : \A y \in S : z >= y
  BY <1>4
<1> QED BY <1>5 DEF Max

-----------------------------------------------------------------------------
(* Sorting *)

\* R puts the members of S one behind the other.
Orders(R, S) ==
    /\ \A x \in S : <<x, x>> \notin R
    /\ \A x, y, z \in S : <<x, y>> \in R /\ <<y, z>> \in R => <<x, z>> \in R
    /\ \A x, y \in S : x # y => <<x, y>> \in R \/ <<y, x>> \in R

\* s lists the members of S in the order of R.
Lists_(s, S, R) ==
    /\ Len(s) = Cardinality(S) /\ Cardinality(S) \in Nat /\ s \in [1..Cardinality(S) -> S] /\ s \in Seq(S)
    /\ \A i, j \in 1..Cardinality(S) : i < j => <<s[i], s[j]>> \in R
    /\ \A x \in S : \E i \in 1..Cardinality(S) : s[i] = x

LEMMA SortedWell ==
    ASSUME NEW S, IsFiniteSet(S), NEW R, Orders(R, S)
    PROVE  Lists_(Sorted(S, R), S, R)
<1> DEFINE n == Cardinality(S)
           Below(x) == {y \in S : <<y, x>> \in R}
           place == [x \in S |-> 1 + Cardinality(Below(x))]
           s == [k \in 1..n |-> CHOOSE x \in S : place[x] = k]
<1>1. Sorted(S, R) = s
  BY DEF Sorted
<1>2. n \in Nat /\ IsFiniteSet(1..n) /\ Cardinality(1..n) = n
  BY FS_CardinalityType, FS_Interval
<1>3. ASSUME NEW x \in S PROVE IsFiniteSet(Below(x)) /\ Cardinality(Below(x)) \in Nat /\ Cardinality(Below(x)) + 1 <= n
  <2>1. Below(x) \in SUBSET S /\ x \notin Below(x)
    BY DEF Orders
  <2>2. IsFiniteSet(Below(x)) /\ Cardinality(Below(x)) <= n /\ (n = Cardinality(Below(x)) => S = Below(x))
    BY <2>1, FS_Subset
  <2>3. Cardinality(Below(x)) \in Nat
    BY <2>2, FS_CardinalityType
  <2> QED BY <1>2, <2>1, <2>2, <2>3
<1>4. place \in [S -> 1..n]
  <2> SUFFICES ASSUME NEW x \in S PROVE 1 + Cardinality(Below(x)) \in 1..n
    OBVIOUS
  <2> HIDE DEF Below, n
  <2> QED BY <1>2, <1>3
<1>5. ASSUME NEW x \in S, NEW y \in S, <<x, y>> \in R PROVE place[x] < place[y]
  <2>1. Below(x) \cup {x} \in SUBSET Below(y) /\ x \notin Below(x)
    BY <1>5 DEF Orders
  <2>2. Cardinality(Below(x) \cup {x}) = Cardinality(Below(x)) + 1
    BY <1>3, <2>1, FS_AddElement
  <2>3. Cardinality(Below(x) \cup {x}) <= Cardinality(Below(y))
    BY <1>3, <2>1, FS_Subset
  <2>4. Cardinality(Below(x)) \in Nat /\ Cardinality(Below(y)) \in Nat
    BY <1>3
  <2>5. place[x] = 1 + Cardinality(Below(x)) /\ place[y] = 1 + Cardinality(Below(y))
    OBVIOUS
  <2> HIDE DEF Below, place
  <2> QED BY <2>2, <2>3, <2>4, <2>5
<1> HIDE DEF place
<1>6. \A x, y \in S : place[x] = place[y] => x = y
  <2> SUFFICES ASSUME NEW x \in S, NEW y \in S, x # y PROVE place[x] # place[y]
    OBVIOUS
  <2>1. place[x] \in 1..n /\ place[y] \in 1..n
    BY <1>4
  <2>2. place[x] < place[y] \/ place[y] < place[x]
    BY <1>5 DEF Orders
  <2> QED BY <1>2, <2>1, <2>2
<1>7. place \in Injection(S, 1..n)
  BY <1>4, <1>6, Fun_IsInj
<1>8. \A k \in 1..n : \E x \in S : place[x] = k
  <2>1. place \in Surjection(S, 1..n)
    BY <1>2, <1>7, FS_Injection
  <2> QED BY <2>1, Fun_SurjectionProperties
<1>9. \A k \in 1..n : s[k] \in S /\ place[s[k]] = k
  BY <1>8
<1>10. s \in [1..n -> S] /\ DOMAIN s = 1..n
  BY <1>9
<1> HIDE DEF s, n
<1>11. \A i, j \in 1..n : i < j => <<s[i], s[j]>> \in R
  <2> SUFFICES ASSUME NEW i \in 1..n, NEW j \in 1..n, i < j PROVE <<s[i], s[j]>> \in R
    OBVIOUS
  <2>1. s[i] \in S /\ s[j] \in S /\ place[s[i]] = i /\ place[s[j]] = j
    BY <1>9
  <2>2. s[i] # s[j] /\ ~(place[s[j]] < place[s[i]])
    BY <1>2, <2>1
  <2>3. <<s[j], s[i]>> \notin R
    BY <1>5, <2>1, <2>2
  <2> QED BY <2>1, <2>2, <2>3 DEF Orders
<1>12. \A x \in S : \E i \in 1..n : s[i] = x
  <2> TAKE x \in S
  <2>1. place[x] \in 1..n
    BY <1>4
  <2>2. s[place[x]] = x
    BY <1>6, <1>9, <2>1
  <2> QED BY <2>1, <2>2
<1>13. s \in Seq(S) /\ Len(s) = n
  BY <1>2, <1>10
<1> QED BY <1>1, <1>2, <1>10, <1>11, <1>12, <1>13 DEF Lists_, n

\* Numbers are ordered.
LEMMA InOrderWell ==
    ASSUME NEW S, S \subseteq Int, IsFiniteSet(S)
    PROVE  /\ Cardinality(S) \in Nat /\ Len(InOrder(S)) = Cardinality(S)
           /\ InOrder(S) \in [1..Cardinality(S) -> S] /\ InOrder(S) \in Seq(S)
           /\ \A i, j \in 1..Cardinality(S) : i < j => InOrder(S)[i] < InOrder(S)[j]
           /\ \A x \in S : \E i \in 1..Cardinality(S) : InOrder(S)[i] = x
<1> DEFINE R == {p \in S \X S : p[1] < p[2]}
<1>1. \A x, y \in S : <<x, y>> \in R <=> x < y
  OBVIOUS
<1> HIDE DEF R
<1>2. Orders(R, S)
  BY <1>1 DEF Orders
<1>3. Lists_(InOrder(S), S, R)
  BY <1>2, SortedWell DEF InOrder, R
<1>4. \A i, j \in 1..Cardinality(S) : i < j => InOrder(S)[i] < InOrder(S)[j]
  <2> TAKE i, j \in 1..Cardinality(S)
  <2> HAVE i < j
  <2>1. <<InOrder(S)[i], InOrder(S)[j]>> \in R
    BY <1>3 DEF Lists_
  <2>2. InOrder(S)[i] \in S /\ InOrder(S)[j] \in S
    BY <1>3 DEF Lists_
  <2> QED BY <1>1, <2>1, <2>2
<1> QED BY <1>3, <1>4 DEF Lists_

\* Best first: a score that is not less, and of equal ones the least place.
LEMMA BestFirstWell ==
    ASSUME NEW S, IsFiniteSet(S), NEW score, NEW place,
           \A x \in S : score[x] \in Int /\ place[x] \in Int,
           \A x, y \in S : place[x] = place[y] => x = y
    PROVE  LET s == BestFirst(S, score, place)
               n == Cardinality(S)
           IN  /\ n \in Nat /\ Len(s) = n /\ s \in [1..n -> S] /\ s \in Seq(S)
               /\ \A i, j \in 1..n : i < j => /\ score[s[i]] >= score[s[j]]
                                              /\ s[i] # s[j]
               /\ \A x \in S : \E i \in 1..n : s[i] = x
<1> DEFINE s == BestFirst(S, score, place)
           n == Cardinality(S)
           R == {p \in S \X S : \/ score[p[1]] > score[p[2]]
                                \/ score[p[1]] = score[p[2]] /\ place[p[1]] < place[p[2]]}
<1>1. \A x, y \in S : <<x, y>> \in R <=> score[x] > score[y] \/ (score[x] = score[y] /\ place[x] < place[y])
  OBVIOUS
<1>2. \A x \in S : score[x] \in Int /\ place[x] \in Int
  OBVIOUS
<1> HIDE DEF R, s
<1>3. Orders(R, S)
  <2>1. \A x \in S : <<x, x>> \notin R
    BY <1>1, <1>2
  <2>2. ASSUME NEW x \in S, NEW y \in S, NEW z \in S, <<x, y>> \in R, <<y, z>> \in R PROVE <<x, z>> \in R
    BY <1>1, <1>2, <2>2
  <2>3. ASSUME NEW x \in S, NEW y \in S, x # y PROVE <<x, y>> \in R \/ <<y, x>> \in R
    BY <1>1, <1>2, <2>3
  <2> QED BY <2>1, <2>2, <2>3 DEF Orders
<1>4. Lists_(s, S, R)
  BY <1>3, SortedWell DEF BestFirst, R, s
<1>5. ASSUME NEW i \in 1..n, NEW j \in 1..n, i < j PROVE score[s[i]] >= score[s[j]] /\ s[i] # s[j]
  <2>1. s[i] \in S /\ s[j] \in S /\ <<s[i], s[j]>> \in R
    BY <1>4, <1>5 DEF Lists_
  <2> QED BY <1>1, <1>2, <2>1
<1>6. n \in Nat /\ Len(s) = n /\ s \in [1..n -> S] /\ s \in Seq(S) /\ \A x \in S : \E i \in 1..n : s[i] = x
  BY <1>4 DEF Lists_
<1> QED BY <1>5, <1>6 DEF s, n


\* at lists the n numbers of A in their order; there is one such list.
Listed(A, n, at) ==
    /\ at \in [1..n -> A] /\ \A i, j \in 1..n : i < j => at[i] < at[j]
    /\ \A x \in A : \E i \in 1..n : at[i] = x

LEMMA ListedOnce ==
    ASSUME NEW S, S \subseteq Int, NEW m \in Nat, NEW n \in Nat, NEW s, NEW t, Listed(S, m, s), Listed(S, n, t)
    PROVE  m = n /\ s = t
<1> SUFFICES ASSUME s \in [1..m -> S], t \in [1..n -> S],
                    \A i, j \in 1..m : i < j => s[i] < s[j], \A x \in S : \E i \in 1..m : s[i] = x,
                    \A i, j \in 1..n : i < j => t[i] < t[j], \A x \in S : \E i \in 1..n : t[i] = x
             PROVE  m = n /\ s = t
  BY DEF Listed
<1> DEFINE T == {k \in Nat : \A i \in 1..k : i \in 1..m => i \in 1..n /\ s[i] = t[i]}
<1>1. \A i \in 1..m : s[i] \in Int /\ s[i] \in S
  OBVIOUS
<1>2. \A i \in 1..n : t[i] \in Int /\ t[i] \in S
  OBVIOUS
<1>3. 0 \in T
  OBVIOUS
<1>4. ASSUME NEW k \in T PROVE k + 1 \in T
  <2>1. k \in Nat /\ \A i \in 1..k : i \in 1..m => i \in 1..n /\ s[i] = t[i]
    OBVIOUS
  <2>2. SUFFICES ASSUME k + 1 \in 1..m PROVE k + 1 \in 1..n /\ s[k + 1] = t[k + 1]
    <3>1. \A i \in 1..(k + 1) : i \in 1..k \/ i = k + 1
      BY <2>1
    <3> QED BY <2>1, <3>1
  <2>3. PICK j \in 1..n : t[j] = s[k + 1]
    BY <1>1, <2>2
  <2>4. j > k
    <3> SUFFICES ASSUME j <= k PROVE FALSE
      BY <2>1
    <3>1. j \in 1..k /\ j \in 1..m /\ j < k + 1
      BY <2>1, <2>2
    <3>2. s[j] = t[j] /\ s[j] < s[k + 1]
      BY <2>1, <2>2, <3>1
    <3> QED BY <1>1, <2>2, <2>3, <3>1, <3>2
  <2>5. k + 1 \in 1..n
    BY <2>1, <2>3, <2>4
  <2>6. PICK i \in 1..m : s[i] = t[k + 1]
    BY <1>2, <2>5
  <2>7. i > k
    <3> SUFFICES ASSUME i <= k PROVE FALSE
      BY <2>1
    <3>1. i \in 1..k /\ i < k + 1 /\ i \in 1..n
      BY <2>1, <2>6
    <3>2. s[i] = t[i] /\ t[i] < t[k + 1]
      BY <2>1, <2>5, <2>6, <3>1
    <3> QED BY <1>2, <2>5, <2>6, <3>1, <3>2
  <2>8. s[k + 1] <= s[i]
    <3>1. k + 1 = i \/ k + 1 < i
      BY <2>1, <2>6, <2>7
    <3> QED BY SMTT(30), <1>1, <2>2, <2>6, <3>1
  <2>9. t[k + 1] <= t[j]
    <3>1. k + 1 = j \/ k + 1 < j
      BY <2>1, <2>3, <2>4
    <3> QED BY <1>2, <2>3, <2>5, <3>1
  <2>10. s[k + 1] \in Int /\ t[k + 1] \in Int /\ s[i] \in Int /\ t[j] \in Int
    BY <1>1, <1>2, <2>2, <2>3, <2>5, <2>6
  <2>11. s[k + 1] = t[k + 1]
    BY <2>3, <2>6, <2>8, <2>9, <2>10
  <2> QED BY <2>5, <2>11
<1>5. m \in T
  <2>1. T \subseteq Nat
    OBVIOUS
  <2> HIDE DEF T
  <2> QED BY <2>1, <1>3, <1>4, Upwards
<1>6. \A i \in 1..m : i \in 1..n /\ s[i] = t[i]
  BY <1>5
<1> HIDE DEF T
<1>7. m <= n
  <2>1. m = 0 \/ m \in 1..m
    OBVIOUS
  <2> QED BY <1>6, <2>1
<1>8. n <= m
  <2> SUFFICES ASSUME n > m PROVE FALSE
    OBVIOUS
  <2>1. m + 1 \in 1..n
    OBVIOUS
  <2>2. PICK i \in 1..m : s[i] = t[m + 1]
    BY <1>2, <2>1
  <2>3. i \in 1..n /\ i < m + 1 /\ s[i] = t[i]
    BY <1>6, <2>2
  <2>4. t[i] < t[m + 1]
    BY <2>1, <2>3
  <2> QED BY <1>2, <2>1, <2>2, <2>3, <2>4
<1> QED BY <1>6, <1>7, <1>8

-----------------------------------------------------------------------------
(* Parts of lists *)

\* at are the places of s in I, in their order.
Places(at, n, I) ==
    /\ n \in Nat /\ at \in [1..n -> I] /\ n = Cardinality(I)
    /\ \A i, j \in 1..n : i < j => at[i] < at[j]
    /\ \A x \in I : \E i \in 1..n : at[i] = x

Sifted(s, I) == InOrder(I \cap DOMAIN s)
SiftedBy(s, I, t, at) == \A k \in 1..Len(t) : at[k] \in DOMAIN s /\ at[k] \in I /\ t[k] = s[at[k]]

LEMMA SiftWell ==
    ASSUME NEW V, NEW s \in Seq(V), NEW I
    PROVE  /\ Sift(s, I) \in Seq(V) /\ Len(Sift(s, I)) <= Len(s) /\ Len(Sift(s, I)) \in Nat
           /\ DOMAIN Sift(s, I) = 1..Len(Sift(s, I))
           /\ Places(Sifted(s, I), Len(Sift(s, I)), I \cap DOMAIN s)
           /\ SiftedBy(s, I, Sift(s, I), Sifted(s, I))
<1> DEFINE J == I \cap DOMAIN s
           n == Cardinality(J)
           at == InOrder(J)
           t == [k \in 1..n |-> s[at[k]]]
<1>1. DOMAIN s = 1..Len(s) /\ Len(s) \in Nat /\ \A i \in DOMAIN s : s[i] \in V
  OBVIOUS
<1>2. IsFiniteSet(J) /\ J \subseteq Int /\ n <= Len(s)
  <2>1. J \in SUBSET (1..Len(s)) /\ IsFiniteSet(1..Len(s)) /\ Cardinality(1..Len(s)) = Len(s)
    BY <1>1, FS_Interval
  <2> QED BY <2>1, FS_Subset
<1>3. Places(at, n, J)
  BY <1>2, InOrderWell DEF Places
<1>4. DOMAIN at = 1..n
  BY <1>2, InOrderWell
<1>5. Sift(s, I) = t
  BY <1>4 DEF Sift
<1>6. n \in Nat /\ \A k \in 1..n : at[k] \in J
  BY <1>3 DEF Places
<1> HIDE DEF n, at
<1>7. t \in Seq(V) /\ Len(t) = n /\ DOMAIN t = 1..n
  <2>1. \A k \in 1..n : s[at[k]] \in V
    BY <1>1, <1>6
  <2>2. t \in [1..n -> V]
    BY <2>1
  <2> QED BY <1>6, <2>2
<1>8. \A k \in 1..n : at[k] \in DOMAIN s /\ at[k] \in I /\ t[k] = s[at[k]]
  BY <1>6
<1> HIDE DEF t
<1> QED BY <1>2, <1>3, <1>5, <1>6, <1>7, <1>8 DEF J, at, Sifted, SiftedBy

\* The first n items of a list, or all.
LEMMA CutWell ==
    ASSUME NEW V, NEW s \in Seq(V), NEW n \in Nat
    PROVE  /\ Cut_(s, n) \in Seq(V) /\ Len(Cut_(s, n)) = (IF n <= Len(s) THEN n ELSE Len(s))
           /\ DOMAIN Cut_(s, n) = 1..Len(Cut_(s, n)) /\ Len(Cut_(s, n)) \in Nat
           /\ \A i \in 1..Len(Cut_(s, n)) : i \in DOMAIN s /\ Cut_(s, n)[i] = s[i]
<1> DEFINE m == IF n <= Len(s) THEN n ELSE Len(s)
<1>1. Len(s) \in Nat /\ DOMAIN s = 1..Len(s) /\ \A i \in 1..Len(s) : s[i] \in V
  OBVIOUS
<1>2. Cut_(s, n) = SubSeq(s, 1, m)
  BY <1>1, LesserOf DEF Cut_
<1>3. m \in Nat /\ m <= Len(s)
  BY <1>1
<1> HIDE DEF m
<1>4. \A i \in 1..m : s[i] \in V /\ i \in DOMAIN s
  BY <1>1, <1>3
<1>5. /\ SubSeq(s, 1, m) \in Seq(V)
      /\ Len(SubSeq(s, 1, m)) = (IF 1 <= m THEN m - 1 + 1 ELSE 0)
      /\ \A i \in 1..(m - 1 + 1) : SubSeq(s, 1, m)[i] = s[1 + i - 1]
  BY <1>3, <1>4, SubSeqProperties
<1>6. Len(SubSeq(s, 1, m)) = m /\ \A i \in 1..m : SubSeq(s, 1, m)[i] = s[i]
  BY <1>3, <1>5
<1>7. DOMAIN SubSeq(s, 1, m) = 1..m
  BY <1>5, <1>6, LenProperties
<1> QED BY <1>2, <1>3, <1>4, <1>5, <1>6, <1>7 DEF m

-----------------------------------------------------------------------------
(* Lists of lists *)

\* FlattenSeq, step by step.
Flattens(f, s) == f[0] = <<>> /\ \A i \in 1..Len(s) : f[i] = f[i - 1] \o s[i]

LEMMA FlattensIs ==
    ASSUME NEW T, NEW s \in Seq(Seq(T)), NEW f \in [0..Len(s) -> Seq(T)], Flattens(f, s)
    PROVE  FlattenSeq(s) = f[Len(s)]
<1> DEFINE n == Len(s)
           flatten[i \in 1..Len(s)] == IF i = 1 THEN s[i] ELSE flatten[i - 1] \o s[i]
           g == [i \in 1..n |-> f[i]]
<1>1. n \in Nat /\ \A i \in 1..n : s[i] \in Seq(T) /\ f[i] = f[i - 1] \o s[i] /\ i - 1 \in 0..n
  BY SMTT(30) DEF Flattens
<1>a. ASSUME 1 \in 1..n PROVE f[1] = s[1]
  <2>1. f[1] = f[1 - 1] \o s[1] /\ s[1] \in Seq(T)
    BY <1>1, <1>a
  <2>2. f[1 - 1] = <<>>
    BY DEF Flattens
  <2> QED BY <2>1, <2>2, ConcatEmptySeq
<1>2. CASE n = 0
  <2>1. FlattenSeq(s) = s /\ s = <<>>
    BY <1>2, EmptySeq DEF FlattenSeq
  <2> QED BY <1>2, <2>1 DEF Flattens
<1>3. CASE n # 0
  <2>1. ASSUME NEW i \in 1..n PROVE g[i] = IF i = 1 THEN s[i] ELSE g[i - 1] \o s[i]
    <3>1. CASE i = 1
      <4>1. f[1] = s[1]
        BY <1>a, <3>1
      <4> QED BY <3>1, <4>1
    <3>2. CASE i # 1
      <4>1. i - 1 \in 1..n
        BY <1>1, <3>2
      <4> QED BY <1>1, <3>2, <4>1
    <3> QED BY <3>1, <3>2
  <2>2. g = [i \in 1..n |-> IF i = 1 THEN s[i] ELSE g[i - 1] \o s[i]]
    BY <2>1
  <2> HIDE DEF g
  <2>3. flatten = [i \in 1..n |-> IF i = 1 THEN s[i] ELSE flatten[i - 1] \o s[i]]
    BY <2>2
  <2>4. FlattenSeq(s) = flatten[n]
    BY <1>3 DEF FlattenSeq
  <2>x. \A i \in 1..n : flatten[i] = IF i = 1 THEN s[i] ELSE flatten[i - 1] \o s[i]
    <3> HIDE DEF flatten
    <3> QED BY <2>3
  <2> HIDE DEF flatten
  <2> DEFINE Same == {i \in Nat : i <= n => flatten[i] = f[i] \/ i = 0}
  <2>5. 0 \in Same
    OBVIOUS
  <2>6. ASSUME NEW i \in Same PROVE i + 1 \in Same
    <3> SUFFICES ASSUME i + 1 <= n PROVE flatten[i + 1] = f[i + 1]
      OBVIOUS
    <3>1. i \in Nat /\ i + 1 \in 1..n /\ (i + 1) - 1 = i
      BY <1>1
    <3>2. f[i + 1] = f[i] \o s[i + 1]
      BY <1>1, <3>1
    <3>3. CASE i = 0
      <4>1. f[1] = s[1]
        BY <1>a, <3>1, <3>3
      <4>2. flatten[1] = s[1]
        BY <2>x, <3>1, <3>3
      <4> QED BY <3>3, <4>1, <4>2
    <3>4. CASE i # 0
      <4>1. flatten[i] = f[i]
        BY <1>1, <3>1, <3>4
      <4>2. flatten[i + 1] = flatten[i] \o s[i + 1]
        <5>1. i + 1 # 1 /\ i + 1 \in 1..n
          BY <3>1, <3>4
        <5>2. flatten[i + 1] = flatten[(i + 1) - 1] \o s[i + 1]
          BY <2>x, <5>1
        <5> QED BY <3>1, <5>2
      <4> QED BY <3>2, <4>1, <4>2
    <3> QED BY <3>3, <3>4
  <2>7. n \in Same
    <3>1. Same \subseteq Nat
      OBVIOUS
    <3> HIDE DEF Same
    <3> QED BY <1>1, <2>5, <2>6, <3>1, Upwards
  <2> QED BY <1>1, <1>3, <2>4, <2>7
<1> QED BY <1>2, <1>3

LEMMA FlattensThereIs ==
    ASSUME NEW T, NEW s \in Seq(Seq(T))
    PROVE  \E f \in [0..Len(s) -> Seq(T)] : Flattens(f, s)
<1> DEFINE V == Seq(T)
           v == <<>>
           n == Len(s)
           step == [p \in (1..n) \X V |-> p[2] \o s[p[1]]]
<1>1. n \in Nat /\ \A i \in 1..n : s[i] \in V
  OBVIOUS
<1>2. v \in V
  OBVIOUS
<1>3. step \in [(1..n) \X V -> V]
  <2>1. ASSUME NEW i \in 1..n, NEW a \in V PROVE a \o s[i] \in V
    BY <1>1, ConcatProperties
  <2> QED BY <2>1
<1>4. \A i \in 1..n, a \in V : step[<<i, a>>] = a \o s[i]
  OBVIOUS
<1> HIDE DEF step, V, v, n
<1>5. PICK f \in [0..n -> V] : BuiltBy(f, v, step, n)
  BY <1>1, <1>2, <1>3, StepByStep
<1>6. \A i \in 1..n : f[i - 1] \in V
  BY <1>1
<1>7. f[0] = <<>> /\ \A i \in 1..n : f[i] = f[i - 1] \o s[i]
  BY <1>4, <1>5, <1>6 DEF BuiltBy, v
<1> QED BY <1>7 DEF V, n, Flattens

LEMMA FlattenTyped ==
    ASSUME NEW T, NEW s \in Seq(Seq(T)) PROVE FlattenSeq(s) \in Seq(T)
<1>1. PICK f \in [0..Len(s) -> Seq(T)] : Flattens(f, s)
  BY FlattensThereIs
<1>2. FlattenSeq(s) = f[Len(s)] /\ Len(s) \in 0..Len(s)
  BY <1>1, FlattensIs
<1> QED BY <1>2

LEMMA FlattenAppend ==
    ASSUME NEW T, NEW s \in Seq(Seq(T)), NEW x \in Seq(T)
    PROVE  FlattenSeq(Append(s, x)) = FlattenSeq(s) \o x
<1> DEFINE n == Len(s)
           t == Append(s, x)
<1>1. PICK f \in [0..n -> Seq(T)] : Flattens(f, s)
  BY FlattensThereIs
<1>2. /\ n \in Nat /\ t \in Seq(Seq(T)) /\ Len(t) = n + 1
      /\ \A i \in 1..n : t[i] = s[i]
      /\ t[n + 1] = x
  OBVIOUS
<1> DEFINE g == [i \in 0..(n + 1) |-> IF i = n + 1 THEN f[n] \o x ELSE f[i]]
<1>3. f[n] \in Seq(T) /\ f[n] \o x \in Seq(T)
  <2>1. f[n] \in Seq(T)
    BY <1>2
  <2> QED BY <2>1, ConcatProperties
<1>4. g \in [0..(n + 1) -> Seq(T)]
  BY <1>2, <1>3
<1>5. g[n + 1] = f[n] \o x /\ g[0] = <<>>
  BY <1>1, <1>2 DEF Flattens
<1>6. ASSUME NEW i \in 1..(n + 1) PROVE g[i] = g[i - 1] \o t[i]
  <2>1. i - 1 \in 0..(n + 1) /\ i - 1 # n + 1
    BY <1>2
  <2>2. g[i - 1] = f[i - 1]
    BY <2>1
  <2>3. CASE i = n + 1
    <3>1. (n + 1) - 1 = n /\ t[i] = x /\ g[i] = f[n] \o x /\ g[i - 1] = f[n]
      BY <1>2, <1>5, <2>2, <2>3
    <3> QED BY <3>1
  <2>4. CASE i # n + 1
    <3>1. i \in 1..n /\ g[i] = f[i]
      BY <1>2, <2>4
    <3>2. f[i] = f[i - 1] \o s[i]
      BY <1>1, <3>1 DEF Flattens
    <3> QED BY <1>2, <2>2, <3>1, <3>2
  <2> QED BY <2>3, <2>4
<1> HIDE DEF t, g
<1>7. FlattenSeq(t) = g[n + 1]
  BY <1>2, <1>4, <1>5, <1>6, FlattensIs DEF Flattens
<1>8. FlattenSeq(s) = f[n]
  BY <1>1, FlattensIs
<1> QED BY <1>5, <1>7, <1>8 DEF t

Regroups(a, b, c) == (a \o b) \o c = a \o (b \o c)
LEMMA Associates == \A T : \A a, b, c \in Seq(T) : Regroups(a, b, c)
  BY DEF Regroups

LEMMA FlattenHead ==
    ASSUME NEW T, NEW s \in Seq(Seq(T)), s # <<>>
    PROVE  FlattenSeq(s) = Head(s) \o FlattenSeq(Tail(s))
<1> DEFINE n == Len(s)
           t == Tail(s)
           h == Head(s)
<1>1. /\ n \in Nat /\ n >= 1 /\ h \in Seq(T) /\ h = s[1] /\ t \in Seq(Seq(T)) /\ Len(t) = n - 1
      /\ \A i \in 1..(n - 1) : t[i] = s[i + 1]
      /\ Len(s) = n /\ \A i \in 1..n : s[i] \in Seq(T)
  <2>1. n \in Nat /\ n # 0
    BY EmptySeq
  <2> QED BY <2>1, HeadTailProperties
<1> HIDE DEF h, t, n
<1>2. PICK f \in [0..(n - 1) -> Seq(T)] : Flattens(f, t)
  BY <1>1, FlattensThereIs
<1> DEFINE g == [i \in 0..n |-> IF i = 0 THEN <<>> ELSE h \o f[i - 1]]
<1>3. \A i \in 0..n : i # 0 => i - 1 \in 0..(n - 1) /\ f[i - 1] \in Seq(T) /\ g[i] = h \o f[i - 1]
  <2> SUFFICES ASSUME NEW i \in 0..n, i # 0
               PROVE  i - 1 \in 0..(n - 1) /\ f[i - 1] \in Seq(T) /\ g[i] = h \o f[i - 1]
    OBVIOUS
  <2>1. i - 1 \in 0..(n - 1)
    BY <1>1
  <2>2. f[i - 1] \in Seq(T)
    BY <2>1
  <2> QED BY <2>1, <2>2
<1>4. g \in [0..n -> Seq(T)] /\ g[0] = <<>>
  <2>1. \A i \in 0..n : i # 0 => h \o f[i - 1] \in Seq(T)
    BY <1>1, <1>3, ConcatProperties
  <2> QED BY <1>1, <2>1
<1>5. ASSUME NEW i \in 1..n PROVE g[i] = g[i - 1] \o s[i]
  <2>1. s[i] \in Seq(T) /\ g[i] = h \o f[i - 1] /\ i \in 0..n /\ i - 1 \in 0..n
    BY SMTT(30), <1>1, <1>3
  <2>2. CASE i = 1
    <3>1. f[0] = <<>> /\ g[1] = h \o f[0] /\ g[0] = <<>>
      <4>1. f[0] = <<>>
        BY <1>2 DEF Flattens
      <4>2. i - 1 = 0
        BY <2>2
      <4>3. g[1] = h \o f[0]
        BY <2>1, <2>2, <4>2
      <4> QED BY <1>4, <4>1, <4>3
    <3>2. h \o <<>> = h /\ <<>> \o s[1] = s[1]
      BY <1>1, <2>1, <2>2, ConcatEmptySeq
    <3> QED BY <1>1, <2>2, <3>1, <3>2
  <2>3. CASE i # 1
    <3>1. i - 1 \in 1..(n - 1) /\ i - 2 \in 0..(n - 1) /\ i - 1 # 0
      BY <1>1, <2>3
    <3>2. f[i - 1] = f[i - 2] \o t[i - 1] /\ t[i - 1] = s[i]
      <4>1. f[i - 1] = f[(i - 1) - 1] \o t[i - 1]
        BY <1>1, <1>2, <3>1 DEF Flattens
      <4>2. (i - 1) - 1 = i - 2 /\ (i - 1) + 1 = i
        OBVIOUS
      <4> QED BY <1>1, <3>1, <4>1, <4>2
    <3>3. g[i - 1] = h \o f[i - 2]
      <4>1. g[i - 1] = h \o f[(i - 1) - 1] /\ (i - 1) - 1 = i - 2
        BY <1>3, <2>1, <3>1
      <4> QED BY <4>1
    <3>4. f[i - 2] \in Seq(T)
      BY <3>1
    <3>5. (h \o f[i - 2]) \o s[i] = h \o (f[i - 2] \o s[i])
      <4>1. Regroups(h, f[i - 2], s[i])
        BY <1>1, <2>1, <3>4, Associates
      <4> QED BY <4>1, Zenon DEF Regroups
    <3> HIDE DEF g
    <3> QED BY <2>1, <3>2, <3>3, <3>5
  <2> QED BY <2>2, <2>3
<1> HIDE DEF g
<1>6. FlattenSeq(s) = g[n]
  BY <1>1, <1>4, <1>5, FlattensIs DEF Flattens
<1>7. FlattenSeq(t) = f[n - 1]
  BY <1>1, <1>2, FlattensIs
<1>8. g[n] = h \o f[n - 1]
  BY <1>1, <1>3
<1> QED BY <1>6, <1>7, <1>8 DEF h, t

LEMMA FlattenNothing ==
    ASSUME NEW T, NEW s \in Seq(Seq(T)), \A i \in DOMAIN s : s[i] = <<>> PROVE FlattenSeq(s) = <<>>
<1> DEFINE f == [i \in 0..Len(s) |-> <<>>]
<1>1. Len(s) \in Nat /\ DOMAIN s = 1..Len(s) /\ <<>> \in Seq(T)
  OBVIOUS
<1>2. <<>> \o <<>> = <<>>
  BY <1>1, ConcatEmptySeq
<1>3. f \in [0..Len(s) -> Seq(T)] /\ f[0] = <<>>
  BY <1>1
<1>4. ASSUME NEW i \in 1..Len(s) PROVE f[i] = f[i - 1] \o s[i]
  <2>1. i \in 0..Len(s) /\ i - 1 \in 0..Len(s) /\ s[i] = <<>>
    BY SMTT(30), <1>1
  <2> QED BY <1>2, <2>1
<1>5. f[Len(s)] = <<>>
  BY <1>1
<1> HIDE DEF f
<1> QED BY <1>3, <1>4, <1>5, FlattensIs DEF Flattens


\* Where the items of FlattenSeq(ss), which are those of f, come from.
FlatPlaces(ss, m, f, row, col) ==
    /\ row \in [1..Len(f) -> Nat] /\ col \in [1..Len(f) -> Nat]
    /\ \A k \in 1..Len(f) : row[k] \in 1..m /\ col[k] \in DOMAIN ss[row[k]] /\ f[k] = ss[row[k]][col[k]]
    /\ \A k, l \in 1..Len(f) : k < l => row[k] < row[l] \/ (row[k] = row[l] /\ col[k] < col[l])
    /\ \A i \in 1..m : \A j \in DOMAIN ss[i] : \E k \in 1..Len(f) : row[k] = i /\ col[k] = j

LEMMA FlatGrows ==
    ASSUME NEW T, NEW ss \in Seq(Seq(T)), NEW m \in Nat, m + 1 <= Len(ss), NEW f \in Seq(T), NEW row, NEW col,
           FlatPlaces(ss, m, f, row, col)
    PROVE  \E r, c_ : FlatPlaces(ss, m + 1, f \o ss[m + 1], r, c_)
<1> DEFINE x == ss[m + 1]
           n == Len(f)
           g == f \o x
           r == [k \in 1..Len(g) |-> IF k <= n THEN row[k] ELSE m + 1]
           c_ == [k \in 1..Len(g) |-> IF k <= n THEN col[k] ELSE k - n]
<1>1. x \in Seq(T) /\ n \in Nat /\ Len(x) \in Nat /\ DOMAIN x = 1..Len(x)
  OBVIOUS
<1>2. Len(g) = n + Len(x) /\ Len(g) \in Nat /\ \A k \in 1..(n + Len(x)) : g[k] = IF k <= n THEN f[k] ELSE x[k - n]
  BY <1>1, ConcatProperties
<1>3. \A k \in 1..n : row[k] \in 1..m /\ row[k] \in Nat /\ col[k] \in Nat /\ col[k] \in DOMAIN ss[row[k]] /\ f[k] = ss[row[k]][col[k]]
  BY DEF FlatPlaces
<1> HIDE DEF n, g, x
<1>4. \A k \in 1..Len(g) : \/ k \in 1..n /\ k <= n /\ r[k] = row[k] /\ c_[k] = col[k] /\ g[k] = f[k]
                           \/ k > n /\ k - n \in 1..Len(x) /\ r[k] = m + 1 /\ c_[k] = k - n /\ g[k] = x[k - n]
  <2> TAKE k \in 1..Len(g)
  <2>1. CASE k <= n
    <3>1. k \in 1..n /\ g[k] = f[k]
      BY <1>1, <1>2, <2>1
    <3> QED BY <2>1, <3>1
  <2>2. CASE ~(k <= n)
    <3>1. k > n /\ k - n \in 1..Len(x) /\ g[k] = x[k - n]
      BY <1>1, <1>2, <2>2
    <3> QED BY <2>2, <3>1
  <2> QED BY <2>1, <2>2
<1>5. \A k \in 1..Len(g) : r[k] \in Nat /\ c_[k] \in Nat
  BY <1>1, <1>3, <1>4
<1>6. r \in [1..Len(g) -> Nat] /\ c_ \in [1..Len(g) -> Nat]
  BY <1>5
<1> HIDE DEF r, c_
<1>7. ASSUME NEW k \in 1..Len(g) PROVE r[k] \in 1..(m + 1) /\ c_[k] \in DOMAIN ss[r[k]] /\ g[k] = ss[r[k]][c_[k]]
  <2>1. CASE k <= n
    <3>1. k \in 1..n /\ row[k] \in 1..m /\ row[k] \in 1..(m + 1)
      BY <1>1, <1>2, <1>3, <2>1
    <3>2. r[k] = row[k] /\ c_[k] = col[k] /\ g[k] = f[k]
      BY <1>1, <1>2, <1>4, <2>1
    <3> QED BY <1>3, <3>1, <3>2
  <2>2. CASE ~(k <= n)
    <3>1. k - n \in 1..Len(x) /\ r[k] = m + 1 /\ c_[k] = k - n /\ g[k] = x[k - n]
      BY <1>1, <1>2, <1>4, <2>2
    <3>2. m + 1 \in 1..(m + 1)
      OBVIOUS
    <3> QED BY <1>1, <3>1, <3>2 DEF x
  <2> QED BY <2>1, <2>2
<1>8. ASSUME NEW k \in 1..Len(g), NEW l \in 1..Len(g), k < l PROVE r[k] < r[l] \/ (r[k] = r[l] /\ c_[k] < c_[l])
  <2>1. CASE l <= n
    <3>1. k \in 1..n /\ l \in 1..n
      BY <1>1, <1>8, <2>1
    <3>2. row[k] < row[l] \/ (row[k] = row[l] /\ col[k] < col[l])
      BY <1>8, <3>1 DEF FlatPlaces, n
    <3> QED BY <1>1, <1>2, <1>4, <1>8, <2>1, <3>1, <3>2
  <2>2. CASE l > n /\ k <= n
    <3>1. k \in 1..n /\ row[k] \in 1..m
      BY <1>1, <1>2, <1>3, <1>8, <2>2
    <3> QED BY <1>1, <1>2, <1>4, <1>8, <2>2, <3>1
  <2>3. CASE l > n /\ k > n
    BY <1>1, <1>2, <1>4, <1>8, <2>3
  <2> QED BY <1>1, <1>2, <2>1, <2>2, <2>3
<1>9. ASSUME NEW i \in 1..(m + 1), NEW j \in DOMAIN ss[i] PROVE \E k \in 1..Len(g) : r[k] = i /\ c_[k] = j
  <2>1. CASE i = m + 1
    <3>1. j \in 1..Len(x)
      BY <1>1, <2>1 DEF x
    <3>2. n + j \in 1..Len(g) /\ n + j > n
      BY SMTT(30), <1>1, <1>2, <3>1
    <3>3. r[n + j] = m + 1 /\ c_[n + j] = j
      <4>1. n + j \in Nat /\ ~(n + j <= n) /\ (n + j) - n = j
        BY SMTT(30), <1>1, <3>1
      <4>2. r[n + j] = m + 1 /\ c_[n + j] = (n + j) - n
        BY <1>4, <3>2, <4>1
      <4> QED BY <4>1, <4>2
    <3> QED BY <2>1, <3>2, <3>3
  <2>2. CASE i # m + 1
    <3>1. i \in 1..m
      BY <2>2
    <3>2. PICK k \in 1..n : row[k] = i /\ col[k] = j
      BY <3>1 DEF FlatPlaces, n
    <3>3. k \in 1..Len(g) /\ k <= n
      BY <1>1, <1>2, <3>2
    <3>4. r[k] = row[k] /\ c_[k] = col[k]
      BY <1>1, <1>2, <1>4, <3>3
    <3> QED BY <3>2, <3>3, <3>4
  <2> QED BY <2>1, <2>2
<1>10. FlatPlaces(ss, m + 1, g, r, c_)
  BY <1>6, <1>7, <1>8, <1>9 DEF FlatPlaces
<1> QED BY <1>10 DEF g, x

\* The items of a list of lists come in their order, each once, and none other.
LEMMA FlattenedWell ==
    ASSUME NEW T, NEW ss \in Seq(Seq(T))
    PROVE  /\ FlattenSeq(ss) \in Seq(T)
           /\ \E row, col : FlatPlaces(ss, Len(ss), FlattenSeq(ss), row, col)
<1>1. PICK f \in [0..Len(ss) -> Seq(T)] : Flattens(f, ss)
  BY FlattensThereIs
<1>2. FlattenSeq(ss) = f[Len(ss)] /\ Len(ss) \in Nat /\ f[Len(ss)] \in Seq(T)
  <2>1. Len(ss) \in Nat /\ Len(ss) \in 0..Len(ss)
    OBVIOUS
  <2> QED BY <1>1, <2>1, FlattensIs
<1> DEFINE P(m) == m <= Len(ss) => \E row, col : FlatPlaces(ss, m, f[m], row, col)
           N == {m \in Nat : P(m)}
<1>3. P(0)
  <2>1. f[0] = <<>> /\ Len(<<>>) = 0
    BY <1>1 DEF Flattens
  <2> DEFINE e == [k \in 1..0 |-> 0]
  <2>2. e \in [1..Len(f[0]) -> Nat]
    BY <2>1
  <2>3. FlatPlaces(ss, 0, f[0], e, e)
    BY <2>1, <2>2 DEF FlatPlaces
  <2> QED BY <2>3
<1>4. ASSUME NEW m \in N PROVE P(m + 1)
  <2> SUFFICES ASSUME m + 1 <= Len(ss) PROVE \E row, col : FlatPlaces(ss, m + 1, f[m + 1], row, col)
    OBVIOUS
  <2>1. m \in Nat /\ m <= Len(ss) /\ m + 1 \in 1..Len(ss) /\ m \in 0..Len(ss) /\ (m + 1) - 1 = m
    BY <1>2
  <2>2. PICK row, col : FlatPlaces(ss, m, f[m], row, col)
    BY <2>1
  <2>3. f[m + 1] = f[m] \o ss[m + 1] /\ f[m] \in Seq(T)
    BY <1>1, <2>1 DEF Flattens
  <2> QED BY <2>1, <2>2, <2>3, FlatGrows
<1>5. Len(ss) \in N
  <2>1. N \subseteq Nat /\ 0 \in N /\ \A m \in N : m + 1 \in N
    <3>1. \A m \in N : m + 1 \in Nat
      OBVIOUS
    <3> QED BY <1>3, <1>4, <3>1
  <2> HIDE DEF N
  <2> QED BY <1>2, <2>1, Upwards
<1> QED BY <1>2, <1>5


-----------------------------------------------------------------------------
(* Retrieval: lists of hits *)

\* Each hit once.
Once(list) == \A i, j \in DOMAIN list : list[i].chunk = list[j].chunk => i = j

\* A list of hits as RankedWell wants it, or an empty one.
BestOnes(list) ==
    /\ list \in Seq(Hits) /\ Len(list) <= CandidateK
    /\ \A i, j \in DOMAIN list : i < j => list[i].score >= list[j].score /\ list[i].chunk # list[j].chunk

LEMMA CandidatesSome == CandidateK \in Nat \ {0}
<1>1. /\ TopK \in Nat \ {0} /\ CandidateLimit \in Nat \ {0} /\ Multiplier \in Nat
  BY RetrievalAssumption
<1>2. Max({1, Multiplier}) \in Nat
  BY <1>1, GreaterOf
<1>3. \A p \in Nat, q \in Nat : p * q \in Nat
  OBVIOUS
<1>4. TopK * Max({1, Multiplier}) \in Nat
  BY <1>1, <1>2, <1>3
<1> DEFINE more == TopK * Max({1, Multiplier})
           most == Max({TopK, more})
<1> HIDE DEF more
<1>5. more \in Nat
  BY <1>4 DEF more
<1>6. most \in Nat \ {0}
  BY <1>1, <1>5, GreaterOf
<1>7. CandidateK = Min({CandidateLimit, most})
  BY DEF CandidateK, more
<1> HIDE DEF most
<1> QED BY <1>1, <1>6, <1>7, LesserOf

LEMMA OnceOfBest == ASSUME NEW list, BestOnes(list) PROVE Once(list)
<1> SUFFICES ASSUME NEW i \in DOMAIN list, NEW j \in DOMAIN list, list[i].chunk = list[j].chunk PROVE i = j
  BY DEF Once
<1>1. i \in Int /\ j \in Int
  BY DEF BestOnes
<1> QED BY <1>1 DEF BestOnes

\* What is cut from a list keeps its order, and each hit once.
LEMMA CutKeeps ==
    ASSUME NEW list \in Seq(Hits), NEW n \in Nat
    PROVE  /\ Once(list) => Once(Cut_(list, n))
           /\ ChunksIn(Cut_(list, n)) \subseteq ChunksIn(list)
           /\ BestOnes(list) => BestOnes(Cut_(list, n))
<1> DEFINE t == Cut_(list, n)
<1>1. /\ t \in Seq(Hits) /\ Len(t) = (IF n <= Len(list) THEN n ELSE Len(list))
      /\ DOMAIN t = 1..Len(t) /\ Len(t) \in Nat
      /\ \A i \in 1..Len(t) : i \in DOMAIN list /\ t[i] = list[i]
  BY CutWell
<1>2. Len(list) \in Nat /\ CandidateK \in Nat
  BY CandidatesSome
<1> HIDE DEF t
<1>3. Once(list) => Once(t)
  BY <1>1 DEF Once
<1>4. ChunksIn(t) \subseteq ChunksIn(list)
  BY <1>1 DEF ChunksIn
<1>5. BestOnes(list) => BestOnes(t)
  <2> SUFFICES ASSUME BestOnes(list) PROVE BestOnes(t)
    OBVIOUS
  <2>1. Len(t) <= CandidateK
    BY <1>1, <1>2 DEF BestOnes
  <2>2. ASSUME NEW i \in DOMAIN t, NEW j \in DOMAIN t, i < j
        PROVE  t[i].score >= t[j].score /\ t[i].chunk # t[j].chunk
    <3>1. i \in DOMAIN list /\ j \in DOMAIN list /\ t[i] = list[i] /\ t[j] = list[j]
      BY <1>1
    <3> QED BY <2>2, <3>1 DEF BestOnes
  <2> QED BY <1>1, <2>1, <2>2 DEF BestOnes
<1> QED BY <1>3, <1>4, <1>5 DEF t

\* t are the items of list at I.
TakenFrom(list, I, t) ==
    /\ \A k \in DOMAIN t : \E i \in I \cap DOMAIN list : t[k] = list[i]
    /\ \A i \in I \cap DOMAIN list : \E k \in DOMAIN t : t[k] = list[i]

\* The same of what is sifted.
LEMMA SiftKeeps ==
    ASSUME NEW list \in Seq(Hits), NEW I
    PROVE  /\ Sift(list, I) \in Seq(Hits)
           /\ Once(list) => Once(Sift(list, I))
           /\ ChunksIn(Sift(list, I)) \subseteq ChunksIn(list)
           /\ TakenFrom(list, I, Sift(list, I))
<1> DEFINE t == Sift(list, I)
<1>1. t \in Seq(Hits) /\ DOMAIN t = 1..Len(t) /\ Len(t) \in Nat
  BY SiftWell
<1> DEFINE at == Sifted(list, I)
<1>8. \A k \in 1..Len(t) : at[k] \in DOMAIN list /\ at[k] \in I /\ t[k] = list[at[k]]
  <2>1. SiftedBy(list, I, t, at)
    BY SiftWell
  <2> HIDE DEF t, at
  <2> QED BY <2>1 DEF SiftedBy
<1>9. Places(at, Len(t), I \cap DOMAIN list)
  BY SiftWell
<1> HIDE DEF at
<1> HIDE DEF t
<1>3. \A i, j \in 1..Len(t) : at[i] = at[j] => i = j
  <2> SUFFICES ASSUME NEW i \in 1..Len(t), NEW j \in 1..Len(t), at[i] = at[j], i # j PROVE FALSE
    OBVIOUS
  <2>1. \A k, l \in 1..Len(t) : k < l => at[k] < at[l]
    BY <1>8, <1>9 DEF Places
  <2>2. at[i] \in Int
    BY <1>8, <1>9
  <2>3. i < j \/ j < i
    BY <1>1
  <2> QED BY <2>1, <2>2, <2>3
<1>4. Once(list) => Once(t)
  BY <1>1, <1>8, <1>9, <1>3 DEF Once
<1>5. ChunksIn(t) \subseteq ChunksIn(list)
  BY <1>1, <1>8, <1>9 DEF ChunksIn
<1>6. \A k \in DOMAIN t : \E i \in I \cap DOMAIN list : t[k] = list[i]
  BY <1>1, <1>8, <1>9
<1>7. \A i \in I \cap DOMAIN list : \E k \in DOMAIN t : t[k] = list[i]
  <2> TAKE i \in I \cap DOMAIN list
  <2>1. PICK k \in 1..Len(t) : at[k] = i
    BY <1>8, <1>9 DEF Places
  <2> QED BY <1>1, <1>8, <1>9, <2>1
<1> QED BY <1>1, <1>4, <1>5, <1>6, <1>7 DEF t, TakenFrom

\* What a list holds, and the place each is met first at.
LEMMA MetOnce ==
    ASSUME NEW V, NEW met \in Seq(V)
    PROVE  /\ ToSet(met) \subseteq V /\ IsFiniteSet(ToSet(met))
           /\ \A x \in ToSet(met) : FirstPlaces(met)[x] \in DOMAIN met /\ met[FirstPlaces(met)[x]] = x
           /\ \A x \in ToSet(met) : FirstPlaces(met)[x] \in Int
           /\ \A x, y \in ToSet(met) : FirstPlaces(met)[x] = FirstPlaces(met)[y] => x = y
<1> DEFINE n == Len(met)
<1>1. n \in Nat /\ DOMAIN met = 1..n /\ met \in [1..n -> V]
  OBVIOUS
<1> HIDE DEF n
<1>2. ToSet(met) \subseteq V /\ met \in [1..n -> ToSet(met)] /\ \A x \in ToSet(met) : \E i \in 1..n : met[i] = x
  BY <1>1 DEF ToSet
<1>3. met \in Surjection(1..n, ToSet(met))
  BY <1>2, Fun_IsSurj
<1>4. IsFiniteSet(ToSet(met))
  BY <1>1, <1>3, FS_Interval, FS_Surjection
<1>5. ASSUME NEW x \in ToSet(met)
      PROVE  FirstPlaces(met)[x] \in DOMAIN met /\ met[FirstPlaces(met)[x]] = x /\ FirstPlaces(met)[x] \in Int
  <2> DEFINE I == {i \in DOMAIN met : met[i] = x}
  <2>1. FirstPlaces(met)[x] = Min(I)
    BY DEF FirstPlaces
  <2>2. I \subseteq Nat /\ I # {}
    BY <1>1, <1>2
  <2>3. Min(I) \in I
    BY <2>2, LeastOf
  <2> QED BY <1>1, <2>1, <2>3
<1>6. \A x, y \in ToSet(met) : FirstPlaces(met)[x] = FirstPlaces(met)[y] => x = y
  BY <1>5
<1> QED BY <1>2, <1>4, <1>5, <1>6

\* Chunks with scores are best first, each once.
LEMMA ScoredWell ==
    ASSUME NEW S \in SUBSET ToSet(Order), IsFiniteSet(S), NEW score, \A x \in S : score[x] \in Nat,
           NEW place, \A x \in S : place[x] \in Int, \A x, y \in S : place[x] = place[y] => x = y,
           NEW n \in Nat, n <= CandidateK
    PROVE  /\ ScoredList(S, score, place) \in Seq(Hits)
           /\ BestOnes(Cut_(ScoredList(S, score, place), n))
<1> DEFINE s == BestFirst(S, score, place)
           m == Cardinality(S)
           t == [i \in DOMAIN s |-> [chunk |-> s[i], score |-> score[s[i]]]]
           u == Cut_(t, n)
<1>1. /\ m \in Nat /\ s \in [1..m -> S]
      /\ \A i, j \in 1..m : i < j => score[s[i]] >= score[s[j]] /\ s[i] # s[j]
  <2>1. \A x \in S : score[x] \in Int
    OBVIOUS
  <2> QED BY SMTT(30), <2>1, BestFirstWell
<1>2. ScoredList(S, score, place) = t
  BY DEF ScoredList
<1> HIDE DEF s, m
<1>3. \A i \in 1..m : s[i] \in S /\ score[s[i]] \in Nat
  BY <1>1
<1>4. \A i \in 1..m : [chunk |-> s[i], score |-> score[s[i]]] \in Hits
  BY <1>3 DEF Hits
<1>5. t \in [1..m -> Hits] /\ DOMAIN t = 1..m
  BY <1>1, <1>4
<1>6. \A i \in 1..m : t[i].chunk = s[i] /\ t[i].score = score[s[i]]
  BY <1>1
<1> HIDE DEF t
<1>7. t \in Seq(Hits) /\ Len(t) = m
  BY <1>1, <1>5
<1>8. /\ u \in Seq(Hits) /\ Len(u) = (IF n <= Len(t) THEN n ELSE Len(t))
      /\ DOMAIN u = 1..Len(u) /\ Len(u) \in Nat
      /\ \A i \in 1..Len(u) : i \in DOMAIN t /\ u[i] = t[i]
  BY <1>7, CutWell
<1> HIDE DEF u
<1>9. \A i, j \in 1..Len(u) : i < j => u[i].score >= u[j].score /\ u[i].chunk # u[j].chunk
  <2> TAKE i, j \in 1..Len(u)
  <2> HAVE i < j
  <2>1. i \in 1..m /\ j \in 1..m /\ u[i] = t[i] /\ u[j] = t[j]
    BY <1>5, <1>8
  <2>2. score[s[i]] >= score[s[j]] /\ s[i] # s[j]
    BY <1>1, <2>1
  <2> QED BY <1>6, <2>1, <2>2
<1>10. Len(u) <= CandidateK
  BY <1>1, <1>7, <1>8, CandidatesSome
<1>11. BestOnes(u)
  BY <1>8, <1>9, <1>10 DEF BestOnes
<1> QED BY <1>2, <1>7, <1>11 DEF u


\* The best of each base, put together: a chunk is in one base, so it comes once.
LEMMA VectorsWell == ASSUME NEW found \in Finds PROVE BestOnes(VectorHits(found))
<1> DEFINE K == Max({1, PerBaseK})
           lists == [t \in DOMAIN Targets |-> OfBase(found, Targets[t])]
           all == FlattenSeq(lists)
           I == DOMAIN all
           score == [i \in DOMAIN all |-> all[i].score]
           place == [i \in DOMAIN all |-> i]
           sorted == BestFirst(I, score, place)
           hits == [i \in DOMAIN sorted |-> all[sorted[i]]]
<1>1. found \in Seq(Hits) /\ Once(found)
  BY RetrievalAssumption DEF Once
<1>2. K \in Nat
  <2>1. CandidateK \in Nat /\ Min({2 * CandidateK, 20}) \in Nat
    BY CandidatesSome, LesserOf
  <2> DEFINE least == Min({2 * CandidateK, 20})
  <2>2. PerBaseK = Max({CandidateK, least}) /\ least \in Nat
    BY <2>1 DEF PerBaseK
  <2> HIDE DEF least
  <2>3. PerBaseK \in Nat
    BY <2>1, <2>2, GreaterOf
  <2> QED BY <2>3, GreaterOf
<1>3. /\ DOMAIN Targets = 1..Len(Targets) /\ Len(Targets) \in Nat
      /\ \A t, u \in DOMAIN Targets : Targets[t] = Targets[u] => t = u
  BY RetrievalAssumption DEF IsInjective
<1> HIDE DEF K
<1>4. ASSUME NEW base PROVE /\ OfBase(found, base) \in Seq(Hits) /\ Once(OfBase(found, base))
                            /\ \A c_ \in ChunksIn(OfBase(found, base)) : BaseOf[c_] = base
  <2> DEFINE J == {i \in DOMAIN found : BaseOf[found[i].chunk] = base}
             s == Sift(found, J)
  <2>1. s \in Seq(Hits) /\ Once(s) /\ TakenFrom(found, J, s)
    <3> HIDE DEF J
    <3> QED BY <1>1, SiftKeeps
  <2>2. \A c_ \in ChunksIn(s) : BaseOf[c_] = base
    BY <2>1 DEF ChunksIn, TakenFrom
  <2>3. OfBase(found, base) = Cut_(s, K)
    BY DEF OfBase, K
  <2> HIDE DEF s
  <2>4. Cut_(s, K) \in Seq(Hits) /\ Once(Cut_(s, K)) /\ ChunksIn(Cut_(s, K)) \subseteq ChunksIn(s)
    BY <1>2, <2>1, CutWell, CutKeeps
  <2> QED BY <2>2, <2>3, <2>4
<1>5. lists \in Seq(Seq(Hits)) /\ Len(lists) = Len(Targets)
  BY <1>3, <1>4
<1>6. /\ \A t \in DOMAIN lists : Once(lists[t]) /\ \A c_ \in ChunksIn(lists[t]) : BaseOf[c_] = Targets[t]
      /\ DOMAIN lists = DOMAIN Targets
  BY <1>4
<1> HIDE DEF lists
<1>7. all \in Seq(Hits) /\ \E row, col : FlatPlaces(lists, Len(lists), all, row, col)
  BY <1>5, FlattenedWell
<1> HIDE DEF all
<1>8. PICK row, col : FlatPlaces(lists, Len(lists), all, row, col)
  BY <1>7
<1>9. Len(all) \in Nat /\ I = 1..Len(all) /\ \A i \in I : all[i] \in Hits /\ all[i].score \in Nat
  <2>1. Len(all) \in Nat /\ I = 1..Len(all) /\ \A i \in I : all[i] \in Hits
    BY <1>7
  <2> QED BY <2>1 DEF Hits
<1> HIDE DEF I
<1>10. ASSUME NEW i \in I, NEW j \in I, all[i].chunk = all[j].chunk PROVE i = j
  <2>1. /\ row[i] \in DOMAIN lists /\ col[i] \in DOMAIN lists[row[i]] /\ all[i] = lists[row[i]][col[i]]
        /\ row[j] \in DOMAIN lists /\ col[j] \in DOMAIN lists[row[j]] /\ all[j] = lists[row[j]][col[j]]
    BY <1>3, <1>5, <1>6, <1>8, <1>9 DEF FlatPlaces
  <2>2. all[i].chunk \in ChunksIn(lists[row[i]]) /\ all[j].chunk \in ChunksIn(lists[row[j]])
    BY <2>1 DEF ChunksIn
  <2>3. Targets[row[i]] = Targets[row[j]]
    BY <1>6, <1>10, <2>1, <2>2
  <2>4. row[i] = row[j]
    BY <1>3, <1>6, <2>1, <2>3
  <2>5. col[i] = col[j]
    BY <1>6, <1>10, <2>1, <2>4 DEF Once
  <2>6. i < j => row[i] < row[j] \/ (row[i] = row[j] /\ col[i] < col[j])
    BY <1>8, <1>9 DEF FlatPlaces
  <2>7. j < i => row[j] < row[i] \/ (row[i] = row[j] /\ col[j] < col[i])
    BY <1>8, <1>9 DEF FlatPlaces
  <2>8. row[i] \in Nat /\ col[i] \in Nat /\ i \in Nat /\ j \in Nat
    BY <1>8, <1>9 DEF FlatPlaces
  <2> QED BY <2>4, <2>5, <2>6, <2>7, <2>8
<1>11. IsFiniteSet(I)
  BY <1>9, FS_Interval
<1>12. \A x \in I : score[x] = all[x].score /\ place[x] = x /\ score[x] \in Int /\ place[x] \in Int
  BY <1>9 DEF I
<1>13. \A x, y \in I : place[x] = place[y] => x = y
  BY ZenonT(30), <1>12
<1> HIDE DEF score, place
<1> DEFINE m == Cardinality(I)
<1>14. /\ m \in Nat /\ sorted \in [1..m -> I]
       /\ \A i, j \in 1..m : i < j => score[sorted[i]] >= score[sorted[j]] /\ sorted[i] # sorted[j]
  BY <1>11, <1>12, <1>13, BestFirstWell
<1> HIDE DEF sorted, m
<1>15. hits \in [1..m -> Hits] /\ \A i \in 1..m : sorted[i] \in I /\ hits[i] = all[sorted[i]]
  BY <1>9, <1>14
<1> HIDE DEF hits
<1>16. hits \in Seq(Hits) /\ Len(hits) = m
  BY <1>14, <1>15
<1>17. \A i, j \in 1..m : i < j => hits[i].score >= hits[j].score /\ hits[i].chunk # hits[j].chunk
  <2> TAKE i, j \in 1..m
  <2> HAVE i < j
  <2>1. score[sorted[i]] >= score[sorted[j]] /\ sorted[i] # sorted[j]
    BY <1>14
  <2>2. sorted[i] \in I /\ sorted[j] \in I /\ hits[i] = all[sorted[i]] /\ hits[j] = all[sorted[j]]
    BY <1>15
  <2>3. score[sorted[i]] = hits[i].score /\ score[sorted[j]] = hits[j].score
    BY <1>12, <2>2
  <2>4. hits[i].chunk # hits[j].chunk
    BY <1>10, <2>1, <2>2
  <2> QED BY <2>1, <2>3, <2>4
<1>18. VectorHits(found) = Cut_(hits, Max({1, CandidateK}))
  BY DEF VectorHits, hits, sorted, I, score, place, all, lists
<1>19. Max({1, CandidateK}) = CandidateK /\ CandidateK \in Nat
  BY CandidatesSome, GreaterOf
<1> DEFINE u == Cut_(hits, CandidateK)
<1>20. /\ u \in Seq(Hits) /\ Len(u) = (IF CandidateK <= m THEN CandidateK ELSE m)
       /\ DOMAIN u = 1..Len(u) /\ Len(u) \in Nat
       /\ \A i \in 1..Len(u) : i \in DOMAIN hits /\ u[i] = hits[i]
  BY <1>16, <1>19, CutWell
<1> HIDE DEF u
<1>21. \A i, j \in 1..Len(u) : i < j => u[i].score >= u[j].score /\ u[i].chunk # u[j].chunk
  <2> TAKE i, j \in 1..Len(u)
  <2>1. i \in 1..m /\ j \in 1..m /\ u[i] = hits[i] /\ u[j] = hits[j]
    BY <1>15, <1>20
  <2> QED BY <1>17, <2>1
<1>22. BestOnes(u)
  BY <1>14, <1>19, <1>20, <1>21 DEF BestOnes
<1> QED BY <1>18, <1>19, <1>22 DEF u

\* A score in a list, if the chunk is there.
LEMMA ScoreFound ==
    ASSUME NEW list \in Seq(Hits), NEW c_
    PROVE  ScoreIn(list, c_) \in Int /\ (c_ \in ChunksIn(list) => ScoreIn(list, c_) \in Nat)
<1>1. CASE c_ \in ChunksIn(list)
  <2>1. \E i \in DOMAIN list : list[i].chunk = c_
    BY <1>1 DEF ChunksIn
  <2>2. RankOfChunk(list, c_) \in DOMAIN list
    BY <2>1 DEF RankOfChunk
  <2>3. list[RankOfChunk(list, c_)] \in Hits
    BY <2>2
  <2>4. list[RankOfChunk(list, c_)].score \in Nat
    BY <2>3 DEF Hits
  <2> QED BY <1>1, <2>4 DEF ScoreIn
<1>2. CASE c_ \notin ChunksIn(list)
  BY <1>2 DEF ScoreIn
<1> QED BY <1>1, <1>2

\* Two lists of hits are merged into one.
LEMMA MergedWell ==
    ASSUME NEW first \in Seq(Hits), NEW second \in Seq(Hits) PROVE BestOnes(MergeByChunkId(first, second))
<1> DEFINE both == first \o second
           order == [i \in DOMAIN both |-> both[i].chunk]
           score == [c_ \in ToSet(order) |-> Max({ScoreIn(first, c_), ScoreIn(second, c_)})]
<1>1. /\ both \in Seq(Hits) /\ Len(both) = Len(first) + Len(second)
      /\ \A i \in 1..(Len(first) + Len(second)) : both[i] = IF i <= Len(first) THEN first[i] ELSE second[i - Len(first)]
  BY ConcatProperties
<1>2. /\ Len(first) \in Nat /\ Len(second) \in Nat /\ DOMAIN both = 1..Len(both) /\ DOMAIN first = 1..Len(first)
      /\ DOMAIN second = 1..Len(second) /\ \A i \in DOMAIN both : both[i] \in Hits
  BY <1>1
<1>3. MergeByChunkId(first, second) = Cut_(ScoredList(ToSet(order), score, FirstPlaces(order)), CandidateK)
  BY DEF MergeByChunkId
<1> HIDE DEF both
<1>4. \A i \in 1..Len(both) : order[i] = both[i].chunk /\ order[i] \in ToSet(Order)
  BY <1>2 DEF Hits
<1>5. order \in [1..Len(both) -> ToSet(Order)] /\ Len(both) \in Nat
  BY <1>1, <1>2, <1>4
<1> HIDE DEF order
<1>6. order \in Seq(ToSet(Order))
  BY <1>5
<1>7. \A c_ \in ToSet(order) : c_ \in ChunksIn(first) \/ c_ \in ChunksIn(second)
  <2> TAKE c_ \in ToSet(order)
  <2>1. PICK i \in 1..Len(both) : both[i].chunk = c_
    BY <1>4, <1>5 DEF ToSet
  <2>2. CASE i <= Len(first)
    <3>1. i \in DOMAIN first /\ both[i] = first[i]
      BY <1>1, <1>2, <2>1, <2>2
    <3> QED BY <2>1, <3>1 DEF ChunksIn
  <2>3. CASE ~(i <= Len(first))
    <3>1. i - Len(first) \in DOMAIN second /\ both[i] = second[i - Len(first)]
      BY <1>1, <1>2, <2>1, <2>3
    <3> QED BY <2>1, <3>1 DEF ChunksIn
  <2> QED BY <2>2, <2>3
<1>8. \A c_ \in ToSet(order) : score[c_] \in Nat
  <2> TAKE c_ \in ToSet(order)
  <2> DEFINE p == ScoreIn(first, c_)
             q == ScoreIn(second, c_)
  <2>1. p \in Int /\ q \in Int /\ (p \in Nat \/ q \in Nat)
    BY <1>7, ScoreFound
  <2>2. score[c_] = Max({p, q})
    OBVIOUS
  <2> HIDE DEF p, q, score
  <2> QED BY <2>1, <2>2, GreaterOf
<1> HIDE DEF score
<1>9. /\ ToSet(order) \in SUBSET ToSet(Order) /\ IsFiniteSet(ToSet(order))
      /\ \A x \in ToSet(order) : FirstPlaces(order)[x] \in Int
      /\ \A x, y \in ToSet(order) : FirstPlaces(order)[x] = FirstPlaces(order)[y] => x = y
  BY <1>6, MetOnce
<1>10. CandidateK \in Nat /\ CandidateK <= CandidateK
  BY CandidatesSome
<1>11. BestOnes(Cut_(ScoredList(ToSet(order), score, FirstPlaces(order)), CandidateK))
  BY <1>8, <1>9, <1>10, ScoredWell
<1> QED BY <1>3, <1>11

LEMMA Divided == ASSUME NEW p \in Nat, NEW q \in Nat \ {0} PROVE p \div q \in Nat
  OBVIOUS

LEMMA CoverageCounted == ASSUME NEW text \in Queries, NEW c_ PROVE LexicalCoverage(text, c_) \in Nat
<1>1. CASE Grams[text] = {}
  BY <1>1 DEF LexicalCoverage
<1>2. CASE Grams[text] # {}
  <2> DEFINE p == Cardinality(Grams[text] \cap GramsIn[c_])
             q == Cardinality(Grams[text])
  <2>1. IsFiniteSet(Grams[text]) /\ Full \in Nat
    BY RetrievalAssumption
  <2>2. p \in Nat /\ q \in Nat /\ q # 0
    BY <1>2, <2>1, FS_CardinalityType, FS_Intersection, FS_EmptySet
  <2>3. LexicalCoverage(text, c_) = (Full * p) \div q
    BY <1>2 DEF LexicalCoverage
  <2> HIDE DEF p, q
  <2>4. Full * p \in Nat
    BY <2>1, <2>2
  <2> QED BY <2>2, <2>3, <2>4, Divided
<1> QED BY <1>1, <1>2

\* What the second search of a text gives: hits, in whatever order.
LEMMA SecondTyped ==
    ASSUME NEW text \in Queries, NEW found \in Matches, NEW second \in SecondLists(text, found)
    PROVE  second \in Seq(Hits)
<1>1. found \in SUBSET ToSet(Order) /\ Order \in Seq(ToSet(Order)) /\ CandidateK \in Nat
  BY RetrievalAssumption, CandidatesSome
<1>2. IsFiniteSet(found) /\ Cardinality(found) \in Nat
  <2>1. IsFiniteSet(ToSet(Order))
    BY <1>1, MetOnce
  <2> QED BY <1>1, <2>1, FS_Subset, FS_CardinalityType
<1>3. CASE second \in TrigramLists(text, found)
  <2> DEFINE score == [c_ \in found |-> IF text \in Cjk THEN Max({Similarity[text][c_], LexicalCoverage(text, c_)})
                                        ELSE Similarity[text][c_]]
  <2>1. ASSUME NEW c_ \in found PROVE score[c_] \in Nat
    <3>1. Similarity[text][c_] \in Nat
      <4>1. Similarity[text] \in [ToSet(Order) -> 0..Full] /\ Full \in Nat
        BY RetrievalAssumption
      <4> QED BY <1>1, <4>1
    <3>2. Max({Similarity[text][c_], LexicalCoverage(text, c_)}) \in Nat
      <4> DEFINE p == Similarity[text][c_]
                 q == LexicalCoverage(text, c_)
      <4>1. p \in Nat /\ q \in Nat
        BY <3>1, CoverageCounted
      <4> HIDE DEF p, q
      <4>2. Max({p, q}) \in Nat
        BY <4>1, GreaterOf
      <4> QED BY <4>2 DEF p, q
    <3> QED BY <3>1, <3>2
  <2>2. PICK m \in SetToSeqs(found) :
            second = Cut_([i \in DOMAIN m |->
                [chunk |-> m[i], score |-> IF text \in Cjk THEN Max({Similarity[text][m[i]], LexicalCoverage(text, m[i])})
                                           ELSE Similarity[text][m[i]]]], CandidateK)
    BY <1>3 DEF TrigramLists
  <2> DEFINE t == [i \in DOMAIN m |->
                [chunk |-> m[i], score |-> IF text \in Cjk THEN Max({Similarity[text][m[i]], LexicalCoverage(text, m[i])})
                                           ELSE Similarity[text][m[i]]]]
  <2>3. m \in [1..Cardinality(found) -> found] /\ DOMAIN m = 1..Cardinality(found)
    BY DEF SetToSeqs
  <2>4. \A i \in DOMAIN m : m[i] \in found /\ m[i] \in ToSet(Order)
    BY <1>1, <2>3
  <2>5. \A i \in DOMAIN m : t[i] = [chunk |-> m[i], score |-> score[m[i]]]
    BY <2>4
  <2>6. \A i \in DOMAIN m : t[i] \in Hits
    <3> HIDE DEF score, t
    <3> TAKE i \in DOMAIN m
    <3>1. score[m[i]] \in Nat /\ m[i] \in ToSet(Order) /\ t[i] = [chunk |-> m[i], score |-> score[m[i]]]
      BY <2>1, <2>4, <2>5
    <3> QED BY <3>1 DEF Hits
  <2>7. DOMAIN t = DOMAIN m /\ t = [i \in DOMAIN m |-> t[i]]
    OBVIOUS
  <2>8. second = Cut_(t, CandidateK)
    BY <2>2
  <2> HIDE DEF t
  <2>9. t \in Seq(Hits)
    BY <1>2, <2>3, <2>6, <2>7
  <2> QED BY <1>1, <2>8, <2>9, CutWell
<1>4. CASE second = IlikeHits(text, found)
  <2> DEFINE score == [c_ \in found |-> LexicalCoverage(text, c_)]
             place == FirstPlaces(Order)
  <2>1. \A x \in found : score[x] \in Nat
    BY CoverageCounted
  <2>2. /\ \A x \in found : place[x] \in Int
        /\ \A x, y \in found : place[x] = place[y] => x = y
    BY <1>1, MetOnce
  <2>3. CandidateK <= CandidateK
    BY <1>1
  <2>4. second = Cut_(ScoredList(found, score, place), Max({1, CandidateK})) /\ Max({1, CandidateK}) \in Nat
    BY <1>1, <1>4, GreaterOf DEF IlikeHits
  <2> HIDE DEF score, place
  <2>5. ScoredList(found, score, place) \in Seq(Hits)
    BY <1>1, <1>2, <2>1, <2>2, <2>3, ScoredWell
  <2> QED BY <2>4, <2>5, CutWell
<1>5. CASE second = <<>>
  BY <1>5
<1> QED BY <1>3, <1>4, <1>5 DEF SecondLists

LEMMA NothingIsBest == BestOnes(<<>>)
<1>1. <<>> \in Seq(Hits) /\ Len(<<>>) = 0 /\ DOMAIN <<>> = {}
  OBVIOUS
<1> QED BY <1>1, CandidatesSome DEF BestOnes

LEMMA FulltextWell ==
    ASSUME NEW words \in Finds \cup {<<>>}, NEW second \in Seq(Hits) PROVE BestOnes(FulltextHits(words, second))
<1> DEFINE first == Cut_(words, CandidateK)
<1>1. words \in Seq(Hits)
  <2>1. \A f \in Finds : f \in Seq(Hits)
    BY RetrievalAssumption
  <2>2. CASE words \in Finds
    BY <2>1, <2>2
  <2>3. CASE words = <<>>
    BY <2>3, EmptySeq
  <2> QED BY <2>2, <2>3
<1>2. CandidateK \in Nat
  BY CandidatesSome
<1>3. /\ first \in Seq(Hits) /\ Len(first) = (IF CandidateK <= Len(words) THEN CandidateK ELSE Len(words))
      /\ DOMAIN first = 1..Len(first) /\ Len(first) \in Nat
      /\ \A i \in 1..Len(first) : i \in DOMAIN words /\ first[i] = words[i]
  BY <1>1, <1>2, CutWell
<1> HIDE DEF first
<1>4. BestOnes(first)
  <2>1. Len(first) <= CandidateK
    BY <1>1, <1>2, <1>3
  <2>2. \A i, j \in DOMAIN words : /\ i < j => words[i].score >= words[j].score
                                   /\ words[i].chunk = words[j].chunk => i = j
    BY RetrievalAssumption
  <2>3. ASSUME NEW i \in DOMAIN first, NEW j \in DOMAIN first, i < j
        PROVE  first[i].score >= first[j].score /\ first[i].chunk # first[j].chunk
    <3>1. i \in DOMAIN words /\ j \in DOMAIN words /\ first[i] = words[i] /\ first[j] = words[j] /\ i # j
      BY <1>3, <2>3
    <3> QED BY <2>2, <2>3, <3>1
  <2> QED BY <1>3, <2>1, <2>3 DEF BestOnes
<1>5. FulltextHits(words, second) = IF Len(first) < CandidateK THEN MergeByChunkId(first, second) ELSE first
  BY DEF FulltextHits, first
<1> QED BY <1>3, <1>4, <1>5, MergedWell


-----------------------------------------------------------------------------
(* Retrieval: the fusion *)

LEMMA Regrouped == ASSUME NEW p \in Nat, NEW q \in Nat, NEW r \in Nat PROVE (p * q) * r = (p * r) * q /\ p * q \in Nat
  OBVIOUS

LEMMA ProductSome == ASSUME NEW p \in Nat \ {0}, NEW q \in Nat \ {0} PROVE p * q \in Nat \ {0}
  OBVIOUS

\* Every place of a list divides the unit in which parts are counted.
LEMMA DenominatorDivides ==
    /\ Denominator \in Nat \ {0}
    /\ \A r \in 1..CandidateK : \E q \in Nat : Denominator = q * (RrfK + r)
<1> DEFINE K == CandidateK
           product[r \in 0..CandidateK] == IF r = 0 THEN 1 ELSE product[r - 1] * (RrfK + r)
           step == [p \in (1..K) \X Nat |-> p[2] * (RrfK + p[1])]
<1>1. K \in Nat \ {0} /\ RrfK \in Nat
  BY CandidatesSome, RetrievalAssumption
<1>2. \E g \in [0..K -> Nat] : BuiltBy(g, 1, step, K)
  <2> DEFINE V == Nat
             v == 1
  <2>1. v \in V /\ K \in Nat /\ step \in [(1..K) \X V -> V]
    BY <1>1
  <2> HIDE DEF step, product, V, v, K
  <2>2. \E g \in [0..K -> V] : BuiltBy(g, v, step, K)
    BY <2>1, StepByStep
  <2> QED BY <2>2 DEF V, v
<1>3. PICK g \in [0..K -> Nat] : g[0] = 1 /\ \A i \in 1..K : g[i] = step[<<i, g[i - 1]>>]
  BY <1>2 DEF BuiltBy
<1>4. \A i \in 0..K : i # 0 => i \in 1..K /\ i - 1 \in 0..K /\ g[i - 1] \in Nat
  BY <1>1, <1>3
<1>5. g = [i \in 0..K |-> IF i = 0 THEN 1 ELSE g[i - 1] * (RrfK + i)]
  BY <1>1, <1>3, <1>4
<1>6. product = [i \in 0..K |-> IF i = 0 THEN 1 ELSE product[i - 1] * (RrfK + i)]
  BY <1>5
<1>7. Denominator = product[K]
  BY DEF Denominator
<1> HIDE DEF step, product, K
<1> DEFINE Ok(i) == product[i] \in Nat \ {0} /\ \A r \in 1..i : \E q \in Nat : product[i] = q * (RrfK + r)
           T == {i \in Nat : i <= K => Ok(i)}
<1>8. 0 \in T
  BY <1>1, <1>6
<1>9. ASSUME NEW i \in T PROVE i + 1 \in T
  <2> SUFFICES ASSUME i + 1 <= K PROVE Ok(i + 1)
    OBVIOUS
  <2>1. i \in Nat /\ i + 1 \in 0..K /\ i + 1 # 0 /\ (i + 1) - 1 = i /\ i <= K
    BY <1>1
  <2>2. product[i + 1] = product[i] * (RrfK + (i + 1))
    BY <1>6, <2>1
  <2>3. Ok(i)
    BY <2>1
  <2> HIDE DEF T
  <2>4. RrfK + (i + 1) \in Nat \ {0}
    BY <1>1, <2>1
  <2>5. product[i + 1] \in Nat \ {0}
    BY <2>2, <2>3, <2>4, ProductSome
  <2>6. ASSUME NEW r \in 1..(i + 1) PROVE \E q \in Nat : product[i + 1] = q * (RrfK + r)
    <3>1. CASE r = i + 1
      BY <2>2, <2>3, <3>1
    <3>2. CASE r # i + 1
      <4>1. r \in 1..i /\ RrfK + r \in Nat
        BY <1>1, <2>1, <3>2
      <4>2. PICK q \in Nat : product[i] = q * (RrfK + r)
        BY <2>3, <4>1
      <4>3. product[i + 1] = (q * (RrfK + (i + 1))) * (RrfK + r) /\ q * (RrfK + (i + 1)) \in Nat
        BY <2>2, <2>4, <4>1, <4>2, Regrouped
      <4> QED BY <4>3
    <3> QED BY <3>1, <3>2
  <2> QED BY <2>5, <2>6
<1>10. K \in T
  <2>1. T \subseteq Nat
    OBVIOUS
  <2> HIDE DEF T
  <2> QED BY <2>1, <1>1, <1>8, <1>9, Upwards
<1> QED BY <1>1, <1>7, <1>10 DEF K

LEMMA ExactDivision == ASSUME NEW q \in Nat, NEW r \in Nat \ {0} PROVE (q * r) \div r = q
<1>1. (q * r) \in Nat
  OBVIOUS
<1>2. \A n \in Nat, d_ \in Nat \ {0} : (n \div d_) \in Nat /\ d_ * (n \div d_) <= n /\ n < d_ * (n \div d_) + d_
  OBVIOUS
<1> DEFINE n == q * r
           t == n \div r
<1>3. t \in Nat /\ r * t <= n /\ n < r * t + r
  BY <1>1, <1>2
<1>4. r * t <= q * r /\ q * r < r * t + r
  BY <1>3
<1> HIDE DEF t, n
<1>5. ASSUME t < q PROVE FALSE
  <2>1. t + 1 <= q
    BY <1>3, <1>5
  <2>2. r * (t + 1) <= r * q
    BY <1>3, <2>1
  <2>3. r * (t + 1) = r * t + r
    BY <1>3
  <2> QED BY <1>3, <1>4, <2>2, <2>3
<1>6. ASSUME q < t PROVE FALSE
  <2>1. q + 1 <= t
    BY <1>3, <1>6
  <2>2. r * (q + 1) <= r * t
    BY <1>3, <2>1
  <2>3. r * (q + 1) = q * r + r
    BY <1>3
  <2> QED BY <1>3, <1>4, <2>2, <2>3
<1>7. t = q
  BY <1>3, <1>5, <1>6
<1> QED BY <1>7 DEF t, n

LEMMA LargerShare ==
    ASSUME NEW p \in Nat, NEW q \in Nat, NEW r \in Nat \ {0}, NEW s \in Nat \ {0}, r < s, p * r = q * s, p * r # 0
    PROVE  p > q
<1> SUFFICES ASSUME p <= q PROVE FALSE
  OBVIOUS
<1>1. q # 0
  OBVIOUS
<1>2. p * r <= q * r
  OBVIOUS
<1>3. q * r < q * s
  BY <1>1
<1> QED BY <1>2, <1>3

\* What a list gives a chunk: something if the chunk is in it, and more than to
\* one behind.
LEMMA PartsFall ==
    ASSUME NEW list, BestOnes(list)
    PROVE  /\ \A c_ : Part(list, c_) \in Nat /\ (c_ \notin ChunksIn(list) => Part(list, c_) = 0)
           /\ \A c_ \in ChunksIn(list) : /\ RankOfChunk(list, c_) \in DOMAIN list
                                         /\ list[RankOfChunk(list, c_)].chunk = c_
           /\ \A c_, d_ \in ChunksIn(list) :
                 RankOfChunk(list, c_) < RankOfChunk(list, d_) => Part(list, c_) > Part(list, d_)
<1>1. \A c_ \in ChunksIn(list) : \E i \in DOMAIN list : list[i].chunk = c_
  BY DEF ChunksIn
<1>2. \A c_ \in ChunksIn(list) : RankOfChunk(list, c_) \in DOMAIN list /\ list[RankOfChunk(list, c_)].chunk = c_
  BY <1>1 DEF RankOfChunk
<1>3. DOMAIN list = 1..Len(list) /\ Len(list) \in Nat /\ Len(list) <= CandidateK /\ CandidateK \in Nat /\ RrfK \in Nat
  BY CandidatesSome, RetrievalAssumption DEF BestOnes
<1>4. \A c_ \in ChunksIn(list) : RankOfChunk(list, c_) \in 1..CandidateK
  BY <1>2, <1>3
<1>5. ASSUME NEW c_ \in ChunksIn(list)
      PROVE  Part(list, c_) \in Nat /\ Denominator = Part(list, c_) * (RrfK + RankOfChunk(list, c_))
  <2> DEFINE r == RankOfChunk(list, c_)
  <2>1. r \in 1..CandidateK
    BY <1>4
  <2>2. Part(list, c_) = Denominator \div (RrfK + r)
    BY DEF Part
  <2> HIDE DEF r
  <2>3. PICK q \in Nat : Denominator = q * (RrfK + r)
    BY <2>1, DenominatorDivides
  <2>4. RrfK + r \in Nat \ {0}
    BY <1>3, <2>1
  <2>5. (q * (RrfK + r)) \div (RrfK + r) = q
    BY <2>4, ExactDivision
  <2>6. Part(list, c_) = q
    BY <2>2, <2>3, <2>5
  <2> QED BY <2>3, <2>6 DEF r
<1>6. ASSUME NEW c_ PROVE Part(list, c_) \in Nat /\ (c_ \notin ChunksIn(list) => Part(list, c_) = 0)
  <2>1. CASE c_ \in ChunksIn(list)
    BY <1>5, <2>1
  <2>2. CASE c_ \notin ChunksIn(list)
    BY <2>2 DEF Part
  <2> QED BY <2>1, <2>2
<1>7. ASSUME NEW c_ \in ChunksIn(list), NEW d_ \in ChunksIn(list), RankOfChunk(list, c_) < RankOfChunk(list, d_)
      PROVE  Part(list, c_) > Part(list, d_)
  <2> DEFINE r == RrfK + RankOfChunk(list, c_)
             s == RrfK + RankOfChunk(list, d_)
             p == Part(list, c_)
             q == Part(list, d_)
  <2>1. r \in Nat \ {0} /\ s \in Nat \ {0} /\ r < s
    BY <1>3, <1>4, <1>7
  <2>2. p \in Nat /\ q \in Nat /\ Denominator = p * r /\ Denominator = q * s
    BY <1>5
  <2>3. Denominator # 0
    BY DenominatorDivides
  <2> HIDE DEF p, q, r, s
  <2>4. p > q
    BY <2>1, <2>2, <2>3, LargerShare
  <2> QED BY <2>4 DEF p, q
<1> QED BY <1>2, <1>6, <1>7

\* The lists a fusion is made of.
Found(lists) == /\ lists \in Seq(Seq(Hits)) /\ \A i \in DOMAIN lists : BestOnes(lists[i]) /\ lists[i] # <<>>
Held(lists) == UNION {ChunksIn(lists[i]) : i \in DOMAIN lists}

\* RrfScore, step by step.
RrfSums(lists, c_, f) ==
    f \in [0..Len(lists) -> Nat] /\ f[0] = 0 /\ \A i \in 1..Len(lists) : f[i] = f[i - 1] + Part(lists[i], c_)

LEMMA RrfScoreAddsUp ==
    ASSUME NEW lists, Found(lists), NEW c_
    PROVE  \E f : RrfSums(lists, c_, f) /\ RrfScore(lists, c_) = f[Len(lists)]
<1> DEFINE n == Len(lists)
           sum[i \in 0..Len(lists)] == IF i = 0 THEN 0 ELSE sum[i - 1] + Part(lists[i], c_)
           step == [p \in (1..n) \X Nat |-> p[2] + Part(lists[p[1]], c_)]
<1>1. n \in Nat /\ \A i \in 1..n : Part(lists[i], c_) \in Nat
  BY PartsFall DEF Found
<1>2. \E g \in [0..n -> Nat] : BuiltBy(g, 0, step, n)
  <2> DEFINE V == Nat
             v == 0
  <2>1. v \in V /\ n \in Nat /\ step \in [(1..n) \X V -> V]
    BY <1>1
  <2> HIDE DEF step, sum, V, v, n
  <2>2. \E g \in [0..n -> V] : BuiltBy(g, v, step, n)
    BY <2>1, StepByStep
  <2> QED BY <2>2 DEF V, v
<1>3. PICK g \in [0..n -> Nat] : g[0] = 0 /\ \A i \in 1..n : g[i] = step[<<i, g[i - 1]>>]
  BY <1>2 DEF BuiltBy
<1>4. \A i \in 0..n : i # 0 => i \in 1..n /\ i - 1 \in 0..n /\ g[i - 1] \in Nat
  BY <1>1, <1>3
<1>5. g = [i \in 0..n |-> IF i = 0 THEN 0 ELSE g[i - 1] + Part(lists[i], c_)]
  BY <1>1, <1>3, <1>4
<1>6. sum = [i \in 0..n |-> IF i = 0 THEN 0 ELSE sum[i - 1] + Part(lists[i], c_)]
  BY <1>5
<1>7. RrfScore(lists, c_) = sum[n]
  BY DEF RrfScore
<1> HIDE DEF step, sum
<1> DEFINE T == {i \in Nat : i <= n => sum[i] \in Nat}
<1>8. 0 \in T
  BY <1>1, <1>6
<1>9. ASSUME NEW i \in T PROVE i + 1 \in T
  <2> SUFFICES ASSUME i + 1 <= n PROVE sum[i + 1] \in Nat
    OBVIOUS
  <2>1. i \in Nat /\ i <= n /\ i + 1 \in 1..n /\ i + 1 \in 0..n /\ i + 1 # 0 /\ (i + 1) - 1 = i
    BY <1>1
  <2>2. sum[i + 1] = sum[i] + Part(lists[i + 1], c_)
    BY <1>6, <2>1
  <2> QED BY <1>1, <2>1, <2>2
<1>10. T = Nat
  <2>1. T \subseteq Nat
    OBVIOUS
  <2> HIDE DEF T
  <2> QED BY <2>1, <1>8, <1>9, Upwards
<1>11. \A i \in 0..n : sum[i] \in Nat
  BY <1>1, <1>10
<1>12. sum \in [0..n -> Nat] /\ sum[0] = 0 /\ \A i \in 1..n : sum[i] = sum[i - 1] + Part(lists[i], c_)
  <2>1. \A i \in 1..n : i \in 0..n /\ i # 0
    BY <1>1
  <2>2. sum[0] = 0 /\ \A i \in 1..n : sum[i] = sum[i - 1] + Part(lists[i], c_)
    BY <1>1, <1>6, <2>1
  <2>3. sum = [i \in 0..n |-> sum[i]]
    BY <1>6
  <2>4. sum \in [0..n -> Nat]
    BY <1>11, <2>3
  <2> QED BY <2>2, <2>4
<1> HIDE DEF n
<1> QED BY <1>7, <1>12 DEF RrfSums, n

\* Whoever is ahead in all lists of another has the higher score.
LEMMA AheadScoresMore ==
    ASSUME NEW lists, Found(lists), NEW c_, NEW d_ \in Held(lists), Ahead(lists, c_, d_)
    PROVE  RrfScore(lists, c_) > RrfScore(lists, d_)
<1> DEFINE n == Len(lists)
<1>1. n \in Nat /\ DOMAIN lists = 1..n
  BY DEF Found
<1>2. PICK f : RrfSums(lists, c_, f) /\ RrfScore(lists, c_) = f[n]
  BY RrfScoreAddsUp
<1>3. PICK g : RrfSums(lists, d_, g) /\ RrfScore(lists, d_) = g[n]
  BY RrfScoreAddsUp
<1> HIDE DEF n
<1>4. /\ f \in [0..n -> Nat] /\ f[0] = 0 /\ \A i \in 1..n : f[i] = f[i - 1] + Part(lists[i], c_)
      /\ g \in [0..n -> Nat] /\ g[0] = 0 /\ \A i \in 1..n : g[i] = g[i - 1] + Part(lists[i], d_)
  BY <1>2, <1>3 DEF RrfSums, n
<1>5. ASSUME NEW i \in 1..n
      PROVE  /\ Part(lists[i], c_) \in Nat /\ Part(lists[i], d_) \in Nat
             /\ Part(lists[i], c_) >= Part(lists[i], d_)
             /\ d_ \in ChunksIn(lists[i]) => Part(lists[i], c_) > Part(lists[i], d_)
  <2>1. BestOnes(lists[i]) /\ i \in DOMAIN lists
    BY <1>1 DEF Found
  <2>2. CASE d_ \in ChunksIn(lists[i])
    <3>1. c_ \in ChunksIn(lists[i]) /\ RankOfChunk(lists[i], c_) < RankOfChunk(lists[i], d_)
      BY <2>1, <2>2 DEF Ahead
    <3> QED BY <2>1, <2>2, <3>1, PartsFall
  <2>3. CASE d_ \notin ChunksIn(lists[i])
    <3>1. Part(lists[i], d_) = 0 /\ Part(lists[i], c_) \in Nat
      BY <2>1, <2>3, PartsFall
    <3> QED BY <2>3, <3>1
  <2> QED BY <2>2, <2>3
<1>6. PICK m \in 1..n : d_ \in ChunksIn(lists[m])
  BY <1>1 DEF Held
<1> DEFINE T == {i \in Nat : i <= n => f[i] >= g[i] /\ (m <= i => f[i] > g[i])}
<1>7. 0 \in T
  BY <1>1, <1>4
<1>8. ASSUME NEW i \in T PROVE i + 1 \in T
  <2> SUFFICES ASSUME i + 1 <= n PROVE f[i + 1] >= g[i + 1] /\ (m <= i + 1 => f[i + 1] > g[i + 1])
    OBVIOUS
  <2>1. i \in Nat /\ i + 1 \in 1..n /\ i \in 0..n /\ (i + 1) - 1 = i /\ f[i] \in Nat /\ g[i] \in Nat
    BY <1>1, <1>4
  <2>2. f[i + 1] = f[i] + Part(lists[i + 1], c_) /\ g[i + 1] = g[i] + Part(lists[i + 1], d_)
    BY <1>4, <2>1
  <2>3. f[i] >= g[i] /\ (m <= i => f[i] > g[i])
    BY <1>1, <2>1
  <2>4. /\ Part(lists[i + 1], c_) \in Nat /\ Part(lists[i + 1], d_) \in Nat
        /\ Part(lists[i + 1], c_) >= Part(lists[i + 1], d_)
        /\ m = i + 1 => Part(lists[i + 1], c_) > Part(lists[i + 1], d_)
    BY <1>5, <1>6, <2>1
  <2>5. m <= i + 1 => m <= i \/ m = i + 1
    BY <1>6, <2>1
  <2> HIDE DEF T
  <2> QED BY <2>1, <2>2, <2>3, <2>4, <2>5
<1>9. n \in T
  <2>1. T \subseteq Nat
    OBVIOUS
  <2> HIDE DEF T
  <2> QED BY <2>1, <1>1, <1>7, <1>8, Upwards
<1>10. f[n] > g[n]
  BY <1>1, <1>6, <1>9
<1> QED BY <1>2, <1>3, <1>10


\* Dominance, of any lists and what they are fused into.
Dominates(lists, fused) ==
    \A i \in DOMAIN fused : \A c_ \in Held(lists) :
        c_ # fused[i].chunk /\ Ahead(lists, c_, fused[i].chunk) => \E h \in 1..(i - 1) : fused[h].chunk = c_

\* What the candidates are to the lists.
FusedWell(lists, fused) ==
    /\ fused \in Seq(Hits) /\ Once(fused) /\ ChunksIn(fused) \subseteq Held(lists)
    /\ fused = <<>> => lists = <<>>
    /\ Dominates(lists, fused)

LEMMA ShareCounted ==
    ASSUME NEW score \in Nat, NEW n \in Nat \ {0} PROVE NormalizeRrf(score, n) \in Nat
<1> DEFINE p == score * (RrfK + 1) * Full
           q == Denominator * n
<1>1. RrfK \in Nat /\ Full \in Nat /\ Denominator \in Nat \ {0}
  BY RetrievalAssumption, DenominatorDivides
<1>2. p \in Nat
  <2>1. score * (RrfK + 1) \in Nat
    BY <1>1
  <2> DEFINE r == score * (RrfK + 1)
  <2> HIDE DEF r
  <2>2. r \in Nat /\ p = r * Full
    BY <2>1 DEF r
  <2> QED BY <1>1, <2>2
<1>3. q \in Nat \ {0}
  BY <1>1, ProductSome
<1>4. NormalizeRrf(score, n) = Min({Full, p \div q})
  BY DEF NormalizeRrf
<1> HIDE DEF p, q
<1>5. p \div q \in Nat
  BY <1>2, <1>3, Divided
<1> DEFINE t == p \div q
<1> HIDE DEF t
<1>6. t \in Nat /\ NormalizeRrf(score, n) = Min({Full, t})
  BY <1>4, <1>5 DEF t
<1> QED BY <1>1, <1>6, LesserOf

LEMMA RrfFuseWell ==
    ASSUME NEW lists, Found(lists), lists # <<>> PROVE FusedWell(lists, RrfFuse(lists))
<1> DEFINE rows == [i \in DOMAIN lists |-> [j \in DOMAIN lists[i] |-> lists[i][j].chunk]]
           met == FlattenSeq(rows)
           S == ToSet(met)
           score == [c_ \in S |-> RrfScore(lists, c_)]
           place == FirstPlaces(met)
           sorted == BestFirst(S, score, place)
           all == [i \in DOMAIN sorted |->
                     [chunk |-> sorted[i], score |-> NormalizeRrf(score[sorted[i]], Len(lists))]]
<1>1. /\ lists \in Seq(Seq(Hits)) /\ Len(lists) \in Nat \ {0} /\ DOMAIN lists = 1..Len(lists)
      /\ \A i \in DOMAIN lists : lists[i] \in Seq(Hits) /\ BestOnes(lists[i]) /\ lists[i] # <<>>
  <2>1. lists \in Seq(Seq(Hits)) /\ \A i \in DOMAIN lists : BestOnes(lists[i]) /\ lists[i] # <<>>
    BY DEF Found
  <2> QED BY <2>1, EmptySeq
<1>2. ASSUME NEW i \in DOMAIN lists
      PROVE  /\ rows[i] \in Seq(ToSet(Order)) /\ DOMAIN rows[i] = DOMAIN lists[i]
             /\ \A j \in DOMAIN lists[i] : rows[i][j] = lists[i][j].chunk
  <2> DEFINE list == lists[i]
  <2>1. list \in Seq(Hits)
    BY <1>1
  <2> HIDE DEF list
  <2>2. \A j \in DOMAIN list : list[j].chunk \in ToSet(Order)
    <3> TAKE j \in DOMAIN list
    <3>1. list[j] \in Hits
      BY <2>1
    <3> QED BY <3>1 DEF Hits
  <2>3. DOMAIN list = 1..Len(list) /\ Len(list) \in Nat
    BY <2>1
  <2>4. [j \in DOMAIN list |-> list[j].chunk] \in Seq(ToSet(Order))
    BY <2>2, <2>3
  <2> QED BY <2>4 DEF list
<1>3. rows \in Seq(Seq(ToSet(Order))) /\ DOMAIN rows = DOMAIN lists /\ Len(rows) = Len(lists)
  BY <1>1, <1>2
<1> HIDE DEF rows
<1>4. met \in Seq(ToSet(Order)) /\ \E row, col : FlatPlaces(rows, Len(rows), met, row, col)
  BY <1>3, FlattenedWell
<1> HIDE DEF met
<1>5. PICK row, col : FlatPlaces(rows, Len(rows), met, row, col)
  BY <1>4
<1>6. S = Held(lists)
  <2>1. ASSUME NEW x \in S PROVE x \in Held(lists)
    <3>1. PICK k \in 1..Len(met) : met[k] = x
      BY <1>4 DEF ToSet
    <3>2. row[k] \in DOMAIN lists /\ col[k] \in DOMAIN rows[row[k]] /\ met[k] = rows[row[k]][col[k]]
      BY <1>1, <1>3, <1>5 DEF FlatPlaces
    <3>3. x \in ChunksIn(lists[row[k]])
      BY <1>2, <3>1, <3>2 DEF ChunksIn
    <3> QED BY <3>2, <3>3 DEF Held
  <2>2. ASSUME NEW x \in Held(lists) PROVE x \in S
    <3>1. PICK i \in DOMAIN lists : x \in ChunksIn(lists[i])
      BY DEF Held
    <3>2. PICK j \in DOMAIN lists[i] : x = lists[i][j].chunk
      BY <3>1 DEF ChunksIn
    <3>3. i \in 1..Len(rows) /\ j \in DOMAIN rows[i] /\ rows[i][j] = x
      BY <1>1, <1>2, <1>3, <3>2
    <3>4. PICK k \in 1..Len(met) : row[k] = i /\ col[k] = j
      BY <1>5, <3>3 DEF FlatPlaces
    <3>5. met[k] = x /\ k \in DOMAIN met
      BY <1>4, <1>5, <3>3, <3>4 DEF FlatPlaces
    <3> QED BY <3>5 DEF ToSet
  <2> QED BY <2>1, <2>2
<1>7. /\ S \subseteq ToSet(Order) /\ IsFiniteSet(S)
      /\ \A x \in S : place[x] \in Int
      /\ \A x, y \in S : place[x] = place[y] => x = y
  BY <1>4, MetOnce
<1> HIDE DEF S, place
<1>8. \A x \in S : score[x] = RrfScore(lists, x) /\ score[x] \in Nat
  <2> TAKE x \in S
  <2>1. PICK f : RrfSums(lists, x, f) /\ RrfScore(lists, x) = f[Len(lists)]
    BY RrfScoreAddsUp
  <2>2. f \in [0..Len(lists) -> Nat] /\ Len(lists) \in 0..Len(lists)
    BY <1>1, <2>1 DEF RrfSums
  <2> QED BY <2>1, <2>2
<1> HIDE DEF score
<1> DEFINE m == Cardinality(S)
<1>9. /\ m \in Nat /\ sorted \in [1..m -> S]
      /\ \A i, j \in 1..m : i < j => score[sorted[i]] >= score[sorted[j]] /\ sorted[i] # sorted[j]
      /\ \A x \in S : \E i \in 1..m : sorted[i] = x
  <2>1. \A x \in S : score[x] \in Int
    BY <1>8
  <2> QED BY <1>7, <2>1, BestFirstWell
<1>10. m # 0
  <2>1. 1 \in DOMAIN lists /\ lists[1] \in Seq(Hits) /\ lists[1] # <<>>
    BY <1>1
  <2>2. 1 \in DOMAIN lists[1]
    BY <2>1, EmptySeq
  <2>3. lists[1][1].chunk \in Held(lists)
    BY <2>1, <2>2 DEF Held, ChunksIn
  <2> QED BY <1>6, <1>7, <2>3, FS_EmptySet
<1> HIDE DEF sorted, m
<1>11. \A i \in 1..m : sorted[i] \in S /\ all[i] = [chunk |-> sorted[i], score |-> NormalizeRrf(score[sorted[i]], Len(lists))]
  BY <1>9
<1>12. \A i \in 1..m : all[i].chunk = sorted[i] /\ all[i] \in Hits
  <2> TAKE i \in 1..m
  <2> DEFINE t == NormalizeRrf(score[sorted[i]], Len(lists))
  <2>1. t \in Nat
    BY <1>1, <1>8, <1>11, ShareCounted
  <2>2. sorted[i] \in ToSet(Order) /\ all[i] = [chunk |-> sorted[i], score |-> t]
    BY <1>7, <1>11
  <2> HIDE DEF t, all
  <2> QED BY <2>1, <2>2 DEF Hits
<1>13. all = [i \in 1..m |-> all[i]]
  BY <1>9
<1>14. RrfFuse(lists) = Cut_(all, CandidateK)
  BY DEF RrfFuse, all, sorted, score, place, S, met, rows
<1> HIDE DEF all
<1>15. all \in Seq(Hits) /\ Len(all) = m
  BY <1>9, <1>12, <1>13
<1>16. CandidateK \in Nat \ {0}
  BY CandidatesSome
<1> DEFINE u == Cut_(all, CandidateK)
<1>17. /\ u \in Seq(Hits) /\ Len(u) = (IF CandidateK <= m THEN CandidateK ELSE m)
       /\ DOMAIN u = 1..Len(u) /\ Len(u) \in Nat
       /\ \A i \in 1..Len(u) : i \in DOMAIN all /\ u[i] = all[i]
  BY <1>15, <1>16, CutWell
<1> HIDE DEF u
<1>18. \A i \in 1..Len(u) : i \in 1..m /\ u[i].chunk = sorted[i]
  BY <1>12, <1>13, <1>17
<1>19. u # <<>>
  BY <1>9, <1>10, <1>16, <1>17
<1>20. Once(u)
  <2> SUFFICES ASSUME NEW i \in DOMAIN u, NEW j \in DOMAIN u, u[i].chunk = u[j].chunk, i # j PROVE FALSE
    BY DEF Once
  <2>1. i \in 1..m /\ j \in 1..m /\ sorted[i] = sorted[j]
    BY <1>17, <1>18
  <2>2. i < j \/ j < i
    BY <2>1
  <2> QED BY <1>9, <2>1, <2>2
<1>21. ChunksIn(u) \subseteq Held(lists)
  BY <1>6, <1>11, <1>17, <1>18 DEF ChunksIn
<1>22. ASSUME NEW i \in DOMAIN u, NEW c_ \in Held(lists), c_ # u[i].chunk, Ahead(lists, c_, u[i].chunk)
       PROVE  \E h \in 1..(i - 1) : u[h].chunk = c_
  <2>1. i \in 1..m /\ u[i].chunk = sorted[i] /\ sorted[i] \in S
    BY <1>11, <1>17, <1>18
  <2>2. PICK h \in 1..m : sorted[h] = c_
    BY <1>6, <1>9
  <2>3. RrfScore(lists, c_) > RrfScore(lists, sorted[i])
    BY <1>6, <1>22, <2>1, AheadScoresMore
  <2>4. score[sorted[h]] > score[sorted[i]] /\ score[sorted[h]] \in Nat /\ score[sorted[i]] \in Nat
    BY <1>8, <1>11, <2>1, <2>2, <2>3
  <2>5. ~(i < h) /\ i # h
    BY <1>9, <2>1, <2>2, <2>4
  <2>6. h \in 1..(i - 1) /\ h \in 1..Len(u)
    BY <1>17, <2>1, <2>2, <2>5
  <2> QED BY <1>18, <2>2, <2>6
<1>23. FusedWell(lists, u)
  BY <1>17, <1>19, <1>20, <1>21, <1>22 DEF FusedWell, Dominates
<1> QED BY <1>14, <1>23 DEF u

\* A single list is already in the order of its places.
LEMMA SingleWell ==
    ASSUME NEW lists, Found(lists), Len(lists) = 1 PROVE FusedWell(lists, Cut_(lists[1], CandidateK))
<1> DEFINE list == lists[1]
           u == Cut_(list, CandidateK)
<1>1. lists \in Seq(Seq(Hits)) /\ DOMAIN lists = {1}
  BY DEF Found
<1>2. list \in Seq(Hits) /\ BestOnes(list) /\ list # <<>> /\ Once(list)
  BY <1>1, OnceOfBest DEF Found
<1>3. Held(lists) = ChunksIn(list)
  BY <1>1 DEF Held
<1> HIDE DEF list
<1>4. CandidateK \in Nat \ {0} /\ Len(list) \in Nat \ {0} /\ DOMAIN list = 1..Len(list)
  BY <1>2, CandidatesSome, EmptySeq
<1>5. /\ u \in Seq(Hits) /\ Len(u) = (IF CandidateK <= Len(list) THEN CandidateK ELSE Len(list))
      /\ DOMAIN u = 1..Len(u) /\ Len(u) \in Nat
      /\ \A i \in 1..Len(u) : i \in DOMAIN list /\ u[i] = list[i]
  BY <1>2, <1>4, CutWell
<1>6. Once(u) /\ ChunksIn(u) \subseteq ChunksIn(list)
  BY <1>2, <1>4, CutKeeps
<1> HIDE DEF u
<1>7. u # <<>>
  BY <1>4, <1>5
<1>8. ASSUME NEW i \in DOMAIN u, NEW c_ \in Held(lists), c_ # u[i].chunk, Ahead(lists, c_, u[i].chunk)
      PROVE  \E h \in 1..(i - 1) : u[h].chunk = c_
  <2>1. i \in DOMAIN list /\ u[i] = list[i]
    BY <1>5
  <2>2. u[i].chunk \in ChunksIn(list)
    BY <2>1 DEF ChunksIn
  <2>3. c_ \in ChunksIn(list) /\ RankOfChunk(list, c_) < RankOfChunk(list, u[i].chunk)
    BY <1>1, <1>8, <2>2 DEF Ahead, list
  <2>4. /\ RankOfChunk(list, c_) \in DOMAIN list /\ list[RankOfChunk(list, c_)].chunk = c_
        /\ RankOfChunk(list, u[i].chunk) \in DOMAIN list /\ list[RankOfChunk(list, u[i].chunk)].chunk = u[i].chunk
    BY <1>2, <2>2, <2>3, PartsFall
  <2>5. RankOfChunk(list, u[i].chunk) = i
    BY <1>2, <2>1, <2>4 DEF Once
  <2> DEFINE h == RankOfChunk(list, c_)
  <2> HIDE DEF h
  <2>6. h \in 1..(i - 1) /\ list[h].chunk = c_
    BY <1>4, <2>1, <2>3, <2>4, <2>5 DEF h
  <2>7. h \in 1..Len(u)
    BY <1>5, <2>6
  <2> QED BY <1>5, <2>6, <2>7
<1>9. FusedWell(lists, u)
  BY <1>3, <1>5, <1>6, <1>7, <1>8 DEF FusedWell, Dominates
<1> QED BY <1>9 DEF u, list

LEMMA NothingFused == FusedWell(<<>>, <<>>)
<1>1. <<>> \in Seq(Hits) /\ DOMAIN <<>> = {}
  OBVIOUS
<1>2. Once(<<>>) /\ ChunksIn(<<>>) = {}
  BY <1>1 DEF Once, ChunksIn
<1>3. Dominates(<<>>, <<>>)
  BY <1>1 DEF Dominates
<1> QED BY <1>1, <1>2, <1>3 DEF FusedWell


-----------------------------------------------------------------------------
(* Retrieval: queries and the answers of the reranker *)

\* New texts are queries: blank ones are left out.
LEMMA NewTextsTyped ==
    ASSUME NEW texts \in Seq(Queries \cup {NoQuery}), NEW known PROVE NewTexts(texts, known) \in Seq(Queries)
<1> DEFINE n == Len(texts)
           V == Seq(Queries)
           new[i \in 0..Len(texts)] ==
               IF i = 0 THEN <<>>
               ELSE IF texts[i] \in known \cup {NoQuery} \cup ToSet(new[i - 1]) THEN new[i - 1]
               ELSE Append(new[i - 1], texts[i])
           step == [p \in (1..n) \X V |-> IF texts[p[1]] \in known \cup {NoQuery} \cup ToSet(p[2]) THEN p[2]
                                          ELSE Append(p[2], texts[p[1]])]
<1>1. n \in Nat /\ <<>> \in V /\ \A i \in 1..n : texts[i] \in Queries \cup {NoQuery}
  OBVIOUS
<1>2. ASSUME NEW i \in 1..n, NEW x \in V
      PROVE  (IF texts[i] \in known \cup {NoQuery} \cup ToSet(x) THEN x ELSE Append(x, texts[i])) \in V
  <2>1. texts[i] # NoQuery => Append(x, texts[i]) \in Seq(Queries)
    BY <1>1, AppendProperties
  <2> QED BY <2>1
<1>3. step \in [(1..n) \X V -> V]
  BY <1>2
<1>4. \E g \in [0..n -> V] : BuiltBy(g, <<>>, step, n)
  <2> HIDE DEF step, new, V, n
  <2> QED BY <1>1, <1>3, StepByStep
<1>5. PICK g \in [0..n -> V] : g[0] = <<>> /\ \A i \in 1..n : g[i] = step[<<i, g[i - 1]>>]
  BY <1>4 DEF BuiltBy
<1>6. \A i \in 0..n : i # 0 => i \in 1..n /\ i - 1 \in 0..n /\ g[i - 1] \in V
  <2> HIDE DEF V
  <2> QED BY <1>1, <1>5
<1>7. \A i \in 1..n : step[<<i, g[i - 1]>>] = IF texts[i] \in known \cup {NoQuery} \cup ToSet(g[i - 1]) THEN g[i - 1]
                                              ELSE Append(g[i - 1], texts[i])
  <2> HIDE DEF V
  <2>1. \A i \in 1..n : i \in 0..n /\ i # 0
    BY <1>1
  <2> QED BY <1>6, <2>1
<1> HIDE DEF step, V
<1>8. g = [i \in 0..n |->
               IF i = 0 THEN <<>>
               ELSE IF texts[i] \in known \cup {NoQuery} \cup ToSet(g[i - 1]) THEN g[i - 1]
               ELSE Append(g[i - 1], texts[i])]
  BY <1>1, <1>5, <1>6, <1>7
<1>9. new = [i \in 0..n |->
               IF i = 0 THEN <<>>
               ELSE IF texts[i] \in known \cup {NoQuery} \cup ToSet(new[i - 1]) THEN new[i - 1]
               ELSE Append(new[i - 1], texts[i])]
  BY <1>8
<1>10. NewTexts(texts, known) = new[n]
  BY DEF NewTexts
<1> HIDE DEF new, n
<1> DEFINE T == {i \in Nat : i <= n => new[i] \in V}
<1>11. 0 \in T
  <2>1. 0 \in 0..n
    BY <1>1
  <2>2. new[0] = <<>>
    BY <1>9, <2>1
  <2> QED BY <1>1, <2>2
<1>12. ASSUME NEW i \in T PROVE i + 1 \in T
  <2> SUFFICES ASSUME i + 1 <= n PROVE new[i + 1] \in V
    OBVIOUS
  <2>1. i \in Nat /\ i <= n /\ i + 1 \in 1..n /\ i + 1 \in 0..n /\ i + 1 # 0 /\ (i + 1) - 1 = i /\ new[i] \in V
    BY <1>1
  <2>2. new[i + 1] = IF texts[i + 1] \in known \cup {NoQuery} \cup ToSet(new[i]) THEN new[i]
                     ELSE Append(new[i], texts[i + 1])
    BY <1>9, <2>1
  <2> QED BY <1>2, <2>1, <2>2
<1>13. n \in T
  <2>1. T \subseteq Nat
    OBVIOUS
  <2> HIDE DEF T
  <2> QED BY <2>1, <1>1, <1>11, <1>12, Upwards
<1> QED BY <1>1, <1>10, <1>13 DEF V

LEMMA ClampedTyped == ASSUME NEW score \in Int PROVE Clamped(score) \in Nat
<1> DEFINE t == Min({Full, score})
<1>1. Full \in Nat
  BY RetrievalAssumption
<1>2. t \in Int /\ Clamped(score) = Max({0, t})
  BY <1>1, LesserOf DEF Clamped
<1> HIDE DEF t
<1> QED BY <1>2, GreaterOf

\* The results of a reranking are hits that were candidates, each once.
ResultsWell(hits, results) == results \in Seq(Hits) /\ Once(results) /\ ChunksIn(results) \subseteq ChunksIn(hits)

LEMMA AppliedWell ==
    ASSUME NEW hits \in Seq(Hits), NEW reply \in Seq([index : Int, score : Int])
    PROVE  ResultsWell(hits, ApplyResults(hits, reply))
<1> DEFINE n == Len(reply)
           V == {t \in Seq(Hits) : ResultsWell(hits, t)}
           One(i, x) == IF reply[i].index + 1 \notin DOMAIN hits THEN x
                        ELSE LET chunk == hits[reply[i].index + 1].chunk IN
                             IF chunk \in ChunksIn(x) THEN x
                             ELSE Append(x, [chunk |-> chunk, score |-> Clamped(reply[i].score)])
           results[k \in 0..Len(reply)] ==
            IF k = 0 THEN <<>>
            ELSE IF reply[k].index + 1 \notin DOMAIN hits THEN results[k - 1]
            ELSE LET chunk == hits[reply[k].index + 1].chunk IN
                 IF chunk \in ChunksIn(results[k - 1]) THEN results[k - 1]
                 ELSE Append(results[k - 1], [chunk |-> chunk, score |-> Clamped(reply[k].score)])
           step == [p \in (1..n) \X V |-> One(p[1], p[2])]
<1>1. n \in Nat /\ \A i \in 1..n : reply[i].score \in Int
  <2> HIDE DEF One, results, step
  <2>1. n \in Nat /\ \A i \in 1..n : reply[i] \in [index : Int, score : Int]
    BY LenProperties
  <2> QED BY <2>1
<1>2. <<>> \in V
  <2>1. <<>> \in Seq(Hits) /\ DOMAIN <<>> = {}
    OBVIOUS
  <2> QED BY <2>1 DEF ResultsWell, Once, ChunksIn
<1>3. ASSUME NEW i \in 1..n, NEW x \in V PROVE One(i, x) \in V
  <2> DEFINE h == hits[reply[i].index + 1]
             new == [chunk |-> h.chunk, score |-> Clamped(reply[i].score)]
  <2>1. CASE reply[i].index + 1 \notin DOMAIN hits \/ h.chunk \in ChunksIn(x)
    BY <2>1
  <2>2. CASE reply[i].index + 1 \in DOMAIN hits /\ h.chunk \notin ChunksIn(x)
    <3>1. h \in Hits
      BY <2>2
    <3>2. h.chunk \in ToSet(Order) /\ h.chunk \in ChunksIn(hits)
      BY <2>2, <3>1 DEF Hits, ChunksIn
    <3>3. new \in Hits
      <4>1. Clamped(reply[i].score) \in Nat
        BY <1>1, ClampedTyped
      <4> QED BY <3>2, <4>1 DEF Hits
    <3>4. One(i, x) = Append(x, new)
      BY <2>2
    <3>5. x \in Seq(Hits) /\ Once(x) /\ ChunksIn(x) \subseteq ChunksIn(hits)
      BY DEF ResultsWell
    <3>6. new.chunk = h.chunk
      OBVIOUS
    <3> DEFINE y == Append(x, new)
    <3> HIDE DEF new, h, One
    <3>7. /\ y \in Seq(Hits) /\ Len(y) = Len(x) + 1 /\ DOMAIN y = 1..Len(y) /\ DOMAIN x = 1..Len(x) /\ Len(x) \in Nat
          /\ \A k \in 1..Len(x) : y[k] = x[k]
          /\ y[Len(x) + 1] = new
      BY <3>3, <3>5, AppendProperties, LenProperties
    <3> HIDE DEF y
    <3>8. \A k \in DOMAIN y : \/ k \in DOMAIN x /\ y[k] = x[k]
                              \/ k = Len(x) + 1 /\ y[k] = new
      BY <3>7
    <3>9. Once(y)
      <4> SUFFICES ASSUME NEW k \in DOMAIN y, NEW l \in DOMAIN y, y[k].chunk = y[l].chunk PROVE k = l
        BY DEF Once
      <4>1. \A m \in DOMAIN x : x[m].chunk # h.chunk
        BY <2>2 DEF ChunksIn
      <4> QED BY <3>5, <3>6, <3>8, <4>1 DEF Once
    <3>10. ChunksIn(y) \subseteq ChunksIn(hits)
      <4> SUFFICES ASSUME NEW k \in DOMAIN y PROVE y[k].chunk \in ChunksIn(hits)
        BY DEF ChunksIn
      <4>1. \A m \in DOMAIN x : x[m].chunk \in ChunksIn(x)
        BY DEF ChunksIn
      <4> QED BY <3>2, <3>5, <3>6, <3>8, <4>1
    <3>11. y \in V
      BY <3>7, <3>9, <3>10 DEF ResultsWell
    <3> QED BY <3>4, <3>11 DEF y
  <2> QED BY <2>1, <2>2
<1>4. step \in [(1..n) \X V -> V]
  <2> HIDE DEF One, V
  <2> QED BY <1>3
<1>5. \E g \in [0..n -> V] : BuiltBy(g, <<>>, step, n)
  <2> HIDE DEF step, results, V, n
  <2> QED BY <1>1, <1>2, <1>4, StepByStep
<1>6. PICK g \in [0..n -> V] : g[0] = <<>> /\ \A i \in 1..n : g[i] = step[<<i, g[i - 1]>>]
  BY <1>5 DEF BuiltBy
<1>7. \A i \in 0..n : i # 0 => i \in 1..n /\ i - 1 \in 0..n /\ g[i - 1] \in V
  <2> HIDE DEF V, One, step, results, n
  <2>1. n \in Nat
    BY <1>1
  <2>2. \A i \in 0..n : i # 0 => i \in 1..n /\ i - 1 \in 0..n
    BY <2>1
  <2> QED BY <1>6, <2>2
<1>8. \A i \in 1..n : step[<<i, g[i - 1]>>] = One(i, g[i - 1])
  <2> HIDE DEF V, One
  <2>1. \A i \in 1..n : i \in 0..n /\ i # 0
    BY <1>1
  <2> QED BY <1>7, <2>1
<1> HIDE DEF step, V
<1>9. g = [k \in 0..n |-> IF k = 0 THEN <<>> ELSE One(k, g[k - 1])]
  <2> HIDE DEF One
  <2> QED BY <1>1, <1>6, <1>7, <1>8
<1>10. results = [k \in 0..n |-> IF k = 0 THEN <<>> ELSE One(k, results[k - 1])]
  BY <1>9
<1>11. ApplyResults(hits, reply) = results[n]
  BY DEF ApplyResults
<1> HIDE DEF results, n, One
<1> DEFINE T == {i \in Nat : i <= n => results[i] \in V}
<1>12. 0 \in T
  <2>1. 0 \in 0..n
    BY <1>1
  <2> QED BY <1>2, <1>10, <2>1
<1>13. ASSUME NEW i \in T PROVE i + 1 \in T
  <2> SUFFICES ASSUME i + 1 <= n PROVE results[i + 1] \in V
    OBVIOUS
  <2>1. i \in Nat /\ i <= n /\ i + 1 \in 1..n /\ i + 1 \in 0..n /\ i + 1 # 0 /\ (i + 1) - 1 = i /\ results[i] \in V
    BY <1>1
  <2> QED BY <1>3, <1>10, <2>1
<1>14. n \in T
  <2>1. T \subseteq Nat
    OBVIOUS
  <2> HIDE DEF T
  <2> QED BY <2>1, <1>1, <1>12, <1>13, Upwards
<1>15. ApplyResults(hits, reply) \in V
  BY <1>1, <1>11, <1>14
<1> QED BY <1>15 DEF V


-----------------------------------------------------------------------------
(* Retrieval: what it promises *)

\* What has been asked, found, fused and answered at each stage.
RetrievalInv ==
    /\ query \in [main : Queries, expansions : Seq(Queries), hyde : BOOLEAN, again : BOOLEAN]
    /\ to_search \in Seq(Queries)
    /\ Found(ranked) /\ candidates \in Seq(Hits) /\ answer \in Seq(Hits)
    /\ retrieval_stage \in {"query", "vectors", "text", "rerank", "found", "raised"}
    /\ retrieval_stage \in {"query", "vectors"} => ranked = <<>>
    /\ retrieval_stage \in {"query", "vectors", "text"} => candidates = <<>>
    /\ retrieval_stage # "found" => answer = <<>>
    /\ retrieval_stage = "rerank" => FusedWell(ranked, candidates)
    /\ NeverEmptyHanded /\ AnswerWhole

LEMMA VariantsTyped ==
    ASSUME NEW q, q.main \in Queries, q.expansions \in Seq(Queries) PROVE Variants(q) \in Seq(Queries)
<1>1. q.expansions \in Seq(Queries \cup {NoQuery})
  BY SeqMonotonic
<1>2. NewTexts(q.expansions, {q.main}) \in Seq(Queries)
  BY <1>1, NewTextsTyped
<1>3. <<q.main>> \in Seq(Queries)
  OBVIOUS
<1> QED BY <1>2, <1>3, ConcatProperties DEF Variants

LEMMA BuiltTyped ==
    ASSUME NEW reply \in Rewrites
    PROVE  BuildResult(reply) \in [main : Queries, expansions : Seq(Queries), hyde : BOOLEAN, again : BOOLEAN]
<1> DEFINE main == IF reply.rewrite = NoQuery THEN Question ELSE reply.rewrite
           new == NewTexts(reply.expansions, {Question, main})
           more == Cut_(new, Max({1, ExpansionCount}))
<1>1. reply \in [rewrite : Queries \cup {NoQuery}, expansions : Seq(Queries \cup {NoQuery}), hyde : BOOLEAN]
  BY RetrievalAssumption
<1>2. main \in Queries /\ reply.hyde \in BOOLEAN
  BY <1>1, RetrievalAssumption
<1>3. new \in Seq(Queries)
  BY <1>1, NewTextsTyped
<1>4. Max({1, ExpansionCount}) \in Nat
  <2>1. ExpansionCount \in Nat
    BY RetrievalAssumption
  <2> QED BY <2>1, GreaterOf
<1>5. BuildResult(reply) = [main |-> main, expansions |-> more, hyde |-> reply.hyde, again |-> FALSE]
  BY DEF BuildResult
<1> HIDE DEF main, new
<1>6. more \in Seq(Queries)
  BY <1>3, <1>4, CutWell
<1> HIDE DEF more
<1> QED BY <1>2, <1>5, <1>6

LEMMA AskedTyped ==
    ASSUME NEW again \in BOOLEAN
    PROVE  AsAsked(again) \in [main : Queries, expansions : Seq(Queries), hyde : BOOLEAN, again : BOOLEAN]
<1>1. Question \in Queries /\ <<>> \in Seq(Queries)
  BY RetrievalAssumption
<1> QED BY <1>1 DEF AsAsked

LEMMA NoneFound == Found(<<>>)
<1>1. <<>> \in Seq(Seq(Hits)) /\ DOMAIN <<>> = {}
  OBVIOUS
<1> QED BY <1>1 DEF Found

LEMMA FoundMore == ASSUME NEW lists, Found(lists), NEW list, BestOnes(list), list # <<>> PROVE Found(Append(lists, list))
<1>1. lists \in Seq(Seq(Hits)) /\ list \in Seq(Hits)
  BY DEF Found, BestOnes
<1> DEFINE t == Append(lists, list)
<1>2. /\ t \in Seq(Seq(Hits)) /\ DOMAIN t = 1..(Len(lists) + 1) /\ Len(lists) \in Nat /\ DOMAIN lists = 1..Len(lists)
      /\ \A i \in 1..Len(lists) : t[i] = lists[i]
      /\ t[Len(lists) + 1] = list
  BY <1>1, AppendProperties, LenProperties
<1> HIDE DEF t
<1>3. \A i \in DOMAIN t : BestOnes(t[i]) /\ t[i] # <<>>
  <2> TAKE i \in DOMAIN t
  <2>1. i \in DOMAIN lists \/ i = Len(lists) + 1
    BY <1>2
  <2> QED BY <1>2, <2>1 DEF Found
<1> QED BY <1>2, <1>3 DEF Found, t

LEMMA RetrievalStarts == RetrievalInit => RetrievalInv
<1> SUFFICES ASSUME RetrievalInit PROVE RetrievalInv
  OBVIOUS
<1>1. <<>> \in Seq(Queries) /\ <<>> \in Seq(Hits)
  OBVIOUS
<1> QED BY <1>1, AskedTyped, NoneFound DEF RetrievalInit, RetrievalInv, NeverEmptyHanded, AnswerWhole

\* What is kept of the candidates is an answer.
LEMMA KeptWell ==
    ASSUME NEW hits \in Seq(Hits), Once(hits), NEW reply \in Seq([index : Int, score : Int]),
           NEW kept, kept = KeepRelevant(Cut_(IF ApplyResults(hits, reply) = <<>> THEN hits
                                              ELSE ApplyResults(hits, reply), TopK))
    PROVE  /\ kept \in Seq(Hits) /\ Len(kept) <= TopK /\ Once(kept) /\ ChunksIn(kept) \subseteq ChunksIn(hits)
           /\ \/ \A i \in DOMAIN kept : kept[i].score >= Threshold
              \/ \A i \in DOMAIN kept : kept[i].score < Threshold
           /\ kept = <<>> => hits = <<>>
<1> DEFINE results == ApplyResults(hits, reply)
           all == IF results = <<>> THEN hits ELSE results
           top == Cut_(all, TopK)
           I == {i \in DOMAIN top : top[i].score >= Threshold}
           relevant == Sift(top, I)
<1>1. ResultsWell(hits, results)
  BY AppliedWell
<1>2. TopK \in Nat \ {0} /\ Threshold \in Nat
  BY RetrievalAssumption
<1> HIDE DEF results
<1>3. all \in Seq(Hits) /\ Once(all) /\ ChunksIn(all) \subseteq ChunksIn(hits) /\ (all = <<>> => hits = <<>>)
  BY <1>1 DEF ResultsWell
<1>4. kept = IF relevant = <<>> THEN Cut_(top, TopK) ELSE relevant
  BY DEF KeepRelevant, results
<1> HIDE DEF all
<1>5. /\ top \in Seq(Hits) /\ Len(top) = (IF TopK <= Len(all) THEN TopK ELSE Len(all))
      /\ DOMAIN top = 1..Len(top) /\ Len(top) \in Nat
  BY <1>2, <1>3, CutWell
<1>6. Once(top) /\ ChunksIn(top) \subseteq ChunksIn(all)
  BY <1>2, <1>3, CutKeeps
<1>7. top = <<>> => all = <<>>
  BY <1>2, <1>3, <1>5, EmptySeq
<1> HIDE DEF top
<1>8. \A i \in DOMAIN top : top[i].score \in Nat
  <2> TAKE i \in DOMAIN top
  <2>1. top[i] \in Hits
    BY <1>5
  <2> QED BY <2>1 DEF Hits
<1>9. Len(top) <= TopK
  BY <1>2, <1>3, <1>5, LenProperties
<1>10. CASE relevant = <<>>
  <2>1. kept = Cut_(top, TopK)
    BY <1>4, <1>10
  <2>2. /\ kept \in Seq(Hits) /\ Len(kept) = (IF TopK <= Len(top) THEN TopK ELSE Len(top))
        /\ DOMAIN kept = 1..Len(kept) /\ Len(kept) \in Nat
        /\ \A i \in 1..Len(kept) : i \in DOMAIN top /\ kept[i] = top[i]
    BY <1>2, <1>5, <2>1, CutWell
  <2>3. Once(kept) /\ ChunksIn(kept) \subseteq ChunksIn(top)
    BY <1>2, <1>5, <1>6, <2>1, CutKeeps
  <2>4. TakenFrom(top, I, relevant)
    <3> HIDE DEF I
    <3> QED BY <1>5, SiftKeeps
  <2>5. \A i \in DOMAIN top : ~(top[i].score >= Threshold)
    <3>1. DOMAIN relevant = {}
      BY <1>10
    <3> QED BY <2>4, <3>1 DEF TakenFrom
  <2>6. \A i \in DOMAIN kept : kept[i].score < Threshold
    <3> TAKE i \in DOMAIN kept
    <3>1. i \in DOMAIN top /\ kept[i] = top[i] /\ top[i].score \in Nat
      BY <1>8, <2>2
    <3> QED BY <1>2, <2>5, <3>1
  <2>7. kept = <<>> => top = <<>>
    BY <1>2, <1>5, <2>2, EmptySeq
  <2> QED BY <1>3, <1>6, <1>7, <1>9, <2>2, <2>3, <2>6, <2>7
<1>11. CASE relevant # <<>>
  <2>1. kept = relevant
    BY <1>4, <1>11
  <2> HIDE DEF I
  <2>2. relevant \in Seq(Hits) /\ Len(relevant) <= Len(top) /\ Len(relevant) \in Nat
    BY <1>5, SiftWell
  <2>3. /\ Once(relevant) /\ ChunksIn(relevant) \subseteq ChunksIn(top)
        /\ TakenFrom(top, I, relevant)
    BY <1>5, <1>6, SiftKeeps
  <2> HIDE DEF relevant
  <2>4. \A k \in DOMAIN kept : kept[k].score >= Threshold
    BY <2>1, <2>3 DEF I, TakenFrom
  <2>5. Len(kept) <= TopK
    BY <1>2, <1>5, <1>9, <2>1, <2>2
  <2> QED BY <1>3, <1>6, <1>11, <2>1, <2>2, <2>3, <2>4, <2>5
<1> QED BY <1>10, <1>11


\* The first answer of a search, when there is one.
LEMMA VectorListsFound ==
    ASSUME NEW n \in Nat, NEW hits \in [1..n -> VectorLists]
    PROVE  Found(Sift(hits, {i \in 1..n : hits[i] # <<>>}))
<1> DEFINE I == {i \in 1..n : hits[i] # <<>>}
           t == Sift(hits, I)
<1>1. \A x \in VectorLists : BestOnes(x)
  BY VectorsWell, NothingIsBest DEF VectorLists
<1>2. \A x \in VectorLists : x \in Seq(Hits)
  BY <1>1 DEF BestOnes
<1>3. hits \in Seq(VectorLists) /\ DOMAIN hits = 1..n
  OBVIOUS
<1>4. SiftedBy(hits, I, t, Sifted(hits, I)) /\ t \in Seq(VectorLists) /\ DOMAIN t = 1..Len(t)
  <2> HIDE DEF I
  <2> QED BY <1>3, SiftWell
<1> HIDE DEF t
<1>5. \A k \in DOMAIN t : t[k] \in VectorLists /\ t[k] # <<>>
  <2> TAKE k \in DOMAIN t
  <2>1. Sifted(hits, I)[k] \in I /\ t[k] = hits[Sifted(hits, I)[k]]
    <3> HIDE DEF I
    <3> QED BY <1>4 DEF SiftedBy
  <2> QED BY <1>3, <2>1
<1>6. t \in Seq(Seq(Hits))
  BY <1>2, <1>4, SeqMonotonic
<1>7. Found(t)
  BY <1>1, <1>5, <1>6 DEF Found
<1> QED BY <1>7 DEF t

LEMMA SearchedText == RetrievalInv /\ SearchText => RetrievalInv'
<1> SUFFICES ASSUME RetrievalInv, SearchText PROVE RetrievalInv'
  OBVIOUS
<1>1. /\ retrieval_stage = "text" /\ to_search # <<>> /\ to_search' = Tail(to_search)
      /\ UNCHANGED <<request, retrieval_stage, query, candidates, answer>>
  BY DEF SearchText
<1>2. PICK words \in Finds \cup {<<>>}, found \in Matches :
        \E second \in SecondLists(Head(to_search), found) :
             LET hits == FulltextHits(words, second) IN
             ranked' = IF hits = <<>> THEN ranked ELSE Append(ranked, hits)
  BY DEF SearchText
<1>3. PICK second \in SecondLists(Head(to_search), found) :
             LET hits == FulltextHits(words, second) IN
             ranked' = IF hits = <<>> THEN ranked ELSE Append(ranked, hits)
  BY <1>2
<1>4. to_search \in Seq(Queries) /\ Found(ranked) /\ candidates = <<>> /\ answer = <<>>
  BY <1>1 DEF RetrievalInv
<1>5. Head(to_search) \in Queries /\ Tail(to_search) \in Seq(Queries)
  BY <1>1, <1>4, HeadTailProperties
<1>6. second \in Seq(Hits)
  BY <1>3, <1>5, SecondTyped
<1> DEFINE hits == FulltextHits(words, second)
<1>7. BestOnes(hits)
  BY <1>6, FulltextWell
<1>8. ranked' = IF hits = <<>> THEN ranked ELSE Append(ranked, hits)
  BY <1>3
<1> HIDE DEF hits
<1>9. Found(ranked')
  BY <1>4, <1>7, <1>8, FoundMore
<1>10. Found(ranked)'
  BY <1>9 DEF Found, BestOnes, CandidateK, Hits
<1> QED BY <1>1, <1>4, <1>5, <1>10 DEF RetrievalInv, NeverEmptyHanded, AnswerWhole

LEMMA SearchedVectors == RetrievalInv /\ SearchVectors => RetrievalInv'
<1> SUFFICES ASSUME RetrievalInv, SearchVectors PROVE RetrievalInv'
  OBVIOUS
<1> DEFINE n == Len(Variants(query)) + (IF query.hyde THEN 1 ELSE 0)
<1>1. /\ retrieval_stage = "vectors" /\ retrieval_stage' = "text"
      /\ to_search' = IF request.strategy = "vector" THEN <<>> ELSE Variants(query)
      /\ UNCHANGED <<request, query, candidates, answer>>
      /\ \/ ranked' = <<>>
         \/ \E hits \in [1..n -> VectorLists] : ranked' = Sift(hits, {i \in 1..n : hits[i] # <<>>})
  BY DEF SearchVectors
<1>2. /\ query \in [main : Queries, expansions : Seq(Queries), hyde : BOOLEAN, again : BOOLEAN]
      /\ candidates = <<>> /\ answer = <<>>
  BY <1>1 DEF RetrievalInv
<1>3. Variants(query) \in Seq(Queries)
  BY <1>2, VariantsTyped
<1>4. n \in Nat
  BY <1>3, LenProperties
<1> HIDE DEF n
<1>5. Found(ranked')
  BY <1>1, <1>4, NoneFound, VectorListsFound
<1>6. Found(ranked)'
  BY <1>5 DEF Found, BestOnes, CandidateK, Hits
<1>7. to_search' \in Seq(Queries)
  BY <1>1, <1>3, EmptySeq
<1> QED BY <1>1, <1>2, <1>6, <1>7 DEF RetrievalInv, NeverEmptyHanded, AnswerWhole

LEMMA Fused == RetrievalInv /\ Fuse => RetrievalInv'
<1> SUFFICES ASSUME RetrievalInv, Fuse PROVE RetrievalInv'
  OBVIOUS
<1>1. /\ retrieval_stage = "text" /\ retrieval_stage' = "rerank"
      /\ candidates' = CASE ranked = <<>> -> <<>>
                       [] Len(ranked) = 1 -> Cut_(ranked[1], CandidateK)
                       [] OTHER -> RrfFuse(ranked)
      /\ UNCHANGED <<request, query, to_search, ranked, answer>>
  BY DEF Fuse
<1>2. Found(ranked) /\ answer = <<>>
  BY <1>1 DEF RetrievalInv
<1>3. FusedWell(ranked, candidates')
  <2>1. CASE ranked = <<>>
    <3>1. candidates' = <<>>
      BY <1>1, <2>1
    <3> QED BY <2>1, <3>1, NothingFused
  <2>2. CASE ranked # <<>> /\ Len(ranked) = 1
    <3>1. candidates' = Cut_(ranked[1], CandidateK)
      BY <1>1, <2>2
    <3> QED BY <1>2, <2>2, <3>1, SingleWell
  <2>3. CASE ranked # <<>> /\ Len(ranked) # 1
    <3>1. candidates' = RrfFuse(ranked)
      BY <1>1, <2>3
    <3> QED BY <1>2, <2>3, <3>1, RrfFuseWell
  <2> QED BY <2>1, <2>2, <2>3
<1>4. ranked' = ranked
  BY <1>1
<1>5. FusedWell(ranked', candidates') /\ Found(ranked')
  BY <1>2, <1>3, <1>4
<1>7. FusedWell(ranked, candidates)'
  BY <1>5 DEF FusedWell, Once, ChunksIn, Held, Dominates, Ahead, RankOfChunk, Hits
<1>8. Found(ranked)'
  BY <1>5 DEF Found, BestOnes, CandidateK, Hits
<1>6. candidates' \in Seq(Hits)
  BY <1>3 DEF FusedWell
<1> QED BY <1>1, <1>2, <1>6, <1>7, <1>8 DEF RetrievalInv, NeverEmptyHanded, AnswerWhole

LEMMA Kept == RetrievalInv /\ RerankAndCut => RetrievalInv'
<1> SUFFICES ASSUME RetrievalInv, RerankAndCut PROVE RetrievalInv'
  OBVIOUS
<1>1. /\ retrieval_stage = "rerank" /\ retrieval_stage' = "found"
      /\ UNCHANGED <<request, query, to_search, ranked, candidates>>
  BY DEF RerankAndCut
<1>2. PICK reply \in Replies \cup {<<>>} : answer' = KeepRelevant(Reranked(reply))
  BY DEF RerankAndCut
<1>3. FusedWell(ranked, candidates) /\ Found(ranked)
  BY <1>1 DEF RetrievalInv
<1>4. reply \in Seq([index : Int, score : Int])
  <2>1. CASE reply = <<>>
    BY <2>1, EmptySeq
  <2>2. CASE reply \in Replies
    BY <2>2, RetrievalAssumption
  <2> QED BY <2>1, <2>2
<1> DEFINE kept == KeepRelevant(Reranked(reply))
<1>5. candidates \in Seq(Hits) /\ Once(candidates) /\ ChunksIn(candidates) \subseteq Held(ranked)
  BY <1>3 DEF FusedWell
<1>6. kept = KeepRelevant(Cut_(IF ApplyResults(candidates, reply) = <<>> THEN candidates
                               ELSE ApplyResults(candidates, reply), TopK))
  BY DEF Reranked
<1>7. answer' = kept
  BY <1>2
<1> HIDE DEF kept
<1>8. /\ kept \in Seq(Hits) /\ Len(kept) <= TopK /\ Once(kept) /\ ChunksIn(kept) \subseteq ChunksIn(candidates)
      /\ \/ \A i \in DOMAIN kept : kept[i].score >= Threshold
         \/ \A i \in DOMAIN kept : kept[i].score < Threshold
      /\ kept = <<>> => candidates = <<>>
  BY <1>4, <1>5, <1>6, KeptWell
<1>9. AnswerWhole'
  <2>1. ChunksIn(kept) \subseteq UNION {ChunksIn(ranked[j]) : j \in DOMAIN ranked}
    BY <1>5, <1>8 DEF Held
  <2>2. ChunksIn(answer)' = ChunksIn(kept)
    BY <1>7 DEF ChunksIn
  <2>3. \A i, j \in DOMAIN kept : kept[i].chunk = kept[j].chunk => i = j
    BY <1>8 DEF Once
  <2>4. (UNION {ChunksIn(ranked[j]) : j \in DOMAIN ranked})' = UNION {ChunksIn(ranked[j]) : j \in DOMAIN ranked}
    BY <1>1 DEF ChunksIn
  <2> QED BY <1>7, <1>8, <2>1, <2>2, <2>3, <2>4 DEF AnswerWhole
<1>10. NeverEmptyHanded'
  BY <1>1, <1>3, <1>7, <1>8 DEF NeverEmptyHanded, FusedWell
<1>11. answer' \in Seq(Hits)
  BY <1>7, <1>8
<1>12. Found(ranked)' /\ candidates' \in Seq(Hits)
  <2>1. ranked' = ranked /\ candidates' = candidates
    BY <1>1
  <2>2. Found(ranked') /\ candidates' \in Seq(Hits)
    BY <1>3, <1>5, <2>1
  <2>3. Found(ranked)'
    BY <2>2 DEF Found, BestOnes, CandidateK, Hits
  <2> QED BY <2>2, <2>3
<1>13. query' = query /\ to_search' = to_search /\ query \in [main : Queries, expansions : Seq(Queries), hyde : BOOLEAN, again : BOOLEAN]
       /\ to_search \in Seq(Queries)
  BY <1>1 DEF RetrievalInv
<1>14. answer' \in Seq(Hits)'
  BY <1>11 DEF Hits
<1>15. candidates' \in Seq(Hits)'
  BY <1>12 DEF Hits
<1> QED BY <1>1, <1>9, <1>10, <1>12, <1>13, <1>14, <1>15 DEF RetrievalInv

LEMMA RetrievalGoesOn == RetrievalInv /\ [RetrievalNext]_retrieval_vars => RetrievalInv'
<1> SUFFICES ASSUME RetrievalInv, [RetrievalNext]_retrieval_vars PROVE RetrievalInv'
  OBVIOUS
<1> USE DEF RetrievalInv, NeverEmptyHanded, AnswerWhole
<1>1. CASE ProcessQuery
  <2>1. query' \in [main : Queries, expansions : Seq(Queries), hyde : BOOLEAN, again : BOOLEAN]
    BY <1>1, BuiltTyped, AskedTyped DEF ProcessQuery
  <2>2. /\ retrieval_stage = "query" /\ retrieval_stage' = "vectors"
        /\ UNCHANGED <<request, to_search, ranked, candidates, answer>>
    BY <1>1 DEF ProcessQuery
  <2> QED BY <2>1, <2>2 DEF Found, BestOnes, CandidateK, Hits
<1>2. CASE NothingToSearch
  <2>1. /\ retrieval_stage = "vectors" /\ retrieval_stage' = "found"
        /\ UNCHANGED <<request, query, to_search, ranked, candidates, answer>>
    BY <1>2 DEF NothingToSearch
  <2>2. ranked = <<>> /\ candidates = <<>> /\ answer = <<>>
    BY <2>1
  <2>3. ChunksIn(<<>>) = {} /\ DOMAIN <<>> = {} /\ Len(<<>>) = 0 /\ TopK \in Nat
    BY RetrievalAssumption DEF ChunksIn
  <2>4. AnswerWhole'
    BY <2>1, <2>2, <2>3 DEF ChunksIn
  <2> QED BY <2>1, <2>2, <2>4 DEF Found, BestOnes, CandidateK, Hits
<1>3. CASE SearchVectors
  BY <1>3, SearchedVectors
<1>4. CASE SearchText
  BY <1>4, SearchedText
<1>5. CASE Fuse
  BY <1>5, Fused
<1>6. CASE RerankAndCut
  BY <1>6, Kept
<1>7. CASE RerankRaises
  <2>1. /\ retrieval_stage = "rerank" /\ retrieval_stage' = "raised"
        /\ UNCHANGED <<request, query, to_search, ranked, candidates, answer>>
    BY <1>7 DEF RerankRaises
  <2>2. Found(ranked')
    BY <2>1
  <2>3. Found(ranked)'
    BY <2>2 DEF Found, BestOnes, CandidateK, Hits
  <2> QED BY <2>1, <2>3
<1>8. CASE TryAgain
  <2>1. /\ retrieval_stage = "found" /\ answer = <<>> /\ query' = AsAsked(TRUE) /\ retrieval_stage' = "vectors"
        /\ ranked' = <<>> /\ candidates' = <<>> /\ UNCHANGED <<request, to_search, answer>>
    BY <1>8 DEF TryAgain
  <2>2. query' \in [main : Queries, expansions : Seq(Queries), hyde : BOOLEAN, again : BOOLEAN]
    BY <2>1, AskedTyped
  <2>3. Found(ranked') /\ candidates' \in Seq(Hits)
    BY <2>1, NoneFound, EmptySeq
  <2>4. Found(ranked)'
    BY <2>3 DEF Found, BestOnes, CandidateK, Hits
  <2> QED BY <2>1, <2>2, <2>3, <2>4
<1>9. CASE UNCHANGED retrieval_vars
  <2>1. UNCHANGED <<request, retrieval_stage, query, to_search, ranked, candidates, answer>>
    BY <1>9 DEF retrieval_vars
  <2>2. Found(ranked') /\ (retrieval_stage = "rerank" => FusedWell(ranked', candidates'))
    BY <2>1
  <2>3. Found(ranked)'
    BY <2>2 DEF Found, BestOnes, CandidateK, Hits
  <2>4. retrieval_stage = "rerank" => FusedWell(ranked, candidates)'
    BY <2>2 DEF FusedWell, Once, ChunksIn, Held, Dominates, Ahead, RankOfChunk, Hits
  <2>5. ChunksIn(answer)' = ChunksIn(answer) /\ \A j \in DOMAIN ranked : ChunksIn(ranked[j])' = ChunksIn(ranked[j])
    BY <2>1 DEF ChunksIn
  <2>6. (UNION {ChunksIn(ranked[j]) : j \in DOMAIN ranked})' = UNION {ChunksIn(ranked[j]) : j \in DOMAIN ranked}
    BY <2>1, <2>5
  <2>7. AnswerWhole'
    BY <2>1, <2>5, <2>6
  <2> QED BY <2>1, <2>3, <2>4, <2>7
<1> QED BY <1>1, <1>2, <1>3, <1>4, <1>5, <1>6, <1>7, <1>8, <1>9 DEF RetrievalNext

LEMMA RetrievalInvKeeps == RetrievalInv => RetrievalKept
<1> SUFFICES ASSUME RetrievalInv PROVE RetrievalKept
  OBVIOUS
<1>1. Dominance
  <2> SUFFICES ASSUME retrieval_stage = "rerank" PROVE Dominance
    BY DEF Dominance
  <2>1. FusedWell(ranked, candidates)
    BY DEF RetrievalInv
  <2> QED BY <2>1 DEF FusedWell, Dominates, Held, Dominance
<1>2. RankedWell
  <2> SUFFICES ASSUME NEW n \in DOMAIN ranked
               PROVE  /\ ranked[n] # <<>> /\ Len(ranked[n]) <= CandidateK
                      /\ \A i, j \in DOMAIN ranked[n] :
                            i < j => ranked[n][i].score >= ranked[n][j].score /\ ranked[n][i].chunk # ranked[n][j].chunk
    BY DEF RankedWell
  <2> QED BY DEF RetrievalInv, Found, BestOnes
<1> QED BY <1>1, <1>2 DEF RetrievalInv, RetrievalKept

\* The answer of a retrieval is whole, in the order of the lists it was made of,
\* and empty only when nothing was found, for any lists, services that fail and
\* values of the settings (retrieve, _rrf_fuse_many, rerank).
THEOREM RetrievalsKept == RetrievalSpec => []RetrievalKept
<1>1. RetrievalInv /\ UNCHANGED retrieval_vars => RetrievalInv'
  BY RetrievalGoesOn
<1> QED BY RetrievalStarts, RetrievalGoesOn, RetrievalInvKeeps, PTL DEF RetrievalSpec


-----------------------------------------------------------------------------
(* Embedding *)

\* An increasing numbering of 1..L by itself is the identity.
LEMMA IncreasingIsIdentity ==
    ASSUME NEW L \in Nat, NEW g \in [1..L -> 1..L], \A i, j \in 1..L : i < j => g[i] < g[j]
    PROVE  \A i \in 1..L : g[i] = i
<1>1. \A i \in 1..L : i <= g[i]
  <2> SUFFICES ASSUME NEW x \in 1..L, g[x] < x PROVE FALSE
    OBVIOUS
  <2> DEFINE low == {i \in 1..L : g[i] < i}
  <2>1. PICK m \in low : \A i \in low : m <= i
    <3>1. low \subseteq Nat /\ x \in low
      OBVIOUS
    <3> HIDE DEF low
    <3> QED BY <3>1, LeastThereIs
  <2>2. m \in 1..L /\ g[m] \in 1..L /\ g[m] < m
    BY <2>1
  <2>3. g[m] \notin low
    BY <2>1, <2>2
  <2>4. g[g[m]] < g[m]
    BY <2>2
  <2> QED BY <2>2, <2>3, <2>4
<1>2. \A i \in 1..L : g[i] <= i
  <2> SUFFICES ASSUME NEW x \in 1..L, x < g[x] PROVE FALSE
    OBVIOUS
  <2> DEFINE high == {i \in 1..L : i < g[i]}
             far == {d \in Nat : \E i \in high : d = L - i}
  <2>1. PICK m \in high : \A i \in high : i <= m
    <3>1. far \subseteq Nat /\ L - x \in far
      OBVIOUS
    <3> HIDE DEF far
    <3>2. PICK d \in far : \A e \in far : d <= e
      BY <3>1, LeastThereIs
    <3>3. PICK m \in high : d = L - m
      BY <3>2 DEF far
    <3>4. \A i \in high : L - i \in far
      BY DEF far
    <3>5. \A i \in high : L - m <= L - i
      BY <3>2, <3>3, <3>4
    <3> QED BY <3>3, <3>5
  <2>2. m \in 1..L /\ g[m] \in 1..L /\ m < g[m]
    BY <2>1
  <2>3. g[m] \notin high
    BY <2>1, <2>2
  <2>4. g[m] < g[g[m]]
    BY <2>2
  <2> QED BY <2>2, <2>3, <2>4
<1> QED BY <1>1, <1>2

\* Vectors in the order of their texts.
Upward(s) == \A i, j \in DOMAIN s : i < j => s[i] < s[j]

EmbedInv ==
    /\ text_count \in Nat /\ batch_size \in Nat \ {0} /\ sent \in 0..text_count
    /\ vectors \in Seq(1..sent) /\ Upward(vectors)
    /\ VectorsMatch

\* Whatever the order and the gaps of an answer, its vectors come in theirs.
LEMMA AnswerSorted ==
    ASSUME NEW n \in Nat, n = sent, NEW top \in Nat, NEW items \in AnswersTo((n + 1)..top)
    PROVE  SortedByIndex(items) \in Seq((n + 1)..top) /\ Upward(SortedByIndex(items))
<1> DEFINE batch == (n + 1)..top
<1>0. PICK part_ \in SUBSET batch : \E order \in SetToSeqs(part_) :
        items = [i \in DOMAIN order |-> [index |-> order[i] - sent - 1, embedding |-> order[i]]]
  BY DEF AnswersTo
<1>1. PICK order \in SetToSeqs(part_) :
        items = [i \in DOMAIN order |-> [index |-> order[i] - sent - 1, embedding |-> order[i]]]
  BY <1>0
<1> DEFINE m == Cardinality(part_)
<1>2. IsFiniteSet(part_) /\ m \in Nat
  <2>1. IsFiniteSet(batch)
    BY n + 1 \in Int, top \in Int, FS_Interval
  <2>2. IsFiniteSet(part_)
    BY <1>0, <2>1, FS_Subset
  <2> QED BY <2>2, FS_CardinalityType
<1>3. order \in [1..m -> part_] /\ \A i, j \in 1..m : i # j => order[i] # order[j]
  BY DEF SetToSeqs
<1> HIDE DEF m
<1>4. \A i \in 1..m : order[i] \in batch /\ order[i] \in Int
  <2>1. part_ \subseteq batch /\ batch \subseteq Int
    BY <1>0
  <2> HIDE DEF batch
  <2> QED BY <1>3, <2>1
<1>5. \A i \in 1..m : items[i].index = order[i] - n - 1 /\ items[i].embedding = order[i]
  BY <1>1, <1>3
<1>6. DOMAIN items = 1..m /\ Len(items) = m
  BY <1>1, <1>2, <1>3
<1> DEFINE R == {p \in (1..m) \X (1..m) : items[p[1]].index < items[p[2]].index}
           s == Sorted(1..m, R)
           t == [i \in DOMAIN s |-> items[s[i]].embedding]
<1>7. \A i, j \in 1..m : <<i, j>> \in R <=> order[i] < order[j]
  BY SMTT(30), <1>4, <1>5
<1> HIDE DEF R
<1>8. Orders(R, 1..m)
  <2>1. \A x \in 1..m : <<x, x>> \notin R
    BY <1>4, <1>7
  <2>2. ASSUME NEW x \in 1..m, NEW y \in 1..m, NEW z \in 1..m, <<x, y>> \in R, <<y, z>> \in R PROVE <<x, z>> \in R
    BY <1>4, <1>7, <2>2
  <2>3. ASSUME NEW x \in 1..m, NEW y \in 1..m, x # y PROVE <<x, y>> \in R \/ <<y, x>> \in R
    <3>1. order[x] < order[y] \/ order[y] < order[x]
      BY <1>3, <1>4, <2>3
    <3> QED BY <1>7, <3>1
  <2> QED BY <2>1, <2>2, <2>3 DEF Orders
<1>9. IsFiniteSet(1..m) /\ Cardinality(1..m) = m
  BY <1>2, FS_Interval
<1>10. Lists_(s, 1..m, R)
  BY <1>8, <1>9, SortedWell
<1> HIDE DEF s
<1>11. s \in [1..m -> 1..m] /\ \A i, j \in 1..m : i < j => <<s[i], s[j]>> \in R
  BY <1>9, <1>10 DEF Lists_
<1>12. SortedByIndex(items) = t
  BY <1>6 DEF SortedByIndex, s, R
<1>13. \A i \in 1..m : s[i] \in 1..m /\ items[s[i]].embedding = order[s[i]]
  BY <1>5, <1>11
<1>14. t = [i \in 1..m |-> order[s[i]]]
  BY <1>11, <1>13
<1> HIDE DEF t
<1>15. \A i \in 1..m : order[s[i]] \in batch
  BY <1>4, <1>13
<1>16. t \in [1..m -> batch]
  BY <1>14, <1>15
<1>17. t \in Seq(batch) /\ DOMAIN t = 1..m
  BY <1>2, <1>16
<1>18. \A i, j \in 1..m : i < j => t[i] < t[j]
  BY <1>7, <1>11, <1>13, <1>14
<1> QED BY <1>12, <1>17, <1>18 DEF Upward

LEMMA EmbedStarts == EmbedInit => EmbedInv
<1> SUFFICES ASSUME EmbedInit PROVE EmbedInv
  OBVIOUS
<1>1. text_count \in Nat /\ batch_size \in Nat \ {0}
  BY EmbeddingAssumption DEF EmbedInit
<1>2. vectors = <<>> /\ sent = 0 /\ embed_stage = "running"
  BY DEF EmbedInit
<1> QED BY <1>1, <1>2 DEF EmbedInv, Upward, VectorsMatch

LEMMA EmbedGoesOn == EmbedInv /\ [EmbedNext]_embed_vars => EmbedInv'
<1> SUFFICES ASSUME EmbedInv, [EmbedNext]_embed_vars PROVE EmbedInv'
  OBVIOUS
<1>0. /\ text_count \in Nat /\ batch_size \in Nat \ {0} /\ sent \in 0..text_count
      /\ vectors \in Seq(1..sent) /\ Upward(vectors)
  BY DEF EmbedInv
<1>1. CASE EmbedBatch
  <2>1. /\ embed_stage = "running" /\ sent < text_count
        /\ UNCHANGED <<client, text_count, batch_size, upserted>>
    BY <1>1 DEF EmbedBatch
  <2>2. PICK items \in AnswersTo(Batch) :
         IF client = "async" /\ Len(items) # Cardinality(Batch)
         THEN embed_stage' = "failed" /\ UNCHANGED <<vectors, sent>>
         ELSE /\ vectors' = vectors \o SortedByIndex(items) /\ sent' = sent + Cardinality(Batch)
              /\ UNCHANGED embed_stage
    BY <1>1 DEF EmbedBatch
  <2>3. CASE embed_stage' = "failed" /\ UNCHANGED <<vectors, sent>>
    BY <1>0, <2>1, <2>3 DEF EmbedInv, Upward, VectorsMatch
  <2>4. CASE vectors' = vectors \o SortedByIndex(items) /\ sent' = sent + Cardinality(Batch) /\ UNCHANGED embed_stage
    <3> DEFINE top == Min({sent + batch_size, text_count})
               more == SortedByIndex(items)
               t == vectors \o more
    <3>1. top \in Nat /\ top > sent /\ top <= text_count
      BY <1>0, <2>1, LesserOf
    <3>2. Batch = (sent + 1)..top
      BY DEF Batch
    <3> HIDE DEF top
    <3>3. Cardinality(Batch) = top - sent
      BY <1>0, <3>1, <3>2, FS_Interval
    <3>4. sent' = top
      BY <1>0, <2>4, <3>1, <3>3
    <3>5. more \in Seq((sent + 1)..top) /\ Upward(more)
      BY <1>0, <3>1, <3>2, AnswerSorted
    <3> HIDE DEF more
    <3>6. more \in Seq(1..top) /\ vectors \in Seq(1..top)
      <4>1. (sent + 1)..top \subseteq 1..top /\ 1..sent \subseteq 1..top
        BY <1>0, <3>1
      <4> QED BY <1>0, <3>5, <4>1, SeqMonotonic
    <3>7. /\ t \in Seq(1..top) /\ Len(t) = Len(vectors) + Len(more)
          /\ \A i \in 1..(Len(vectors) + Len(more)) : t[i] = IF i <= Len(vectors) THEN vectors[i] ELSE more[i - Len(vectors)]
      BY <3>6, ConcatProperties
    <3>8. Len(vectors) \in Nat /\ Len(more) \in Nat /\ DOMAIN vectors = 1..Len(vectors) /\ DOMAIN more = 1..Len(more) /\ DOMAIN t = 1..Len(t)
      BY <1>0, <3>5, <3>7, LenProperties
    <3> HIDE DEF t
    <3>9. ASSUME NEW i \in DOMAIN t, NEW j \in DOMAIN t, i < j PROVE t[i] < t[j]
      <4>1. CASE j <= Len(vectors)
        <5>1. i \in DOMAIN vectors /\ j \in DOMAIN vectors /\ t[i] = vectors[i] /\ t[j] = vectors[j]
          BY <3>7, <3>8, <3>9, <4>1
        <5> QED BY <1>0, <3>9, <5>1 DEF Upward
      <4>2. CASE i <= Len(vectors) /\ j > Len(vectors)
        <5>1. i \in DOMAIN vectors /\ j - Len(vectors) \in DOMAIN more /\ t[i] = vectors[i] /\ t[j] = more[j - Len(vectors)]
          BY <3>7, <3>8, <3>9, <4>2
        <5>2. vectors[i] \in 1..sent
          BY <1>0, <3>8, <5>1
        <5>3. more[j - Len(vectors)] \in (sent + 1)..top
          <6> DEFINE W == (sent + 1)..top
          <6>1. more \in Seq(W)
            BY <3>5
          <6> HIDE DEF W
          <6>2. more[j - Len(vectors)] \in W
            BY <3>8, <5>1, <6>1
          <6> QED BY <6>2 DEF W
        <5> QED BY <1>0, <3>1, <5>1, <5>2, <5>3
      <4>3. CASE i > Len(vectors)
        <5>1. /\ i - Len(vectors) \in DOMAIN more /\ j - Len(vectors) \in DOMAIN more /\ i - Len(vectors) < j - Len(vectors)
              /\ t[i] = more[i - Len(vectors)] /\ t[j] = more[j - Len(vectors)]
          BY <3>7, <3>8, <3>9, <4>3
        <5> QED BY <3>5, <5>1 DEF Upward
      <4>4. i \in Int /\ j \in Int
        BY <3>7, <3>8
      <4> QED BY <3>8, <4>1, <4>2, <4>3, <4>4
    <3>10. Upward(t)
      BY <3>9 DEF Upward
    <3>11. vectors' = t
      BY <2>4 DEF t, more
    <3>12. VectorsMatch'
      BY <2>1, <2>4 DEF VectorsMatch
    <3>13. Upward(vectors)'
      BY <3>10, <3>11 DEF Upward
    <3> QED BY <1>0, <2>1, <3>1, <3>4, <3>7, <3>11, <3>12, <3>13 DEF EmbedInv
  <2> QED BY <2>2, <2>3, <2>4
<1>2. CASE EmbedRaises
  BY <1>0, <1>2 DEF EmbedRaises, EmbedInv, Upward, VectorsMatch
<1>3. CASE UpsertChunks
  <2>1. /\ sent >= text_count /\ UNCHANGED <<client, text_count, batch_size, sent, vectors>>
        /\ \/ Len(vectors) = text_count /\ embed_stage' = "stored" /\ upserted' = vectors
           \/ embed_stage' = "failed"
    BY <1>3 DEF UpsertChunks
  <2>2. sent = text_count
    BY <1>0, <2>1
  <2>3. VectorsMatch'
    <3>1. CASE Len(vectors) = text_count /\ embed_stage' = "stored" /\ upserted' = vectors
      <4>1. vectors \in [1..text_count -> 1..text_count] /\ \A i, j \in 1..text_count : i < j => vectors[i] < vectors[j]
        BY <1>0, <2>2, <3>1 DEF Upward
      <4>2. \A i \in 1..text_count : vectors[i] = i
        BY <1>0, <4>1, IncreasingIsIdentity
      <4> QED BY <2>1, <3>1, <4>2 DEF VectorsMatch
    <3>2. CASE embed_stage' = "failed"
      BY <3>2 DEF VectorsMatch
    <3> QED BY <2>1, <3>1, <3>2
  <2> QED BY <1>0, <2>1, <2>3 DEF EmbedInv, Upward
<1>4. CASE UNCHANGED embed_vars
  BY <1>0, <1>4 DEF EmbedInv, embed_vars, Upward, VectorsMatch
<1> QED BY <1>1, <1>2, <1>3, <1>4 DEF EmbedNext

\* Every text gets its own vector, or none is stored: for any number of texts and
\* size of batches, and answers in any order and with any of them missing
\* (embed_texts, upsert_chunks).
THEOREM VectorsKept == EmbedSpec => []VectorsMatch
<1>1. EmbedInv => VectorsMatch
  BY DEF EmbedInv
<1> QED BY <1>1, EmbedStarts, EmbedGoesOn, PTL DEF EmbedSpec


-----------------------------------------------------------------------------
(* Drafts: edit distances *)

\* What goes on from 0 up to n holds at each of them.
LEMMA Along ==
    ASSUME NEW n \in Nat, NEW T, 0 \in T, \A i \in 0..n : i \in T /\ i + 1 <= n => i + 1 \in T
    PROVE  \A i \in 0..n : i \in T
<1> DEFINE U == {i \in Nat : i <= n => i \in T}
<1>1. 0 \in U
  OBVIOUS
<1>2. ASSUME NEW i \in U PROVE i + 1 \in U
  <2>1. i \in Nat
    OBVIOUS
  <2>2. CASE i + 1 <= n
    <3>1. i \in 0..n /\ i \in T
      BY <2>1, <2>2
    <3> QED BY <2>1, <2>2, <3>1
  <2> QED BY <2>1, <2>2
<1>3. U \subseteq Nat
  OBVIOUS
<1>4. Nat = U
  <2> HIDE DEF U
  <2> QED BY <1>1, <1>2, <1>3, Upwards
<1> QED BY <1>4

\* Which characters are paired: a place of each, in the order of both.
Pairing(M, i, j) == M \subseteq (1..i) \X (1..j) /\ \A p, q \in M : p[1] < q[1] <=> p[2] < q[2]
Unlike(s, t, M) == {p \in M : s[p[1]] # t[p[2]]}
PairCost(s, t, M, i, j) == i + j - 2 * Cardinality(M) + Cardinality(Unlike(s, t, M))

\* d is the least cost of a pairing of i characters with j.
Nearest(s, t, i, j, d) ==
    /\ \E M : Pairing(M, i, j) /\ PairCost(s, t, M, i, j) = d
    /\ \A M : Pairing(M, i, j) => d <= PairCost(s, t, M, i, j)

LEMMA PairsFew ==
    ASSUME NEW s, NEW t, NEW i \in Nat, NEW j \in Nat, NEW M, Pairing(M, i, j)
    PROVE  /\ IsFiniteSet(M) /\ Cardinality(M) \in Nat
           /\ IsFiniteSet(Unlike(s, t, M)) /\ Cardinality(Unlike(s, t, M)) \in Nat
           /\ PairCost(s, t, M, i, j) \in Int
<1>1. IsFiniteSet(1..i) /\ IsFiniteSet(1..j)
  BY FS_Interval
<1>2. IsFiniteSet((1..i) \X (1..j))
  BY <1>1, FS_Product
<1>3. M \in SUBSET ((1..i) \X (1..j)) /\ Unlike(s, t, M) \in SUBSET M
  BY DEF Pairing, Unlike
<1>4. IsFiniteSet(M) /\ Cardinality(M) \in Nat
  BY <1>2, <1>3, FS_Subset, FS_CardinalityType
<1>5. IsFiniteSet(Unlike(s, t, M)) /\ Cardinality(Unlike(s, t, M)) \in Nat
  BY <1>3, <1>4, FS_Subset, FS_CardinalityType
<1> QED BY <1>4, <1>5 DEF PairCost

LEMMA PairLonger ==
    ASSUME NEW M, NEW i \in Nat, NEW j \in Nat, NEW h \in Nat, NEW k \in Nat, i <= h, j <= k, Pairing(M, i, j)
    PROVE  Pairing(M, h, k)
<1>1. (1..i) \X (1..j) \subseteq (1..h) \X (1..k)
  OBVIOUS
<1> QED BY <1>1 DEF Pairing

LEMMA PairsOf ==
    ASSUME NEW M, NEW i \in Nat, NEW j \in Nat, Pairing(M, i, j), NEW p \in M
    PROVE  p = <<p[1], p[2]>> /\ p[1] \in 1..i /\ p[2] \in 1..j /\ p[1] \in Nat /\ p[2] \in Nat
<1>1. p \in (1..i) \X (1..j)
  BY DEF Pairing
<1> QED BY <1>1

LEMMA PairsApart ==
    ASSUME NEW M, NEW i \in Nat, NEW j \in Nat, Pairing(M, i, j), NEW p \in M, NEW q \in M, p # q
    PROVE  p[1] # q[1] /\ p[2] # q[2]
<1>1. p = <<p[1], p[2]>> /\ q = <<q[1], q[2]>> /\ p[1] \in Nat /\ q[1] \in Nat /\ p[2] \in Nat /\ q[2] \in Nat
  BY PairsOf
<1>2. (p[1] < q[1] <=> p[2] < q[2]) /\ (q[1] < p[1] <=> q[2] < p[2])
  BY DEF Pairing
<1> QED BY <1>1, <1>2

\* One character more on either side, without a partner.
LEMMA PairNothing ==
    ASSUME NEW s, NEW t, NEW i \in Nat, NEW j \in Nat, i = 0 \/ j = 0
    PROVE  Nearest(s, t, i, j, i + j)
<1>1. Pairing({}, i, j) /\ Unlike(s, t, {}) = {} /\ Cardinality({}) = 0
  BY FS_EmptySet DEF Pairing, Unlike
<1>2. PairCost(s, t, {}, i, j) = i + j
  <2>1. Cardinality(Unlike(s, t, {})) = 0
    BY <1>1
  <2> QED BY <1>1, <2>1 DEF PairCost
<1>3. ASSUME NEW M, Pairing(M, i, j) PROVE M = {}
  BY <1>3 DEF Pairing
<1> QED BY <1>1, <1>2, <1>3 DEF Nearest

Fewer(s, t, M, i, j) ==
    \/ Pairing(M, i - 1, j)
    \/ Pairing(M, i, j - 1)
    \/ /\ <<i, j>> \in M /\ Pairing(M \ {<<i, j>>}, i - 1, j - 1)
       /\ Cardinality(M) = Cardinality(M \ {<<i, j>>}) + 1
       /\ Cardinality(Unlike(s, t, M)) =
            Cardinality(Unlike(s, t, M \ {<<i, j>>})) + IF s[i] = t[j] THEN 0 ELSE 1
LEMMA PairFewer ==
    ASSUME NEW s, NEW t, NEW i \in Nat \ {0}, NEW j \in Nat \ {0}, NEW M, Pairing(M, i, j)
    PROVE  Fewer(s, t, M, i, j)
<1>0. \A p \in M : p = <<p[1], p[2]>> /\ p[1] \in 1..i /\ p[2] \in 1..j
  BY PairsOf
<1>1. CASE \A p \in M : p[1] # i
  <2>1. M \subseteq (1..(i - 1)) \X (1..j)
    <3>1. ASSUME NEW p \in M PROVE p \in (1..(i - 1)) \X (1..j)
      <4>1. p[1] \in 1..(i - 1)
        BY <1>0, <1>1
      <4> QED BY <1>0, <4>1
    <3> QED BY <3>1
  <2> QED BY <2>1 DEF Pairing, Fewer
<1>2. CASE \A p \in M : p[2] # j
  <2>1. M \subseteq (1..i) \X (1..(j - 1))
    <3>1. ASSUME NEW p \in M PROVE p \in (1..i) \X (1..(j - 1))
      <4>1. p[2] \in 1..(j - 1)
        BY <1>0, <1>2
      <4> QED BY <1>0, <4>1
    <3> QED BY <3>1
  <2> QED BY <2>1 DEF Pairing, Fewer
<1>3. ASSUME NEW p \in M, p[1] = i, NEW q \in M, q[2] = j
      PROVE  /\ <<i, j>> \in M /\ Pairing(M \ {<<i, j>>}, i - 1, j - 1)
             /\ Cardinality(M) = Cardinality(M \ {<<i, j>>}) + 1
             /\ Cardinality(Unlike(s, t, M)) =
                  Cardinality(Unlike(s, t, M \ {<<i, j>>})) + IF s[i] = t[j] THEN 0 ELSE 1
  <2> DEFINE x == <<i, j>>
             N == M \ {x}
  <2>1. p[2] = j
    <3>1. p[2] < q[2] => p[1] < q[1]
      BY DEF Pairing
    <3> QED BY <1>0, <1>3, <3>1
  <2>2. x \in M
    BY <1>0, <1>3, <2>1
  <2>3. N \subseteq (1..(i - 1)) \X (1..(j - 1))
    <3>1. ASSUME NEW r \in N PROVE r \in (1..(i - 1)) \X (1..(j - 1))
      <4>1. r[1] # x[1] /\ r[2] # x[2] /\ r \in M
        BY <2>2, PairsApart
      <4>2. r[1] \in 1..(i - 1) /\ r[2] \in 1..(j - 1)
        BY <1>0, <4>1
      <4> QED BY <1>0, <4>1, <4>2
    <3> QED BY <3>1
  <2>4. Pairing(N, i - 1, j - 1)
    BY <2>3 DEF Pairing
  <2>5. IsFiniteSet(M) /\ Cardinality(M) \in Nat /\ IsFiniteSet(Unlike(s, t, M)) /\ Cardinality(Unlike(s, t, M)) \in Nat
    BY PairsFew
  <2>6. Cardinality(M) = Cardinality(N) + 1
    <3>1. Cardinality(M \ {x}) = Cardinality(M) - 1
      BY <2>2, <2>5, FS_RemoveElement
    <3> QED BY <2>5, <3>1
  <2>7. Unlike(s, t, N) = Unlike(s, t, M) \ {x}
    BY DEF Unlike
  <2>8. x \in Unlike(s, t, M) <=> s[i] # t[j]
    BY <2>2 DEF Unlike
  <2>9. Cardinality(Unlike(s, t, M) \ {x}) =
           IF x \in Unlike(s, t, M) THEN Cardinality(Unlike(s, t, M)) - 1 ELSE Cardinality(Unlike(s, t, M))
    BY <2>5, FS_RemoveElement
  <2>10. Cardinality(Unlike(s, t, M)) = Cardinality(Unlike(s, t, N)) + IF s[i] = t[j] THEN 0 ELSE 1
    <3> HIDE DEF N, x
    <3>1. CASE s[i] = t[j]
      BY <2>5, <2>7, <2>8, <2>9, <3>1
    <3>2. CASE s[i] # t[j]
      BY <2>5, <2>7, <2>8, <2>9, <3>2
    <3> QED BY <3>1, <3>2
  <2> QED BY <2>2, <2>4, <2>6, <2>10
<1> QED BY <1>1, <1>2, <1>3 DEF Fewer

CostHere(s, t, i, j) == IF s[i] = t[j] THEN 0 ELSE 1

OnePairMore(s, t, M, N, h, k) ==
    /\ Pairing(N, h, k) /\ Cardinality(N) = Cardinality(M) + 1
    /\ Cardinality(Unlike(s, t, N)) = Cardinality(Unlike(s, t, M)) + CostHere(s, t, h, k)

LEMMA PairMore ==
    ASSUME NEW s, NEW t, NEW i \in Nat, NEW j \in Nat, NEW M, Pairing(M, i, j),
           NEW h, NEW k, h = i + 1, k = j + 1, NEW N, N = M \cup {<<h, k>>}
    PROVE  OnePairMore(s, t, M, N, h, k)
<1> DEFINE x == <<h, k>>
<1>0. \A p \in M : p = <<p[1], p[2]>> /\ p[1] \in 1..i /\ p[2] \in 1..j
  BY PairsOf
<1>1. Pairing(M, h, k)
  BY PairLonger
<1>2. x \in (1..h) \X (1..k) /\ x[1] = h /\ x[2] = k
  OBVIOUS
<1>3. \A p \in M : p[1] < x[1] /\ p[2] < x[2] /\ ~(x[1] < p[1]) /\ ~(x[2] < p[2])
  BY <1>0, <1>2
<1>4. ~(x[1] < x[1]) /\ ~(x[2] < x[2])
  BY <1>2
<1>5. x \notin M
  BY <1>3, <1>4
<1>6. Pairing(N, h, k)
  <2>1. N \subseteq (1..h) \X (1..k)
    BY <1>1, <1>2 DEF Pairing
  <2>2. \A p, q \in M : p[1] < q[1] <=> p[2] < q[2]
    BY DEF Pairing
  <2>3. ASSUME NEW p \in N, NEW q \in N PROVE p[1] < q[1] <=> p[2] < q[2]
    <3> HIDE DEF x
    <3>1. (p \in M \/ p = x) /\ (q \in M \/ q = x)
      BY DEF x
    <3> QED BY <1>3, <1>4, <2>2, <3>1
  <2> QED BY <2>1, <2>3 DEF Pairing
<1>7. IsFiniteSet(M) /\ Cardinality(M) \in Nat /\ IsFiniteSet(Unlike(s, t, M)) /\ Cardinality(Unlike(s, t, M)) \in Nat
  BY PairsFew
<1>a. CostHere(s, t, h, k) = IF s[h] = t[k] THEN 0 ELSE 1
  BY DEF CostHere
<1>8. Cardinality(N) = Cardinality(M) + 1
  BY <1>5, <1>7, FS_AddElement
<1>9. Cardinality(Unlike(s, t, N)) = Cardinality(Unlike(s, t, M)) + CostHere(s, t, h, k)
  <2>1. CASE s[h] = t[k]
    <3>1. Unlike(s, t, N) = Unlike(s, t, M)
      BY <1>2, <2>1 DEF Unlike
    <3> QED BY <1>7, <1>a, <2>1, <3>1
  <2>2. CASE s[h] # t[k]
    <3>1. Unlike(s, t, N) = Unlike(s, t, M) \cup {x} /\ x \notin Unlike(s, t, M)
      BY <1>2, <1>5, <2>2 DEF Unlike
    <3>2. Cardinality(Unlike(s, t, M) \cup {x}) = Cardinality(Unlike(s, t, M)) + 1
      BY <1>7, <3>1, FS_AddElement
    <3> QED BY <1>a, <2>2, <3>1, <3>2
  <2> QED BY <2>1, <2>2
<1> QED BY <1>6, <1>8, <1>9 DEF OnePairMore

\* The distance of longer prefixes from those of shorter ones.
LEMMA NearestNext ==
    ASSUME NEW s, NEW t, NEW i \in Nat, NEW j \in Nat, NEW h, NEW k, h = i + 1, k = j + 1, NEW a_ \in Int, NEW b_ \in Int, NEW c_ \in Int, NEW e \in Int,
           Nearest(s, t, i, k, a_), Nearest(s, t, h, j, b_), Nearest(s, t, i, j, c_),
           e = CostHere(s, t, h, k),
           NEW d \in Int, d = a_ + 1 \/ d = b_ + 1 \/ d = c_ + e, d <= a_ + 1, d <= b_ + 1, d <= c_ + e
    PROVE  Nearest(s, t, h, k, d)
<1>e. e = IF s[h] = t[k] THEN 0 ELSE 1
  BY DEF CostHere
<1>0. h \in Nat \ {0} /\ k \in Nat \ {0} /\ h - 1 = i /\ k - 1 = j /\ d \in Int /\ i <= h /\ j <= k
  OBVIOUS
<1>1. \E M : Pairing(M, h, k) /\ PairCost(s, t, M, h, k) = d
  <2>1. CASE d = a_ + 1
    <3>1. PICK M : Pairing(M, i, k) /\ PairCost(s, t, M, i, k) = a_
      BY DEF Nearest
    <3>2. Pairing(M, h, k)
      BY <1>0, <3>1, PairLonger
    <3>3. Cardinality(M) \in Nat /\ Cardinality(Unlike(s, t, M)) \in Nat
      BY <1>0, <3>1, PairsFew
    <3>4. PairCost(s, t, M, h, k) = a_ + 1
      BY <1>0, <3>1, <3>3 DEF PairCost
    <3> QED BY <2>1, <3>2, <3>4
  <2>2. CASE d = b_ + 1
    <3>1. PICK M : Pairing(M, h, j) /\ PairCost(s, t, M, h, j) = b_
      BY DEF Nearest
    <3>2. Pairing(M, h, k)
      BY <1>0, <3>1, PairLonger
    <3>3. Cardinality(M) \in Nat /\ Cardinality(Unlike(s, t, M)) \in Nat
      BY <1>0, <3>1, PairsFew
    <3>4. PairCost(s, t, M, h, k) = b_ + 1
      BY <1>0, <3>1, <3>3 DEF PairCost
    <3> QED BY <2>2, <3>2, <3>4
  <2>3. CASE d = c_ + e
    <3>1. PICK M : Pairing(M, i, j) /\ PairCost(s, t, M, i, j) = c_
      BY DEF Nearest
    <3> DEFINE N == M \cup {<<h, k>>}
    <3>2. /\ Pairing(N, h, k) /\ Cardinality(N) = Cardinality(M) + 1
          /\ Cardinality(Unlike(s, t, N)) = Cardinality(Unlike(s, t, M)) + e
      <4>1. N = M \cup {<<h, k>>}
        OBVIOUS
      <4> HIDE DEF N
      <4>2. OnePairMore(s, t, M, N, h, k)
        BY <3>1, <4>1, PairMore
      <4> QED BY <4>2 DEF OnePairMore
    <3>3. Cardinality(M) \in Nat /\ Cardinality(Unlike(s, t, M)) \in Nat
      BY <1>0, <3>1, PairsFew
    <3> HIDE DEF N
    <3>4. PairCost(s, t, N, h, k) = c_ + e
      BY <1>0, <3>1, <3>2, <3>3 DEF PairCost
    <3> QED BY <2>3, <3>2, <3>4
  <2> QED BY <2>1, <2>2, <2>3
<1>2. ASSUME NEW M, Pairing(M, h, k) PROVE d <= PairCost(s, t, M, h, k)
  <2>1. Cardinality(M) \in Nat /\ Cardinality(Unlike(s, t, M)) \in Nat
    BY <1>0, <1>2, PairsFew
  <2>2. CASE Pairing(M, i, k)
    <3>1. a_ <= PairCost(s, t, M, i, k)
      BY <2>2 DEF Nearest
    <3>2. PairCost(s, t, M, h, k) = PairCost(s, t, M, i, k) + 1 /\ PairCost(s, t, M, i, k) \in Int
      BY <2>1 DEF PairCost
    <3> QED BY <1>0, <3>1, <3>2
  <2>3. CASE Pairing(M, h, j)
    <3>1. b_ <= PairCost(s, t, M, h, j)
      BY <2>3 DEF Nearest
    <3>2. PairCost(s, t, M, h, k) = PairCost(s, t, M, h, j) + 1 /\ PairCost(s, t, M, h, j) \in Int
      BY <2>1 DEF PairCost
    <3> QED BY <1>0, <3>1, <3>2
  <2> DEFINE N == M \ {<<h, k>>}
  <2>4. CASE /\ <<h, k>> \in M /\ Pairing(N, i, j)
             /\ Cardinality(M) = Cardinality(N) + 1
             /\ Cardinality(Unlike(s, t, M)) = Cardinality(Unlike(s, t, N)) + e
    <3>1. c_ <= PairCost(s, t, N, i, j)
      BY <2>4 DEF Nearest
    <3>2. Cardinality(N) \in Nat /\ Cardinality(Unlike(s, t, N)) \in Nat
      BY <2>4, PairsFew
    <3>3. PairCost(s, t, M, h, k) = PairCost(s, t, N, i, j) + e /\ PairCost(s, t, N, i, j) \in Int
      BY <2>4, <3>2 DEF PairCost
    <3> QED BY <1>0, <3>1, <3>3
  <2>5. \/ Pairing(M, i, k) \/ Pairing(M, h, j)
        \/ /\ <<h, k>> \in M /\ Pairing(N, i, j)
           /\ Cardinality(M) = Cardinality(N) + 1
           /\ Cardinality(Unlike(s, t, M)) = Cardinality(Unlike(s, t, N)) + e
    <3>1. \/ Pairing(M, h - 1, k) \/ Pairing(M, h, k - 1)
          \/ /\ <<h, k>> \in M /\ Pairing(N, h - 1, k - 1)
             /\ Cardinality(M) = Cardinality(N) + 1
             /\ Cardinality(Unlike(s, t, M)) = Cardinality(Unlike(s, t, N)) + IF s[h] = t[k] THEN 0 ELSE 1
      <4>1. Fewer(s, t, M, h, k)
        BY <1>0, <1>2, PairFewer
      <4> QED BY <4>1 DEF Fewer
    <3> HIDE DEF N
    <3> QED BY <1>0, <1>e, <3>1
  <2> QED BY <2>2, <2>3, <2>4, <2>5
<1> QED BY <1>1, <1>2 DEF Nearest

\* There is one least cost, the same from both sides.
LEMMA NearestOnce ==
    ASSUME NEW s, NEW t, NEW i, NEW j, NEW d \in Int, NEW e \in Int, Nearest(s, t, i, j, d), Nearest(s, t, i, j, e)
    PROVE  d = e
BY DEF Nearest

Crossed(M) == {<<p[2], p[1]>> : p \in M}
LEMMA CrossedWell ==
    ASSUME NEW s, NEW t, NEW i \in Nat, NEW j \in Nat, NEW M, Pairing(M, i, j)
    PROVE  Pairing(Crossed(M), j, i) /\ PairCost(t, s, Crossed(M), j, i) = PairCost(s, t, M, i, j)
<1> DEFINE N == Crossed(M)
           f == [p \in M |-> <<p[2], p[1]>>]
           g == [p \in Unlike(s, t, M) |-> <<p[2], p[1]>>]
<1>0. \A p \in M : p = <<p[1], p[2]>> /\ p[1] \in 1..i /\ p[2] \in 1..j
  BY PairsOf
<1>1. N \subseteq (1..j) \X (1..i)
  BY <1>0 DEF Crossed
<1>2. ASSUME NEW x \in N, NEW y \in N PROVE x[1] < y[1] <=> x[2] < y[2]
  <2>1. PICK p \in M : x = <<p[2], p[1]>>
    BY DEF Crossed
  <2>2. PICK q \in M : y = <<q[2], q[1]>>
    BY DEF Crossed
  <2>3. p[1] < q[1] <=> p[2] < q[2]
    BY DEF Pairing
  <2> QED BY <2>1, <2>2, <2>3
<1>3. Pairing(N, j, i)
  BY <1>1, <1>2 DEF Pairing
<1>4. f \in Bijection(M, N)
  <2>1. f \in [M -> N]
    BY DEF Crossed
  <2>2. \A x \in N : \E p \in M : f[p] = x
    BY DEF Crossed
  <2>3. \A p, q \in M : f[p] = f[q] => p = q
    BY <1>0
  <2> QED BY <2>1, <2>2, <2>3, Fun_IsBij
<1>5. g \in Bijection(Unlike(s, t, M), Unlike(t, s, N))
  <2>0. Unlike(s, t, M) \subseteq M
    BY DEF Unlike
  <2>1. g \in [Unlike(s, t, M) -> Unlike(t, s, N)]
    <3>1. ASSUME NEW p \in Unlike(s, t, M) PROVE <<p[2], p[1]>> \in Unlike(t, s, N)
      BY DEF Crossed, Unlike
    <3> QED BY <3>1
  <2>2. ASSUME NEW x \in Unlike(t, s, N) PROVE \E p \in Unlike(s, t, M) : g[p] = x
    <3>1. PICK p \in M : x = <<p[2], p[1]>>
      BY DEF Crossed, Unlike
    <3>2. p \in Unlike(s, t, M)
      BY <3>1 DEF Unlike
    <3> QED BY <3>1, <3>2
  <2>3. \A p, q \in Unlike(s, t, M) : g[p] = g[q] => p = q
    BY <1>0, <2>0
  <2> QED BY <2>1, <2>2, <2>3, Fun_IsBij
<1>6. ExistsBijection(M, N) /\ ExistsBijection(Unlike(s, t, M), Unlike(t, s, N))
  BY <1>4, <1>5 DEF ExistsBijection
<1>7. IsFiniteSet(M) /\ Cardinality(M) \in Nat /\ IsFiniteSet(Unlike(s, t, M)) /\ Cardinality(Unlike(s, t, M)) \in Nat
  BY PairsFew
<1>8. Cardinality(N) = Cardinality(M) /\ Cardinality(Unlike(t, s, N)) = Cardinality(Unlike(s, t, M))
  BY <1>6, <1>7, FS_Bijection
<1> QED BY <1>3, <1>7, <1>8 DEF PairCost

LEMMA NearestBothWays ==
    ASSUME NEW s, NEW t, NEW i \in Nat, NEW j \in Nat, NEW d \in Int, Nearest(s, t, i, j, d)
    PROVE  Nearest(t, s, j, i, d)
<1>1. PICK M : Pairing(M, i, j) /\ PairCost(s, t, M, i, j) = d
  BY DEF Nearest
<1>2. Pairing(Crossed(M), j, i) /\ PairCost(t, s, Crossed(M), j, i) = d
  BY <1>1, CrossedWell
<1>3. ASSUME NEW N, Pairing(N, j, i) PROVE d <= PairCost(t, s, N, j, i)
  <2>1. Pairing(Crossed(N), i, j) /\ PairCost(s, t, Crossed(N), i, j) = PairCost(t, s, N, j, i)
    BY <1>3, CrossedWell
  <2>2. d <= PairCost(s, t, Crossed(N), i, j)
    BY <2>1 DEF Nearest
  <2> QED BY <2>1, <2>2
<1> QED BY <1>2, <1>3 DEF Nearest


-----------------------------------------------------------------------------
(* Drafts: the distance row by row *)

LEMMA NearestStep ==
    ASSUME NEW s, NEW t, NEW i \in Nat, NEW j \in Nat, NEW h, NEW k, h = i + 1, k = j + 1,
           NEW x \in Nat, NEW y \in Nat, NEW z \in Nat, NEW d,
           Nearest(s, t, i, k, x), Nearest(s, t, h, j, y), Nearest(s, t, i, j, z),
           d \in {x + 1, y + 1, z + CostHere(s, t, h, k)},
           \A u \in {x + 1, y + 1, z + CostHere(s, t, h, k)} : d <= u
    PROVE  Nearest(s, t, h, k, d)
<1> DEFINE e == CostHere(s, t, h, k)
<1>1. e \in Int /\ x \in Int /\ y \in Int /\ z \in Int
  BY DEF CostHere
<1>2. e = CostHere(s, t, h, k)
  OBVIOUS
<1>3. d \in Int /\ (d = x + 1 \/ d = y + 1 \/ d = z + e) /\ d <= x + 1 /\ d <= y + 1 /\ d <= z + e
  BY <1>1
<1> HIDE DEF e
<1> QED BY <1>1, <1>2, <1>3, NearestNext

RowAfter(s, t, i, previous, next) ==
    /\ next \in [1..(Len(t) + 1) -> Nat] /\ next[1] = i
    /\ \A j \in 1..Len(t) :
         next[j + 1] = Min({previous[j + 1] + 1, next[j] + 1, previous[j] + CostHere(s, t, i, j)})

LEMMA NextRowIs ==
    ASSUME NEW s, NEW t, Len(t) \in Nat, NEW i \in Nat, NEW previous \in [1..(Len(t) + 1) -> Nat]
    PROVE  RowAfter(s, t, i, previous, NextRow(s, t, i, previous))
<1> DEFINE n == Len(t)
           row[j \in 0..Len(t)] ==
               IF j = 0 THEN i
               ELSE Min({previous[j + 1] + 1, row[j - 1] + 1, previous[j] + IF s[i] = t[j] THEN 0 ELSE 1})
           step == [p \in (1..n) \X Nat |->
                      Min({previous[p[1] + 1] + 1, p[2] + 1, previous[p[1]] + CostHere(s, t, i, p[1])})]
<1>1. \A j \in 1..n : /\ previous[j + 1] \in Nat /\ previous[j] \in Nat /\ CostHere(s, t, i, j) \in Nat
                      /\ CostHere(s, t, i, j) = IF s[i] = t[j] THEN 0 ELSE 1
  BY DEF CostHere
<1>2. ASSUME NEW j \in 1..n, NEW x \in Nat
      PROVE  Min({previous[j + 1] + 1, x + 1, previous[j] + CostHere(s, t, i, j)}) \in Nat
  <2> DEFINE U == {previous[j + 1] + 1, x + 1, previous[j] + CostHere(s, t, i, j)}
  <2>1. U \subseteq Nat /\ U # {}
    BY <1>1
  <2> HIDE DEF U
  <2>2. Min(U) \in Nat
    BY <2>1, LeastOf
  <2> QED BY <2>2 DEF U
<1>3. step \in [(1..n) \X Nat -> Nat]
  BY <1>2
<1>4. \E g \in [0..n -> Nat] : BuiltBy(g, i, step, n)
  <2> HIDE DEF step, row
  <2> QED BY <1>3, StepByStep
<1>5. PICK g \in [0..n -> Nat] : g[0] = i /\ \A j \in 1..n : g[j] = step[<<j, g[j - 1]>>]
  BY <1>4 DEF BuiltBy
<1>6. \A j \in 0..n : j # 0 => j \in 1..n /\ j - 1 \in 0..n /\ g[j - 1] \in Nat
  BY <1>5
<1>7. \A j \in 1..n : step[<<j, g[j - 1]>>] =
        Min({previous[j + 1] + 1, g[j - 1] + 1, previous[j] + IF s[i] = t[j] THEN 0 ELSE 1})
  <2>1. \A j \in 1..n : j \in 0..n /\ j # 0
    OBVIOUS
  <2>2. ASSUME NEW j \in 1..n
        PROVE  step[<<j, g[j - 1]>>] = Min({previous[j + 1] + 1, g[j - 1] + 1, previous[j] + CostHere(s, t, i, j)})
    BY <1>6, <2>1
  <2> QED BY <1>1, <2>2
<1> HIDE DEF step
<1>8. g = [j \in 0..n |->
             IF j = 0 THEN i
             ELSE Min({previous[j + 1] + 1, g[j - 1] + 1, previous[j] + IF s[i] = t[j] THEN 0 ELSE 1})]
  <2> DEFINE Body(j, x) == Min({previous[j + 1] + 1, x + 1, previous[j] + IF s[i] = t[j] THEN 0 ELSE 1})
  <2>1. \A j \in 1..n : g[j] = Body(j, g[j - 1])
    BY <1>5, <1>7
  <2>2. g = [j \in 0..n |-> IF j = 0 THEN i ELSE Body(j, g[j - 1])]
    <3> HIDE DEF Body
    <3> QED BY <1>5, <1>6, <2>1
  <2> QED BY <2>2
<1>9. row = [j \in 0..n |->
               IF j = 0 THEN i
               ELSE Min({previous[j + 1] + 1, row[j - 1] + 1, previous[j] + IF s[i] = t[j] THEN 0 ELSE 1})]
  BY <1>8
<1>10. NextRow(s, t, i, previous) = [j \in 1..(n + 1) |-> row[j - 1]]
  BY DEF NextRow
<1> HIDE DEF row
<1> DEFINE T == {j \in Nat : row[j] \in Nat}
<1>11. row[0] = i
  <2>1. 0 \in 0..n
    OBVIOUS
  <2> QED BY <1>9, <2>1
<1>12. ASSUME NEW j \in 0..n, j + 1 <= n
       PROVE  row[j + 1] = Min({previous[(j + 1) + 1] + 1, row[j] + 1, previous[j + 1] + CostHere(s, t, i, j + 1)})
  <2>1. j + 1 \in 0..n /\ j + 1 # 0 /\ (j + 1) - 1 = j /\ j + 1 \in 1..n
    BY <1>12
  <2> QED BY <1>1, <1>9, <2>1
<1>13. \A j \in 0..n : j \in T
  <2>1. 0 \in T
    BY <1>11
  <2>2. ASSUME NEW j \in 0..n, j \in T, j + 1 <= n PROVE j + 1 \in T
    <3>1. j + 1 \in 1..n /\ row[j] \in Nat /\ j + 1 \in Nat
      BY <2>2
    <3>2. row[j + 1] \in Nat
      BY <1>2, <1>12, <2>2, <3>1
    <3> QED BY <3>1, <3>2
  <2>3. n \in Nat
    OBVIOUS
  <2> HIDE DEF T, n
  <2> QED BY <2>1, <2>2, <2>3, Along
<1> DEFINE next == NextRow(s, t, i, previous)
<1>14. \A j \in 1..(n + 1) : next[j] = row[j - 1] /\ j - 1 \in 0..n
  BY <1>10
<1>15. next \in [1..(n + 1) -> Nat]
  BY <1>10, <1>13, <1>14
<1>16. next[1] = i
  BY <1>11, <1>14
<1>17. ASSUME NEW j \in 1..n
       PROVE  next[j + 1] = Min({previous[j + 1] + 1, next[j] + 1, previous[j] + CostHere(s, t, i, j)})
  <2>1. next[j + 1] = row[j] /\ next[j] = row[j - 1] /\ j - 1 \in 0..n /\ (j - 1) + 1 <= n /\ (j - 1) + 1 = j
    <3>1. j \in 1..(n + 1) /\ j + 1 \in 1..(n + 1) /\ (j + 1) - 1 = j /\ j - 1 \in 0..n /\ (j - 1) + 1 = j /\ j <= n
      OBVIOUS
    <3> HIDE DEF next
    <3> QED BY <1>14, <3>1
  <2> HIDE DEF next
  <2> QED BY <1>12, <2>1
<1> QED BY <1>15, <1>16, <1>17 DEF RowAfter

\* A row that is right so far.
RowRight(s, t, i, row) ==
    row \in [1..(Len(t) + 1) -> Nat] /\ \A j \in 0..Len(t) : Nearest(s, t, i, j, row[j + 1])

LEMMA NextRowRight ==
    ASSUME NEW s, NEW t, Len(t) \in Nat, NEW i \in Nat, NEW previous, RowRight(s, t, i, previous)
    PROVE  RowRight(s, t, i + 1, NextRow(s, t, i + 1, previous))
<1> DEFINE n == Len(t)
           next == NextRow(s, t, i + 1, previous)
           T == {j \in Nat : Nearest(s, t, i + 1, j, next[j + 1])}
<1>1. previous \in [1..(n + 1) -> Nat] /\ \A j \in 0..n : Nearest(s, t, i, j, previous[j + 1])
  BY DEF RowRight
<1>2. /\ next \in [1..(n + 1) -> Nat] /\ next[1] = i + 1
      /\ \A j \in 1..n : next[j + 1] = Min({previous[j + 1] + 1, next[j] + 1, previous[j] + CostHere(s, t, i + 1, j)})
  <2>1. PICK h \in Nat : h = i + 1
    OBVIOUS
  <2>2. RowAfter(s, t, h, previous, NextRow(s, t, h, previous))
    <3>1. previous \in [1..(Len(t) + 1) -> Nat]
      BY <1>1
    <3> HIDE DEF next, T, n
    <3> QED BY <3>1, NextRowIs
  <2> QED BY <2>1, <2>2 DEF RowAfter
<1> HIDE DEF next
<1>3. 0 \in T
  <2>1. Nearest(s, t, i + 1, 0, (i + 1) + 0)
    BY i + 1 \in Nat, PairNothing
  <2> QED BY <1>2, <2>1
<1>4. ASSUME NEW j \in 0..n, j \in T, j + 1 <= n PROVE j + 1 \in T
  <2> DEFINE x == previous[(j + 1) + 1]
             y == next[j + 1]
             z == previous[j + 1]
             e == CostHere(s, t, i + 1, j + 1)
             d == next[(j + 1) + 1]
             U == {x + 1, y + 1, z + e}
  <2>1. j \in Nat /\ j + 1 \in 1..n /\ (j + 1) + 1 \in 1..(n + 1) /\ j + 1 \in 1..(n + 1) /\ j + 1 \in 0..n
    BY <1>4
  <2>2. x \in Nat /\ y \in Nat /\ z \in Nat /\ e \in {0, 1}
    BY <1>1, <1>2, <2>1 DEF CostHere
  <2>3. d = Min(U)
    BY <1>2, <2>1
  <2>4. U \subseteq Nat /\ U # {}
    BY <2>2
  <2>5. d \in U /\ \A u \in U : d <= u
    <3> HIDE DEF U, d
    <3> QED BY <2>3, <2>4, LeastOf
  <2>6. Nearest(s, t, i, j + 1, x) /\ Nearest(s, t, i + 1, j, y) /\ Nearest(s, t, i, j, z)
    BY <1>1, <1>4, <2>1
  <2>9. Nearest(s, t, i + 1, j + 1, d)
    <3>1. PICK h, k : h = i + 1 /\ k = j + 1
      OBVIOUS
    <3>2. d \in {x + 1, y + 1, z + CostHere(s, t, h, k)} /\ \A u \in {x + 1, y + 1, z + CostHere(s, t, h, k)} : d <= u
      BY <2>5, <3>1
    <3>3. Nearest(s, t, i, k, x) /\ Nearest(s, t, h, j, y) /\ Nearest(s, t, i, j, z)
      BY <2>6, <3>1
    <3> HIDE DEF d, x, y, z
    <3>4. Nearest(s, t, h, k, d)
      BY <2>1, <2>2, <3>1, <3>2, <3>3, NearestStep
    <3> QED BY <3>1, <3>4
  <2> QED BY <2>1, <2>9
<1>5. \A j \in 0..n : j \in T
  <2>1. n \in Nat
    OBVIOUS
  <2> HIDE DEF T, n
  <2> QED BY <1>3, <1>4, <2>1, Along
<1> QED BY <1>2, <1>5 DEF RowRight, next

LEMMA RowByRowRight ==
    ASSUME NEW s, NEW t, Len(s) \in Nat, Len(t) \in Nat
    PROVE  RowByRow(s, t) \in Nat /\ Nearest(s, t, Len(s), Len(t), RowByRow(s, t))
<1> DEFINE m == Len(s)
           n == Len(t)
           V == [1..(n + 1) -> Nat]
           first == [j \in 1..(Len(t) + 1) |-> j - 1]
           rows[i \in 0..Len(s)] ==
               IF i = 0 THEN [j \in 1..(Len(t) + 1) |-> j - 1] ELSE NextRow(s, t, i, rows[i - 1])
           step == [p \in (1..m) \X V |-> NextRow(s, t, p[1], p[2])]
<1>1. first \in V /\ m \in Nat /\ n \in Nat
  OBVIOUS
<1>2. ASSUME NEW i \in 1..m, NEW x \in V PROVE NextRow(s, t, i, x) \in V
  BY i \in Nat, NextRowIs DEF RowAfter
<1>3. step \in [(1..m) \X V -> V]
  <2> HIDE DEF V
  <2> QED BY <1>2
<1>4. \E g \in [0..m -> V] : BuiltBy(g, first, step, m)
  <2> HIDE DEF step, rows, V, first, m
  <2> QED BY <1>1, <1>3, StepByStep
<1>5. PICK g \in [0..m -> V] : g[0] = first /\ \A i \in 1..m : g[i] = step[<<i, g[i - 1]>>]
  BY <1>4 DEF BuiltBy
<1>6. \A i \in 0..m : i # 0 => i \in 1..m /\ i - 1 \in 0..m /\ g[i - 1] \in V
  <2> HIDE DEF V
  <2> QED BY SMTT(30), <1>1, <1>5
<1>7. \A i \in 1..m : step[<<i, g[i - 1]>>] = NextRow(s, t, i, g[i - 1])
  <2> HIDE DEF V
  <2>1. \A i \in 1..m : i \in 0..m /\ i # 0
    BY <1>1
  <2> QED BY <1>6, <2>1
<1> HIDE DEF step, V
<1>8. g = [i \in 0..m |-> IF i = 0 THEN [j \in 1..(Len(t) + 1) |-> j - 1] ELSE NextRow(s, t, i, g[i - 1])]
  BY <1>5, <1>6, <1>7
<1>9. rows = [i \in 0..m |-> IF i = 0 THEN [j \in 1..(Len(t) + 1) |-> j - 1] ELSE NextRow(s, t, i, rows[i - 1])]
  BY <1>8
<1>10. RowByRow(s, t) = rows[m][n + 1]
  BY DEF RowByRow
<1> HIDE DEF rows
<1> DEFINE T == {i \in Nat : RowRight(s, t, i, rows[i])}
<1>11. 0 \in T
  <2>1. rows[0] = first
    BY <1>1, <1>9
  <2>2. ASSUME NEW j \in 0..n PROVE Nearest(s, t, 0, j, first[j + 1])
    <3>1. first[j + 1] = 0 + j /\ j \in Nat
      OBVIOUS
    <3> QED BY <3>1, PairNothing
  <2> HIDE DEF first
  <2> QED BY <1>1, <2>1, <2>2 DEF RowRight, V
<1>12. ASSUME NEW i \in 0..m, i \in T, i + 1 <= m PROVE i + 1 \in T
  <2>1. i + 1 \in 0..m /\ i + 1 # 0 /\ (i + 1) - 1 = i /\ i \in Nat
    BY <1>12
  <2>2. rows[i + 1] = NextRow(s, t, i + 1, rows[i])
    BY <1>9, <2>1
  <2> QED BY <1>12, <2>1, <2>2, NextRowRight
<1>13. \A i \in 0..m : i \in T
  <2> HIDE DEF T, m
  <2> QED BY <1>1, <1>11, <1>12, Along
<1>14. RowRight(s, t, m, rows[m])
  BY <1>1, <1>13
<1>15. rows[m][n + 1] \in Nat /\ Nearest(s, t, m, n, rows[m][n + 1])
  BY SMTT(30), <1>1, <1>14 DEF RowRight
<1> QED BY <1>10, <1>15

LEMMA LevenshteinRight ==
    ASSUME NEW s, NEW t, Len(s) \in Nat, Len(t) \in Nat
    PROVE  Levenshtein(s, t) \in Nat /\ Nearest(s, t, Len(s), Len(t), Levenshtein(s, t))
<1>1. CASE Len(s) < Len(t)
  <2>1. RowByRow(t, s) \in Nat /\ Nearest(t, s, Len(t), Len(s), RowByRow(t, s))
    BY RowByRowRight
  <2> QED BY <1>1, <2>1, NearestBothWays DEF Levenshtein
<1>2. CASE ~(Len(s) < Len(t))
  BY <1>2, RowByRowRight DEF Levenshtein
<1> QED BY <1>1, <1>2

LEMMA LevenshteinBothWays ==
    ASSUME NEW s, NEW t, Len(s) \in Nat, Len(t) \in Nat
    PROVE  Levenshtein(s, t) = Levenshtein(t, s)
<1>1. Levenshtein(s, t) \in Nat /\ Nearest(s, t, Len(s), Len(t), Levenshtein(s, t))
  BY LevenshteinRight
<1>2. Levenshtein(t, s) \in Nat /\ Nearest(t, s, Len(t), Len(s), Levenshtein(t, s))
  BY LevenshteinRight
<1>3. Nearest(s, t, Len(s), Len(t), Levenshtein(t, s))
  BY <1>2, NearestBothWays
<1> QED BY <1>1, <1>2, <1>3, NearestOnce


-----------------------------------------------------------------------------
(* Drafts: the least cost of an alignment *)

Firsts(M) == {p[1] : p \in M}
Seconds(M) == {p[2] : p \in M}
LEMMA ListedInOrder ==
    ASSUME NEW m \in Nat, NEW A, A \subseteq 1..m
    PROVE  /\ IsFiniteSet(A) /\ Cardinality(A) \in Nat /\ Cardinality(A) <= m
           /\ Listed(A, Cardinality(A), InOrder(A)) /\ DOMAIN InOrder(A) = 1..Cardinality(A)
<1>1. IsFiniteSet(1..m) /\ Cardinality(1..m) = m
  BY FS_Interval
<1>2. IsFiniteSet(A) /\ Cardinality(A) <= m
  BY <1>1, FS_Subset
<1>3. A \subseteq Int
  OBVIOUS
<1>4. /\ Cardinality(A) \in Nat /\ InOrder(A) \in [1..Cardinality(A) -> A]
      /\ \A i, j \in 1..Cardinality(A) : i < j => InOrder(A)[i] < InOrder(A)[j]
      /\ \A x \in A : \E i \in 1..Cardinality(A) : InOrder(A)[i] = x
  BY <1>2, <1>3, InOrderWell
<1> QED BY <1>2, <1>4 DEF Listed

\* The pairs of two lists, place by place.
Paired(n, here, there) == {<<here[k], there[k]>> : k \in 1..n}

Alike(s, t, n, here, there, M, i, j) ==
    /\ Pairing(M, i, j) /\ Cardinality(M) = n
    /\ Cardinality(Unlike(s, t, M)) = Cardinality({k \in 1..n : s[here[k]] # t[there[k]]})

LEMMA PairedWell ==
    ASSUME NEW s, NEW t, NEW i \in Nat, NEW j \in Nat, NEW n \in Nat, NEW A, NEW B, A \subseteq 1..i, B \subseteq 1..j,
           NEW here, NEW there, Listed(A, n, here), Listed(B, n, there)
    PROVE  Alike(s, t, n, here, there, Paired(n, here, there), i, j)
<1> DEFINE M == Paired(n, here, there)
           K == {k \in 1..n : s[here[k]] # t[there[k]]}
           f == [k \in 1..n |-> <<here[k], there[k]>>]
           g == [k \in K |-> <<here[k], there[k]>>]
<1>1. \A k \in 1..n : here[k] \in 1..i /\ there[k] \in 1..j
  BY DEF Listed
<1>2. \A k, l \in 1..n : (here[k] < here[l] <=> k < l) /\ (there[k] < there[l] <=> k < l)
  <2> TAKE k, l \in 1..n
  <2>1. here[k] \in Nat /\ here[l] \in Nat /\ there[k] \in Nat /\ there[l] \in Nat
    BY <1>1
  <2>2. /\ k < l => here[k] < here[l] /\ there[k] < there[l]
        /\ l < k => here[l] < here[k] /\ there[l] < there[k]
    BY DEF Listed
  <2>3. k = l \/ k < l \/ l < k
    OBVIOUS
  <2> QED BY <2>1, <2>2, <2>3
<1>3. Pairing(M, i, j)
  <2>1. M \subseteq (1..i) \X (1..j)
    BY <1>1 DEF Paired
  <2>2. ASSUME NEW p \in M, NEW q \in M PROVE p[1] < q[1] <=> p[2] < q[2]
    <3>1. PICK k \in 1..n : p = <<here[k], there[k]>>
      BY DEF Paired
    <3>2. PICK l \in 1..n : q = <<here[l], there[l]>>
      BY DEF Paired
    <3> QED BY <1>2, <3>1, <3>2
  <2> QED BY <2>1, <2>2 DEF Pairing
<1>4. \A k, l \in 1..n : <<here[k], there[k]>> = <<here[l], there[l]>> => k = l
  <2> TAKE k, l \in 1..n
  <2>1. here[k] = here[l] => k = l
    <3>1. here[k] \in Nat /\ here[l] \in Nat
      BY <1>1
    <3>2. (here[k] < here[l] <=> k < l) /\ (here[l] < here[k] <=> l < k)
      BY <1>2
    <3> QED BY <3>1, <3>2
  <2> QED BY <2>1
<1>5. f \in Bijection(1..n, M)
  <2>1. f \in [1..n -> M] /\ (\A x \in M : \E k \in 1..n : f[k] = x) /\ \A k, l \in 1..n : f[k] = f[l] => k = l
    BY <1>4 DEF Paired
  <2> HIDE DEF f
  <2> QED BY <2>1, Fun_IsBij
<1>6. g \in Bijection(K, Unlike(s, t, M))
  <2>1. g \in [K -> Unlike(s, t, M)]
    <3>1. ASSUME NEW k \in K PROVE <<here[k], there[k]>> \in Unlike(s, t, M)
      <4>1. <<here[k], there[k]>> \in M
        BY DEF Paired
      <4> HIDE DEF M
      <4> QED BY <4>1 DEF Unlike
    <3> QED BY <3>1
  <2>2. ASSUME NEW x \in Unlike(s, t, M) PROVE \E k \in K : g[k] = x
    <3>1. PICK k \in 1..n : x = <<here[k], there[k]>>
      BY DEF Paired, Unlike
    <3>2. k \in K
      BY <3>1 DEF Unlike
    <3> QED BY <3>1, <3>2
  <2>3. \A k, l \in K : g[k] = g[l] => k = l
    BY <1>4
  <2> HIDE DEF g, K
  <2> QED BY <2>1, <2>2, <2>3, Fun_IsBij
<1>7. IsFiniteSet(1..n) /\ Cardinality(1..n) = n
  BY FS_Interval
<1>8. IsFiniteSet(K)
  BY <1>7, FS_Subset
<1>9. ExistsBijection(1..n, M) /\ ExistsBijection(K, Unlike(s, t, M))
  BY <1>5, <1>6 DEF ExistsBijection
<1> HIDE DEF K, M
<1>10. Cardinality(M) = n
  BY <1>7, <1>9, FS_Bijection
<1>11. Cardinality(Unlike(s, t, M)) = Cardinality(K)
  BY <1>8, <1>9, FS_Bijection
<1> QED BY <1>3, <1>10, <1>11 DEF K, M, Alike

\* A pairing pairs its places in their order.
LEMMA PairingListed ==
    ASSUME NEW i \in Nat, NEW j \in Nat, NEW M, Pairing(M, i, j)
    PROVE  /\ Firsts(M) \subseteq 1..i /\ Seconds(M) \subseteq 1..j
           /\ Cardinality(Firsts(M)) = Cardinality(Seconds(M))
           /\ M = Paired(Cardinality(Firsts(M)), InOrder(Firsts(M)), InOrder(Seconds(M)))
<1> DEFINE A == Firsts(M)
           B == Seconds(M)
           n == Cardinality(A)
           here == InOrder(A)
           mate(k) == CHOOSE p \in M : p[1] = here[k]
           there == [k \in 1..n |-> mate(k)[2]]
<1>0. \A p \in M : p = <<p[1], p[2]>> /\ p[1] \in 1..i /\ p[2] \in 1..j
  BY PairsOf
<1>1. A \subseteq 1..i /\ B \subseteq 1..j
  BY <1>0 DEF Firsts, Seconds
<1>2. n \in Nat /\ Listed(A, n, here)
  BY <1>1, ListedInOrder
<1>3. Cardinality(B) \in Nat /\ Listed(B, Cardinality(B), InOrder(B))
  BY <1>1, ListedInOrder
<1> HIDE DEF n, here, A, B
<1>4. \A k \in 1..n : mate(k) \in M /\ mate(k)[1] = here[k]
  <2> TAKE k \in 1..n
  <2>1. here[k] \in A
    BY <1>2 DEF Listed
  <2>2. \E p \in M : p[1] = here[k]
    BY <2>1 DEF A, Firsts
  <2> QED BY <2>2
<1> HIDE DEF mate
<1>5. \A k \in 1..n : there[k] = mate(k)[2] /\ there[k] \in B
  BY <1>4 DEF B, Seconds
<1>6. there \in [1..n -> B]
  <2>1. there = [k \in 1..n |-> mate(k)[2]]
    OBVIOUS
  <2> QED BY <1>5, <2>1
<1> HIDE DEF there
<1>7. \A k, l \in 1..n : k < l => there[k] < there[l]
  <2> TAKE k, l \in 1..n
  <2>1. k < l => here[k] < here[l]
    BY <1>2 DEF Listed
  <2>2. mate(k)[1] < mate(l)[1] <=> mate(k)[2] < mate(l)[2]
    BY <1>4 DEF Pairing
  <2> QED BY <1>4, <1>5, <2>1, <2>2
<1>8. \A p \in M : \E k \in 1..n : here[k] = p[1] /\ mate(k) = p
  <2> TAKE p \in M
  <2>1. p[1] \in A
    BY DEF A, Firsts
  <2>2. PICK k \in 1..n : here[k] = p[1]
    BY <1>2, <2>1 DEF Listed
  <2>3. mate(k) = p
    BY <1>4, <2>2, PairsApart
  <2> QED BY <2>2, <2>3
<1>9. \A x \in B : \E k \in 1..n : there[k] = x
  <2> TAKE x \in B
  <2>1. PICK p \in M : x = p[2]
    BY DEF B, Seconds
  <2> QED BY <1>5, <1>8, <2>1
<1>10. Listed(B, n, there)
  BY <1>6, <1>7, <1>9 DEF Listed
<1>11. Cardinality(B) = n /\ InOrder(B) = there
  <2>1. B \subseteq Int
    BY <1>1
  <2> QED BY <1>2, <1>3, <1>10, <2>1, ListedOnce
<1>12. M = Paired(n, here, there)
  <2>1. ASSUME NEW p \in M PROVE p \in Paired(n, here, there)
    <3>1. PICK k \in 1..n : here[k] = p[1] /\ mate(k) = p
      BY <1>8
    <3>2. p = <<here[k], there[k]>>
      BY <1>0, <1>5, <3>1
    <3> QED BY <3>2 DEF Paired
  <2>2. ASSUME NEW p \in Paired(n, here, there) PROVE p \in M
    <3>1. PICK k \in 1..n : p = <<here[k], there[k]>>
      BY DEF Paired
    <3>2. mate(k) \in M /\ mate(k) = <<mate(k)[1], mate(k)[2]>>
      BY <1>0, <1>4
    <3>3. p = mate(k)
      BY <1>4, <1>5, <3>1, <3>2
    <3> QED BY <3>2, <3>3
  <2> QED BY <2>1, <2>2
<1> QED BY <1>1, <1>11, <1>12 DEF A, B, n, here

\* The cost of an alignment is that of its pairs.
SameCost(s, t, A, B) ==
    LET M == Paired(Cardinality(A), InOrder(A), InOrder(B)) IN
    Pairing(M, Len(s), Len(t)) /\ Cost(s, t, A, B) = PairCost(s, t, M, Len(s), Len(t))

LEMMA CostIs ==
    ASSUME NEW s, NEW t, Len(s) \in Nat, Len(t) \in Nat, NEW A, NEW B,
           A \subseteq 1..Len(s), B \subseteq 1..Len(t), Cardinality(A) = Cardinality(B)
    PROVE  SameCost(s, t, A, B)
<1>0. PICK i \in Nat, j \in Nat : i = Len(s) /\ j = Len(t) /\ A \subseteq 1..i /\ B \subseteq 1..j
  OBVIOUS
<1> DEFINE n == Cardinality(A)
           M == Paired(n, InOrder(A), InOrder(B))
<1>1. n \in Nat /\ Listed(A, n, InOrder(A)) /\ DOMAIN InOrder(A) = 1..n /\ Listed(B, n, InOrder(B))
  BY <1>0, ListedInOrder
<1> HIDE DEF n
<1>2. /\ Pairing(M, i, j) /\ Cardinality(M) = n
      /\ Cardinality(Unlike(s, t, M)) = Cardinality({k \in 1..n : s[InOrder(A)[k]] # t[InOrder(B)[k]]})
  <2>1. Alike(s, t, n, InOrder(A), InOrder(B), M, i, j)
    BY <1>0, <1>1, PairedWell
  <2> QED BY <2>1 DEF Alike
<1> HIDE DEF M
<1>3. Cost(s, t, A, B) = i + j - 2 * n + Cardinality({k \in 1..n : s[InOrder(A)[k]] # t[InOrder(B)[k]]})
  BY <1>0, <1>1 DEF Cost, n
<1>4. Cost(s, t, A, B) = PairCost(s, t, M, i, j)
  BY <1>2, <1>3 DEF PairCost
<1> QED BY <1>0, <1>2, <1>4 DEF n, M, SameCost

LEMMA DistanceIs ==
    ASSUME NEW s, NEW t, NEW i \in Nat, NEW j \in Nat, Len(s) = i, Len(t) = j, DOMAIN s = 1..i, DOMAIN t = 1..j,
           NEW d \in Int, Nearest(s, t, i, j, d)
    PROVE  Distance(s, t) = d
<1> DEFINE costs(n) == {Cost(s, t, A, B) : A \in kSubset(n, DOMAIN s), B \in kSubset(n, DOMAIN t)}
           least == Min({Len(s), Len(t)})
           C == UNION {costs(n) : n \in 0..least}
<1>1. Distance(s, t) = Min(C)
  BY DEF Distance
<1>2. least \in Nat /\ least = IF i <= j THEN i ELSE j
  BY LesserOf
<1> HIDE DEF least
<1>3. d \in C
  <2>1. PICK M : Pairing(M, i, j) /\ PairCost(s, t, M, i, j) = d
    BY DEF Nearest
  <2> DEFINE X == Firsts(M)
             Y == Seconds(M)
  <2>2. /\ X \subseteq 1..i /\ Y \subseteq 1..j /\ Cardinality(X) = Cardinality(Y)
        /\ M = Paired(Cardinality(X), InOrder(X), InOrder(Y))
    BY <2>1, PairingListed
  <2> HIDE DEF X, Y
  <2>3. Cost(s, t, X, Y) = d
    <3>1. SameCost(s, t, X, Y)
      BY <2>2, CostIs
    <3> QED BY <2>1, <2>2, <3>1 DEF SameCost
  <2>4. Cardinality(X) \in Nat /\ Cardinality(X) <= i /\ Cardinality(Y) <= j
    BY <2>2, ListedInOrder
  <2>5. X \in kSubset(Cardinality(X), DOMAIN s) /\ Y \in kSubset(Cardinality(X), DOMAIN t)
    BY <2>2 DEF kSubset
  <2>6. Cardinality(X) \in 0..least
    BY <1>2, <2>2, <2>4
  <2>7. d \in costs(Cardinality(X))
    BY <2>3, <2>5
  <2> QED BY <2>6, <2>7
<1>4. ASSUME NEW c_ \in C PROVE c_ \in Int /\ d <= c_
  <2>1. PICK n \in 0..least : c_ \in costs(n)
    OBVIOUS
  <2>2. PICK A \in kSubset(n, DOMAIN s), B \in kSubset(n, DOMAIN t) : c_ = Cost(s, t, A, B)
    BY <2>1
  <2>3. A \subseteq 1..i /\ B \subseteq 1..j /\ Cardinality(A) = Cardinality(B)
    BY <2>2 DEF kSubset
  <2> DEFINE M == Paired(Cardinality(A), InOrder(A), InOrder(B))
  <2>4. Pairing(M, i, j) /\ c_ = PairCost(s, t, M, i, j)
    <3>1. SameCost(s, t, A, B)
      <4>1. A \subseteq 1..Len(s) /\ B \subseteq 1..Len(t) /\ Cardinality(A) = Cardinality(B) /\ Len(s) \in Nat /\ Len(t) \in Nat
        BY <2>3
      <4> HIDE DEF C
      <4> QED BY <4>1, CostIs
    <3> QED BY <2>2, <3>1 DEF SameCost
  <2> HIDE DEF M
  <2>5. PairCost(s, t, M, i, j) \in Int
    BY <2>4, PairsFew
  <2> QED BY <2>4, <2>5 DEF Nearest
<1> HIDE DEF C
<1>5. \E x \in C : \A y \in C : x <= y
  BY <1>3, <1>4
<1>6. Min(C) \in C /\ \A y \in C : Min(C) <= y
  BY <1>5 DEF Min
<1>7. Min(C) \in Int /\ d <= Min(C) /\ Min(C) <= d
  BY <1>3, <1>4, <1>6
<1> QED BY <1>1, <1>7

LEMMA NormalTyped ==
    ASSUME NEW V, NEW q \in Seq(V)
    PROVE  Normal(q) \in Seq(V) /\ Len(Normal(q)) \in Nat /\ DOMAIN Normal(q) = 1..Len(Normal(q))
<1> DEFINE kept == {i \in DOMAIN q : q[i] # "?"}
<1>1. Len(q) \in Nat /\ DOMAIN q = 1..Len(q)
  OBVIOUS
<1>2. CASE kept = {}
  BY <1>2 DEF Normal
<1>3. CASE kept # {}
  <2>1. kept \subseteq Nat /\ \A y \in kept : y <= Len(q)
    BY <1>1
  <2>2. Max(kept) \in kept
    <3> HIDE DEF kept
    <3> QED BY <1>1, <1>3, <2>1, GreatestOf
  <2>3. Normal(q) = SubSeq(q, 1, Max(kept))
    BY <1>3 DEF Normal
  <2>4. Max(kept) \in 1..Len(q)
    BY <1>1, <2>2
  <2> HIDE DEF kept
  <2>5. SubSeq(q, 1, Max(kept)) \in Seq(V)
    BY <2>4
  <2> QED BY <2>3, <2>5
<1> QED BY <1>2, <1>3

\* The distance of two questions row by row is the least cost of an alignment.
LEMMA RowsGiveDistance ==
    ASSUME NEW V, NEW p \in Seq(V), NEW q \in Seq(V)
    PROVE  Levenshtein(Normal(p), Normal(q)) = Distance(Normal(p), Normal(q))
<1> DEFINE s == Normal(p)
           t == Normal(q)
<1>1. Len(s) \in Nat /\ DOMAIN s = 1..Len(s) /\ Len(t) \in Nat /\ DOMAIN t = 1..Len(t)
  BY NormalTyped
<1> HIDE DEF s, t
<1>2. Levenshtein(s, t) \in Int /\ Nearest(s, t, Len(s), Len(t), Levenshtein(s, t))
  BY <1>1, LevenshteinRight
<1>3. Distance(s, t) = Levenshtein(s, t)
  BY <1>1, <1>2, DistanceIs
<1> QED BY <1>3 DEF s, t


-----------------------------------------------------------------------------
(* Drafts: questions that ask the same, and duplicates *)

LEMMA SimilarBothWays ==
    ASSUME NEW V, NEW p \in Seq(V), NEW q \in Seq(V), Similar(p, q)
    PROVE  Similar(q, p)
<1> DEFINE s == Normal(p)
           t == Normal(q)
<1>1. Len(s) \in Nat /\ Len(t) \in Nat
  BY NormalTyped
<1> HIDE DEF s, t
<1>2. Levenshtein(s, t) = Levenshtein(t, s)
  BY <1>1, LevenshteinBothWays
<1>3. /\ {Len(s), Len(t)} = {Len(t), Len(s)}
      /\ ToSet(s) \cup ToSet(t) = ToSet(t) \cup ToSet(s)
      /\ ToSet(s) \cap ToSet(t) = ToSet(t) \cap ToSet(s)
  OBVIOUS
<1> DEFINE longer == Max({Len(s), Len(t)})
           all == Cardinality(ToSet(s) \cup ToSet(t))
           common == Cardinality(ToSet(s) \cap ToSet(t))
<1>4. Similar(p, q) <=>
        IF s = t THEN 100 > SimilarAbove
        ELSE 40 * (longer - Levenshtein(s, t)) * all + 60 * common * longer > SimilarAbove * longer * all
  BY DEF Similar, s, t
<1>5. Similar(q, p) <=>
        IF t = s THEN 100 > SimilarAbove
        ELSE 40 * (Max({Len(t), Len(s)}) - Levenshtein(t, s)) * Cardinality(ToSet(t) \cup ToSet(s))
             + 60 * Cardinality(ToSet(t) \cap ToSet(s)) * Max({Len(t), Len(s)})
             > SimilarAbove * Max({Len(t), Len(s)}) * Cardinality(ToSet(t) \cup ToSet(s))
  BY DEF Similar, s, t
<1>6. /\ Max({Len(t), Len(s)}) = longer /\ Cardinality(ToSet(t) \cup ToSet(s)) = all
      /\ Cardinality(ToSet(t) \cap ToSet(s)) = common
  BY <1>3
<1>7. Similar(q, p) <=>
        IF s = t THEN 100 > SimilarAbove
        ELSE 40 * (longer - Levenshtein(s, t)) * all + 60 * common * longer > SimilarAbove * longer * all
  BY <1>2, <1>5, <1>6
<1> QED BY <1>4, <1>7

DraftRecords ==
    [question : Seq(Characters), answer : Said, chunk_ids : Seq(Int), quality : Int, status : {"active"}]

\* What is kept of the first k drafts.
UniqueSoFar(generated, active, k, unique) ==
    /\ unique \in Seq(DraftRecords)
    /\ \A i \in DOMAIN unique : \E j \in DOMAIN generated :
          unique[i].answer = generated[j].answer /\ unique[i].chunk_ids = generated[j].chunk_ids
    /\ \A i, j \in DOMAIN unique : i # j => ~Similar(unique[j].question, unique[i].question)
    /\ \A i \in DOMAIN unique, q \in active : ~Similar(unique[i].question, q)
    /\ \A j \in 1..k : \E q \in {unique[i].question : i \in DOMAIN unique} \cup active :
          q = generated[j].question \/ Similar(generated[j].question, q)

LEMMA FoldedWell ==
    ASSUME NEW generated \in Seq(DraftRecords), NEW active, NEW k \in Nat, k + 1 \in DOMAIN generated, NEW unique,
           UniqueSoFar(generated, active, k, unique)
    PROVE  UniqueSoFar(generated, active, k + 1, Folded(unique, generated[k + 1], active))
<1> DEFINE new == generated[k + 1]
           alike == {i \in DOMAIN unique : Similar(new.question, unique[i].question)}
           next == Folded(unique, new, active)
<1>0. /\ unique \in Seq(DraftRecords) /\ new \in DraftRecords /\ k + 1 \in DOMAIN generated
      /\ Len(unique) \in Nat /\ DOMAIN unique = 1..Len(unique)
  BY DEF UniqueSoFar
<1>1. /\ \A i \in DOMAIN unique : \E j \in DOMAIN generated :
           unique[i].answer = generated[j].answer /\ unique[i].chunk_ids = generated[j].chunk_ids
      /\ \A i, j \in DOMAIN unique : i # j => ~Similar(unique[j].question, unique[i].question)
      /\ \A i \in DOMAIN unique, q \in active : ~Similar(unique[i].question, q)
  BY DEF UniqueSoFar
<1>2. \A j \in 1..k : \E q \in {unique[i].question : i \in DOMAIN unique} \cup active :
          q = generated[j].question \/ Similar(generated[j].question, q)
  BY DEF UniqueSoFar
<1>3. new.question \in Seq(Characters) /\ \A i \in DOMAIN unique : unique[i].question \in Seq(Characters)
  <2>1. \A i \in DOMAIN unique : unique[i] \in DraftRecords
    BY <1>0
  <2> QED BY <1>0, <2>1 DEF DraftRecords
<1>4. \A j \in 1..(k + 1) : j \in 1..k \/ j = k + 1
  OBVIOUS
<1> HIDE DEF new
<1>5. CASE \E q \in active : Similar(new.question, q)
  <2>1. next = unique
    BY <1>5 DEF Folded
  <2>2. \A j \in 1..(k + 1) : \E q \in {unique[i].question : i \in DOMAIN unique} \cup active :
          q = generated[j].question \/ Similar(generated[j].question, q)
    BY <1>2, <1>4, <1>5 DEF new
  <2> QED BY <1>0, <1>1, <2>1, <2>2 DEF UniqueSoFar, new
<1>6. CASE ~(\E q \in active : Similar(new.question, q)) /\ alike = {}
  <2>1. next = Append(unique, new)
    BY <1>6 DEF Folded
  <2> DEFINE u == Append(unique, new)
  <2>2. /\ u \in Seq(DraftRecords) /\ DOMAIN u = 1..(Len(unique) + 1)
        /\ \A i \in 1..Len(unique) : u[i] = unique[i]
        /\ u[Len(unique) + 1] = new
    BY <1>0, AppendProperties
  <2> HIDE DEF u
  <2>3. \A i \in DOMAIN u :
         \/ i \in DOMAIN unique /\ u[i] = unique[i]
         \/ i = Len(unique) + 1 /\ u[i] = new /\ i \notin DOMAIN unique
    <3> TAKE i \in DOMAIN u
    <3>1. i \in 1..(Len(unique) + 1)
      BY <2>2
    <3>2. CASE i = Len(unique) + 1
      <4>1. i \notin 1..Len(unique)
        BY <1>0, <3>2
      <4> QED BY <1>0, <2>2, <3>2, <4>1
    <3>3. CASE i # Len(unique) + 1
      <4>1. i \in 1..Len(unique)
        BY <1>0, <3>1, <3>3
      <4>2. i \in DOMAIN unique
        BY <1>0, <4>1
      <4>3. u[i] = unique[i]
        BY <2>2, <4>1
      <4> QED BY <4>2, <4>3
    <3> QED BY <3>2, <3>3
  <2>4. \A i \in DOMAIN u : \E j \in DOMAIN generated : u[i].answer = generated[j].answer /\ u[i].chunk_ids = generated[j].chunk_ids
    BY <1>0, <1>1, <2>3 DEF new
  <2>5. \A i \in DOMAIN unique : ~Similar(new.question, unique[i].question) /\ ~Similar(unique[i].question, new.question)
    BY <1>3, <1>6, SimilarBothWays
  <2>6. \A i, j \in DOMAIN u : i # j => ~Similar(u[j].question, u[i].question)
    BY <1>1, <2>3, <2>5
  <2>7. \A i \in DOMAIN u, q \in active : ~Similar(u[i].question, q)
    BY <1>1, <1>6, <2>3
  <2>8. \A j \in 1..(k + 1) : \E q \in {u[i].question : i \in DOMAIN u} \cup active :
          q = generated[j].question \/ Similar(generated[j].question, q)
    <3>1. new.question \in {u[i].question : i \in DOMAIN u}
      <4>1. Len(unique) + 1 \in DOMAIN u
        BY <1>0, <2>2
      <4> QED BY <2>2, <4>1
    <3>2. {unique[i].question : i \in DOMAIN unique} \subseteq {u[i].question : i \in DOMAIN u}
      <4>1. \A i \in DOMAIN unique : i \in DOMAIN u /\ u[i] = unique[i]
        BY <1>0, <2>2
      <4> QED BY <4>1
    <3> QED BY <1>2, <1>4, <3>1, <3>2 DEF new
  <2>9. UniqueSoFar(generated, active, k + 1, u)
    BY <2>2, <2>4, <2>6, <2>7, <2>8 DEF UniqueSoFar
  <2> QED BY <2>1, <2>9 DEF u, new
<1>7. CASE ~(\E q \in active : Similar(new.question, q)) /\ alike # {}
  <2> DEFINE m == Min(alike)
             kept == unique[m]
             merged == [new EXCEPT !.question = kept.question]
             u == [unique EXCEPT ![m] = merged]
  <2>1. alike \subseteq Nat
    BY <1>0
  <2>2. m \in alike
    <3> HIDE DEF alike
    <3> QED BY <1>7, <2>1, LeastOf
  <2>3. m \in DOMAIN unique /\ Similar(new.question, kept.question)
    BY <2>2
  <2>4. next = u
    BY <1>7 DEF Folded, Replaced
  <2> HIDE DEF m, alike
  <2>5. merged \in DraftRecords /\ merged.question = kept.question /\ merged.answer = new.answer /\ merged.chunk_ids = new.chunk_ids
    <3>1. kept.question \in Seq(Characters)
      BY <1>3, <2>3
    <3> HIDE DEF kept
    <3> QED BY <1>0, <3>1 DEF DraftRecords
  <2> HIDE DEF merged
  <2>6. u \in Seq(DraftRecords) /\ DOMAIN u = DOMAIN unique /\ u[m] = merged /\ \A i \in DOMAIN unique : i # m => u[i] = unique[i]
    BY <1>0, <2>3, <2>5
  <2> HIDE DEF u
  <2>7. \A i \in DOMAIN u : u[i].question = unique[i].question
    BY <2>5, <2>6
  <2>8. \A i \in DOMAIN u : \E j \in DOMAIN generated : u[i].answer = generated[j].answer /\ u[i].chunk_ids = generated[j].chunk_ids
    BY <1>0, <1>1, <2>5, <2>6 DEF new
  <2>9. \A i, j \in DOMAIN u : i # j => ~Similar(u[j].question, u[i].question)
    BY <1>1, <2>6, <2>7
  <2>10. \A i \in DOMAIN u, q \in active : ~Similar(u[i].question, q)
    BY <1>1, <2>6, <2>7
  <2>11. \A j \in 1..(k + 1) : \E q \in {u[i].question : i \in DOMAIN u} \cup active :
          q = generated[j].question \/ Similar(generated[j].question, q)
    <3>1. {u[i].question : i \in DOMAIN u} = {unique[i].question : i \in DOMAIN unique}
      BY <2>6, <2>7
    <3>2. kept.question \in {unique[i].question : i \in DOMAIN unique}
      BY <2>3
    <3> HIDE DEF kept
    <3> QED BY <1>2, <1>4, <2>3, <3>1, <3>2 DEF new
  <2>12. UniqueSoFar(generated, active, k + 1, u)
    BY <2>6, <2>8, <2>9, <2>10, <2>11 DEF UniqueSoFar
  <2> QED BY <2>4, <2>12 DEF new
<1> QED BY <1>5, <1>6, <1>7

LEMMA UniqueWell ==
    ASSUME NEW generated \in Seq(DraftRecords), NEW active
    PROVE  UniqueSoFar(generated, active, Len(generated), Unique(generated, active))
<1> DEFINE n == Len(generated)
           V == Seq(DraftRecords)
           unique[k \in 0..Len(generated)] ==
               IF k = 0 THEN <<>> ELSE Folded(unique[k - 1], generated[k], active)
           step == [p \in (1..n) \X V |-> Folded(p[2], generated[p[1]], active)]
<1>1. n \in Nat /\ <<>> \in V /\ DOMAIN generated = 1..n
  OBVIOUS
<1>2. ASSUME NEW i \in 1..n, NEW x \in V PROVE Folded(x, generated[i], active) \in V
  <2> DEFINE new == generated[i]
             alike == {j \in DOMAIN x : Similar(new.question, x[j].question)}
  <2>1. new \in DraftRecords /\ x \in Seq(DraftRecords) /\ DOMAIN x = 1..Len(x)
    OBVIOUS
  <2> HIDE DEF new
  <2>2. Append(x, new) \in Seq(DraftRecords)
    BY <2>1
  <2>3. CASE alike # {}
    <3> DEFINE m == Min(alike)
    <3>1. alike \subseteq Nat
      BY <2>1
    <3>2. m \in alike
      <4> HIDE DEF alike
      <4> QED BY <2>3, <3>1, LeastOf
    <3>3. m \in DOMAIN x /\ x[m] \in DraftRecords
      BY <2>1, <3>2
    <3> HIDE DEF m, alike
    <3>4. [new EXCEPT !.question = x[m].question] \in DraftRecords
      BY <2>1, <3>3 DEF DraftRecords
    <3>5. [x EXCEPT ![m] = [new EXCEPT !.question = x[m].question]] \in Seq(DraftRecords)
      BY <2>1, <3>3, <3>4
    <3>6. [x EXCEPT ![m] = Replaced(@, new)] \in Seq(DraftRecords)
      BY <3>5 DEF Replaced
    <3> QED BY <2>1, <2>2, <3>6 DEF Folded, m, alike, new
  <2>4. CASE alike = {}
    BY <2>1, <2>2, <2>4 DEF Folded, new
  <2> QED BY <2>3, <2>4
<1>3. step \in [(1..n) \X V -> V]
  <2> HIDE DEF V
  <2> QED BY <1>2
<1>4. \E g \in [0..n -> V] : BuiltBy(g, <<>>, step, n)
  <2> HIDE DEF step, unique, V, n
  <2> QED BY <1>1, <1>3, StepByStep
<1>5. PICK g \in [0..n -> V] : g[0] = <<>> /\ \A i \in 1..n : g[i] = step[<<i, g[i - 1]>>]
  BY <1>4 DEF BuiltBy
<1>6. \A i \in 0..n : i # 0 => i \in 1..n /\ i - 1 \in 0..n /\ g[i - 1] \in V
  <2> HIDE DEF V
  <2> QED BY <1>1, <1>5
<1>7. \A i \in 1..n : step[<<i, g[i - 1]>>] = Folded(g[i - 1], generated[i], active)
  <2> HIDE DEF V
  <2>1. \A i \in 1..n : i \in 0..n /\ i # 0
    BY <1>1
  <2> QED BY <1>6, <2>1
<1> HIDE DEF step, V
<1>8. g = [k \in 0..n |-> IF k = 0 THEN <<>> ELSE Folded(g[k - 1], generated[k], active)]
  BY <1>5, <1>6, <1>7
<1>9. unique = [k \in 0..n |-> IF k = 0 THEN <<>> ELSE Folded(unique[k - 1], generated[k], active)]
  BY <1>8
<1>10. Unique(generated, active) = unique[n]
  BY DEF Unique
<1> HIDE DEF unique
<1> DEFINE T == {k \in Nat : UniqueSoFar(generated, active, k, unique[k])}
<1>11. 0 \in T
  <2>1. unique[0] = <<>>
    BY <1>1, <1>9
  <2> QED BY <2>1 DEF UniqueSoFar
<1>12. ASSUME NEW k \in 0..n, k \in T, k + 1 <= n PROVE k + 1 \in T
  <2>1. k + 1 \in 0..n /\ k + 1 # 0 /\ (k + 1) - 1 = k /\ k \in Nat /\ k + 1 \in DOMAIN generated
    BY <1>12
  <2>2. unique[k + 1] = Folded(unique[k], generated[k + 1], active)
    BY <1>9, <2>1
  <2> QED BY <1>12, <2>1, <2>2, FoldedWell
<1>13. \A k \in 0..n : k \in T
  <2> HIDE DEF T, n
  <2> QED BY <1>1, <1>11, <1>12, Along
<1> QED BY <1>1, <1>10, <1>13


-----------------------------------------------------------------------------
(* Drafts: what generation makes of the answers of the model *)

Items == [question : Seq(Characters), answer : Said, refs : Seq(Int)]
IsBatch(batch) == \E lo, hi \in Int : batch = lo..hi

LEMMA ReplyTyped == ASSUME NEW reply \in ModelReplies PROVE reply \in Seq(Items)
BY DraftsAssumption DEF Items

\* What is used of an item cites the batch.
Cites(draft, item, batch) ==
    LET refs == ValidRefs(item, batch) IN
    /\ item.answer = draft.answer
    /\ draft.chunk_ids # <<>> /\ ToSet(draft.chunk_ids) \subseteq batch
    /\ \A k \in DOMAIN draft.chunk_ids : draft.chunk_ids[k] = Min(batch) + refs[k] - 1

LEMMA LeastOfBatch ==
    ASSUME NEW lo \in Int, NEW hi \in Int, lo <= hi
    PROVE  Min(lo..hi) = lo /\ Cardinality(lo..hi) = hi - lo + 1
<1>1. \E x \in lo..hi : \A y \in lo..hi : x <= y
  BY lo \in lo..hi
<1>2. Min(lo..hi) \in lo..hi /\ \A y \in lo..hi : Min(lo..hi) <= y
  BY <1>1 DEF Min
<1>3. lo \in lo..hi
  OBVIOUS
<1>4. Min(lo..hi) = lo
  BY <1>2, <1>3
<1> QED BY <1>4, FS_Interval

LEMMA DraftWell ==
    ASSUME NEW item \in Items, NEW batch, IsBatch(batch), Usable(item, batch)
    PROVE  /\ DraftOf(item, batch) \in DraftRecords /\ DraftOf(item, batch).question = item.question
           /\ Cites(DraftOf(item, batch), item, batch)
<1> DEFINE refs == ValidRefs(item, batch)
           I == {i \in DOMAIN item.refs : item.refs[i] \in 1..Cardinality(batch)}
           n == Min({3, Len(refs)})
           ids == [i \in 1..n |-> Min(batch) + refs[i] - 1]
<1>1. item.question \in Seq(Characters) /\ item.answer \in Said /\ item.refs \in Seq(Int)
  BY DEF Items
<1>2. refs = Sift(item.refs, I)
  BY DEF ValidRefs
<1>3. /\ refs \in Seq(Int) /\ Len(refs) \in Nat /\ DOMAIN refs = 1..Len(refs)
      /\ SiftedBy(item.refs, I, refs, Sifted(item.refs, I))
  <2>1. /\ Sift(item.refs, I) \in Seq(Int) /\ Len(Sift(item.refs, I)) \in Nat
        /\ DOMAIN Sift(item.refs, I) = 1..Len(Sift(item.refs, I))
        /\ SiftedBy(item.refs, I, Sift(item.refs, I), Sifted(item.refs, I))
    <3> HIDE DEF I, refs
    <3> QED BY <1>1, SiftWell
  <2> HIDE DEF refs
  <2> QED BY <1>2, <2>1
<1>4. \A k \in 1..Len(refs) : refs[k] \in 1..Cardinality(batch)
  BY <1>3 DEF SiftedBy
<1>5. refs # <<>>
  BY DEF Usable
<1>6. Len(refs) > 0
  BY <1>3, <1>5
<1> DEFINE draft == DraftOf(item, batch)
<1>d. draft = [question |-> item.question, answer |-> item.answer, chunk_ids |-> ids,
               quality |-> IF Len(refs) >= 2 THEN 78 ELSE 72, status |-> "active"]
  BY DEF DraftOf
<1> HIDE DEF refs, I
<1>7. n \in Nat /\ n > 0 /\ n <= Len(refs)
  BY <1>3, <1>6, LesserOf
<1> HIDE DEF n
<1>8. PICK lo \in Int, hi \in Int : batch = lo..hi
  BY DEF IsBatch
<1>9. lo <= hi
  <2> SUFFICES ASSUME hi < lo PROVE FALSE
    BY <1>8
  <2>1. Cardinality(batch) = 0
    BY <1>8, FS_Interval
  <2>2. refs[1] \in 1..Cardinality(batch)
    BY <1>3, <1>4, <1>6
  <2> QED BY <2>1, <2>2
<1>10. Min(batch) = lo /\ Cardinality(batch) = hi - lo + 1
  BY <1>8, <1>9, LeastOfBatch
<1>11. \A k \in 1..n : ids[k] = Min(batch) + refs[k] - 1 /\ ids[k] \in batch /\ ids[k] \in Int
  <2> TAKE k \in 1..n
  <2>1. k \in 1..Len(refs)
    BY <1>3, <1>7
  <2>2. refs[k] \in 1..(hi - lo + 1)
    BY <1>4, <1>10, <2>1
  <2> QED BY <1>8, <1>10, <2>2
<1>12. ids \in [1..n -> Int] /\ DOMAIN ids = 1..n
  <2>1. \A k \in 1..n : Min(batch) + refs[k] - 1 \in Int
    BY <1>11
  <2> QED BY <2>1
<1> HIDE DEF ids
<1>13. ids \in Seq(Int) /\ ids # <<>>
  <2>1. ids \in Seq(Int) /\ Len(ids) = n
    BY <1>7, <1>12
  <2> QED BY <1>7, <2>1
<1>14. ToSet(ids) \subseteq batch
  BY <1>11, <1>12 DEF ToSet
<1>15. draft \in DraftRecords
  BY <1>1, <1>13, <1>d DEF DraftRecords
<1>16. Cites(draft, item, batch)
  BY <1>11, <1>12, <1>13, <1>14, <1>d DEF Cites, refs
<1> QED BY <1>d, <1>15, <1>16

LEMMA ParsedWell ==
    ASSUME NEW reply \in Seq(Items), NEW batch, IsBatch(batch)
    PROVE  /\ Parsed(reply, batch) \in Seq(DraftRecords)
           /\ \A i \in DOMAIN Parsed(reply, batch) : \E j \in DOMAIN reply :
                 Usable(reply[j], batch) /\ Parsed(reply, batch)[i] = DraftOf(reply[j], batch)
           /\ \A j \in DOMAIN reply : Usable(reply[j], batch) =>
                 \E i \in DOMAIN Parsed(reply, batch) : Parsed(reply, batch)[i] = DraftOf(reply[j], batch)
<1> DEFINE I == {i \in DOMAIN reply : Usable(reply[i], batch)}
           items == Sift(reply, I)
           at == Sifted(reply, I)
           found == [i \in DOMAIN items |-> DraftOf(items[i], batch)]
<1>1. Parsed(reply, batch) = found
  BY DEF Parsed
<1>2. /\ items \in Seq(Items) /\ Len(items) \in Nat /\ DOMAIN items = 1..Len(items)
      /\ Places(at, Len(items), I \cap DOMAIN reply) /\ SiftedBy(reply, I, items, at)
  BY SiftWell
<1>3. \A k \in 1..Len(items) : at[k] \in DOMAIN reply /\ Usable(reply[at[k]], batch) /\ items[k] = reply[at[k]]
  BY <1>2 DEF SiftedBy
<1>4. ASSUME NEW j \in DOMAIN reply, Usable(reply[j], batch) PROVE \E k \in 1..Len(items) : items[k] = reply[j]
  <2>1. j \in I \cap DOMAIN reply
    BY <1>4
  <2>2. PICK k \in 1..Len(items) : at[k] = j
    BY <1>2, <2>1 DEF Places
  <2> QED BY <1>3, <2>2
<1> HIDE DEF items, at
<1>5. \A k \in 1..Len(items) : items[k] \in Items /\ Usable(items[k], batch)
  BY <1>2, <1>3
<1>6. \A k \in 1..Len(items) : DraftOf(items[k], batch) \in DraftRecords
  BY <1>5, DraftWell
<1>7. found \in [1..Len(items) -> DraftRecords]
  BY <1>2, <1>6
<1>8. found \in Seq(DraftRecords) /\ DOMAIN found = 1..Len(items) /\ \A k \in 1..Len(items) : found[k] = DraftOf(items[k], batch)
  BY <1>2, <1>7
<1> HIDE DEF found
<1>9. \A i \in DOMAIN found : \E j \in DOMAIN reply : Usable(reply[j], batch) /\ found[i] = DraftOf(reply[j], batch)
  BY <1>3, <1>8
<1>10. \A j \in DOMAIN reply : Usable(reply[j], batch) => \E i \in DOMAIN found : found[i] = DraftOf(reply[j], batch)
  BY <1>4, <1>8
<1> QED BY <1>1, <1>8, <1>9, <1>10

LEMMA SavedWell ==
    ASSUME NEW unique \in Seq(DraftRecords)
    PROVE  /\ \A i \in DOMAIN Saved(unique) : \E j \in DOMAIN unique :
                 /\ Saved(unique)[i].answer = unique[j].answer
                 /\ Saved(unique)[i].chunk_ids = unique[j].chunk_ids
           /\ \A i \in DOMAIN Saved(unique) :
                 \/ Saved(unique)[i].status = "pending_review"
                 \/ ~Sensitive(Saved(unique)[i]) /\ ~Strong(Saved(unique)[i].question)
<1> DEFINE I == {i \in DOMAIN unique : Passes(unique[i])}
           passed == Sift(unique, I)
           at == Sifted(unique, I)
           saved == [i \in DOMAIN passed |-> Reviewed(passed[i])]
<1>1. Saved(unique) = saved
  BY DEF Saved
<1>2. passed \in Seq(DraftRecords) /\ DOMAIN passed = 1..Len(passed) /\ SiftedBy(unique, I, passed, at)
  BY SiftWell
<1>3. \A k \in DOMAIN passed : passed[k] \in DraftRecords /\ at[k] \in DOMAIN unique /\ passed[k] = unique[at[k]]
  BY <1>2 DEF SiftedBy
<1> HIDE DEF passed, at
<1>4. \A k \in DOMAIN saved : k \in DOMAIN passed /\ saved[k] = Reviewed(passed[k])
  OBVIOUS
<1> HIDE DEF saved
<1>5. ASSUME NEW d \in DraftRecords
      PROVE  /\ Reviewed(d).answer = d.answer /\ Reviewed(d).chunk_ids = d.chunk_ids /\ Reviewed(d).question = d.question
             /\ \/ Reviewed(d).status = "pending_review"
                \/ ~Sensitive(Reviewed(d)) /\ ~Strong(Reviewed(d).question)
  <2> DEFINE r == Reviewed(d)
             held == IF Sensitive(d) THEN "pending_review" ELSE d.status
  <2>1. r = [question |-> d.question, answer |-> d.answer, chunk_ids |-> d.chunk_ids, quality |-> d.quality,
             is_compound |-> Compound(d.question),
             status |-> IF Strong(d.question) /\ held = "active" THEN "pending_review" ELSE held]
    BY DEF Reviewed
  <2>2. d.status = "active"
    BY DEF DraftRecords
  <2> HIDE DEF r
  <2>3. r.question = d.question /\ r.answer = d.answer /\ r.chunk_ids = d.chunk_ids
    BY <2>1
  <2>4. r.status = IF Strong(d.question) /\ held = "active" THEN "pending_review" ELSE held
    BY <2>1
  <2>5. Sensitive(r) <=> Sensitive(d)
    BY <2>3 DEF Sensitive
  <2>6. r.status = "pending_review" \/ (~Sensitive(r) /\ ~Strong(r.question))
    <3>1. CASE Sensitive(d)
      <4>1. held = "pending_review"
        BY <3>1
      <4> HIDE DEF held
      <4> QED BY <2>4, <4>1
    <3>2. CASE ~Sensitive(d) /\ Strong(d.question)
      <4>1. held = "active"
        BY <2>2, <3>2
      <4> HIDE DEF held
      <4> QED BY <2>4, <3>2, <4>1
    <3>3. CASE ~Sensitive(d) /\ ~Strong(d.question)
      <4>1. ~Sensitive(r)
        BY <2>5, <3>3
      <4> QED BY <2>3, <3>3, <4>1
    <3> QED BY <3>1, <3>2, <3>3
  <2> QED BY <2>3, <2>6 DEF r
<1>6. \A i \in DOMAIN saved : \E j \in DOMAIN unique : saved[i].answer = unique[j].answer /\ saved[i].chunk_ids = unique[j].chunk_ids
  BY <1>3, <1>4, <1>5
<1>7. \A i \in DOMAIN saved : saved[i].status = "pending_review" \/ (~Sensitive(saved[i]) /\ ~Strong(saved[i].question))
  <2> TAKE i \in DOMAIN saved
  <2>1. saved[i] = Reviewed(passed[i]) /\ passed[i] \in DraftRecords
    BY <1>3, <1>4
  <2>2. \/ Reviewed(passed[i]).status = "pending_review"
        \/ ~Sensitive(Reviewed(passed[i])) /\ ~Strong(Reviewed(passed[i]).question)
    BY <1>5, <2>1
  <2> QED BY <2>1, <2>2
<1> QED BY <1>1, <1>6, <1>7


-----------------------------------------------------------------------------
(* Drafts: the invariant *)

DraftingStates ==
    [document : Documents, active : ActiveSets, stage : {"calling", "unique", "saved"}, batch : Int, tries : Int]

DraftsInv ==
    /\ drafting \in DraftingStates
    /\ \A s \in stated : s.item \in Items /\ Usable(s.item, s.batch)
    /\ drafting.stage # "saved" => drafts \in Seq(DraftRecords)
    /\ \A i \in DOMAIN drafts : \E s \in stated : Cites(drafts[i], s.item, s.batch)
    /\ drafting.stage = "calling" => \A s \in stated : \E i \in DOMAIN drafts : drafts[i].question = s.item.question
    /\ DraftsApart
    /\ DraftsWait
    /\ DistanceRight

LEMMA ActiveTyped == ASSUME NEW active \in ActiveSets PROVE \A q \in active : q \in Seq(Characters)
BY DraftsAssumption

LEMMA DraftsInvCites == DraftsInv => DraftsKept
<1> SUFFICES ASSUME DraftsInv PROVE DraftsKept
  OBVIOUS
<1>1. \A i \in DOMAIN drafts : \E s \in stated : Cites(drafts[i], s.item, s.batch)
  BY DEF DraftsInv
<1>2. DraftsCite
  <2> SUFFICES ASSUME NEW i \in DOMAIN drafts
               PROVE  \E s \in stated :
                        LET refs == ValidRefs(s.item, s.batch) IN
                        /\ s.item.answer = drafts[i].answer
                        /\ drafts[i].chunk_ids # <<>> /\ ToSet(drafts[i].chunk_ids) \subseteq s.batch
                        /\ \A k \in DOMAIN drafts[i].chunk_ids : drafts[i].chunk_ids[k] = Min(s.batch) + refs[k] - 1
    BY DEF DraftsCite
  <2>1. PICK s \in stated : Cites(drafts[i], s.item, s.batch)
    BY <1>1
  <2> WITNESS s \in stated
  <2> QED BY <2>1 DEF Cites
<1> QED BY <1>2 DEF DraftsInv, DraftsKept

LEMMA DraftsStart == DraftsInit => DraftsInv
<1> SUFFICES ASSUME DraftsInit PROVE DraftsInv
  OBVIOUS
<1>1. PICK doc \in Documents, active \in ActiveSets :
         drafting = [document |-> doc, active |-> active, stage |-> "calling", batch |-> 1, tries |-> 0]
  BY DEF DraftsInit
<1>2. drafting.stage = "calling" /\ drafts = <<>> /\ stated = {}
  BY <1>1 DEF DraftsInit
<1>3. /\ drafting \in DraftingStates
      /\ drafts \in Seq(DraftRecords) /\ DOMAIN drafts = {}
  BY <1>1, <1>2 DEF DraftingStates
<1> QED BY <1>2, <1>3 DEF DraftsInv, DraftsApart, DraftsWait, DistanceRight

LEMMA DraftingTyped ==
    ASSUME NEW d \in DraftingStates
    PROVE  /\ d.document \in Documents /\ d.active \in ActiveSets /\ d.batch \in Int
           /\ [d EXCEPT !.batch = @ + 1, !.tries = 0] \in DraftingStates
           /\ [d EXCEPT !.batch = @ + 1, !.tries = 0].stage = d.stage
           /\ [d EXCEPT !.tries = 1] \in DraftingStates
           /\ [d EXCEPT !.tries = 1].stage = d.stage
           /\ [d EXCEPT !.stage = "unique"] \in DraftingStates
           /\ [d EXCEPT !.stage = "unique"].stage = "unique"
           /\ [d EXCEPT !.stage = "unique"].active = d.active
           /\ [d EXCEPT !.stage = "saved"] \in DraftingStates
           /\ [d EXCEPT !.stage = "saved"].stage = "saved"
<1>1. d.document \in Documents /\ d.active \in ActiveSets /\ d.batch \in Int
  BY DEF DraftingStates
<1>2. d.batch + 1 \in Int
  BY <1>1
<1>3. [d EXCEPT !.batch = @ + 1, !.tries = 0] \in DraftingStates
  <2> DEFINE n == d.batch + 1
             e == [d EXCEPT !.batch = n]
  <2>1. n \in Int
    BY <1>2
  <2> HIDE DEF n
  <2>2. e \in DraftingStates
    BY <2>1 DEF DraftingStates
  <2>3. [d EXCEPT !.batch = n, !.tries = 0] = [e EXCEPT !.tries = 0]
    BY DEF DraftingStates
  <2> HIDE DEF e
  <2>4. [e EXCEPT !.tries = 0] \in DraftingStates
    BY <2>2 DEF DraftingStates
  <2>5. [d EXCEPT !.batch = n, !.tries = 0] \in DraftingStates
    BY <2>3, <2>4
  <2> QED BY <2>5 DEF n
<1>4. [d EXCEPT !.batch = @ + 1, !.tries = 0].stage = d.stage
  BY DEF DraftingStates
<1>5. /\ [d EXCEPT !.tries = 1] \in DraftingStates
      /\ [d EXCEPT !.tries = 1].stage = d.stage
  BY DEF DraftingStates
<1>6. /\ [d EXCEPT !.stage = "unique"] \in DraftingStates
      /\ [d EXCEPT !.stage = "unique"].stage = "unique"
      /\ [d EXCEPT !.stage = "unique"].active = d.active
  BY DEF DraftingStates
<1>7. /\ [d EXCEPT !.stage = "saved"] \in DraftingStates
      /\ [d EXCEPT !.stage = "saved"].stage = "saved"
  BY DEF DraftingStates
<1> QED BY <1>1, <1>3, <1>4, <1>5, <1>6, <1>7

\* A step that leaves the drafts alone while the model is called.
LEMMA CallingOn ==
    ASSUME DraftsInv, UNCHANGED <<drafts, stated>>,
           drafting' \in DraftingStates,
           drafting.stage = "calling", drafting'.stage = "calling"
    PROVE  DraftsInv'
<1>1. DraftsApart' /\ DraftsWait' /\ DistanceRight'
  BY DEF DraftsApart, DraftsWait, DistanceRight
<1>2. \A i \in DOMAIN drafts : \E s \in stated : Cites(drafts[i], s.item, s.batch)
  BY DEF DraftsInv
<1>3. \A i \in DOMAIN drafts' : \E s \in stated' : Cites(drafts'[i], s.item, s.batch)
  BY <1>2
<1>4. \A s \in stated' : s.item \in Items /\ Usable(s.item, s.batch)
  BY DEF DraftsInv
<1>5. drafts' \in Seq(DraftRecords) /\ \A s \in stated' : \E i \in DOMAIN drafts' : drafts'[i].question = s.item.question
  BY DEF DraftsInv
<1> QED BY <1>1, <1>3, <1>4, <1>5 DEF DraftsInv

LEMMA ModelAnswersKeeps == DraftsInv /\ (\E reply \in ModelReplies : ModelAnswers(reply)) => DraftsInv'
<1> SUFFICES ASSUME DraftsInv, NEW reply \in ModelReplies, ModelAnswers(reply) PROVE DraftsInv'
  OBVIOUS
<1> DEFINE batch == ChunksOfBatch(Document_, drafting.batch)
           found == Parsed(reply, batch)
           new == {[item |-> reply[i], batch |-> batch] : i \in {j \in DOMAIN reply : Usable(reply[j], batch)}}
           all == drafts \o found
<1>1. /\ drafting.stage = "calling" /\ drafting' = [drafting EXCEPT !.batch = @ + 1, !.tries = 0]
      /\ drafts' = drafts \o found /\ stated' = stated \cup new
  BY DEF ModelAnswers, Calling, NextBatch
<1>2. /\ drafting \in DraftingStates
      /\ drafts \in Seq(DraftRecords)
      /\ \A s \in stated : s.item \in Items /\ Usable(s.item, s.batch)
      /\ \A s \in stated : \E i \in DOMAIN drafts : drafts[i].question = s.item.question
  BY <1>1 DEF DraftsInv
<1>3. \A i \in DOMAIN drafts : \E s \in stated : Cites(drafts[i], s.item, s.batch)
  BY DEF DraftsInv
<1>4. reply \in Seq(Items)
  BY ReplyTyped
<1>5. IsBatch(batch)
  <2> DEFINE size == BatchSize_
             top == Min({drafting.batch * size, Document_.chunks})
             first == ((drafting.batch - 1) * size) + 1
  <2>1. BatchOf \in Nat /\ Document_.chunks \in Int /\ drafting.batch \in Int
    <3>1. drafting.document \in Documents /\ drafting.batch \in Int
      BY <1>2, DraftingTyped
    <3>2. BatchOf \in Nat /\ \A doc \in Documents : doc.chunks \in Nat \ {0}
      BY DraftsAssumption
    <3> QED BY <3>1, <3>2 DEF Document_
  <2>2. size \in Int
    BY <2>1, GreaterOf DEF BatchSize_
  <2>3. batch = first..top
    BY DEF ChunksOfBatch
  <2> HIDE DEF size
  <2>4. drafting.batch * size \in Int /\ first \in Int
    BY <2>1, <2>2
  <2>5. top \in Int
    BY <2>1, <2>4, LesserOf
  <2> HIDE DEF first, top, batch
  <2> QED BY <2>3, <2>4, <2>5 DEF IsBatch
<1> HIDE DEF batch
<1>6. /\ found \in Seq(DraftRecords)
      /\ \A i \in DOMAIN found : \E j \in DOMAIN reply : Usable(reply[j], batch) /\ found[i] = DraftOf(reply[j], batch)
      /\ \A j \in DOMAIN reply : Usable(reply[j], batch) => \E i \in DOMAIN found : found[i] = DraftOf(reply[j], batch)
  BY <1>4, <1>5, ParsedWell
<1>7. \A j \in DOMAIN reply : reply[j] \in Items
  BY <1>4
<1> HIDE DEF found
<1>8. /\ all \in Seq(DraftRecords) /\ DOMAIN all = 1..(Len(drafts) + Len(found))
      /\ DOMAIN drafts = 1..Len(drafts) /\ DOMAIN found = 1..Len(found) /\ Len(drafts) \in Nat /\ Len(found) \in Nat
      /\ \A i \in 1..(Len(drafts) + Len(found)) : all[i] = IF i <= Len(drafts) THEN drafts[i] ELSE found[i - Len(drafts)]
  BY <1>2, <1>6, ConcatProperties
<1> HIDE DEF all
<1>9. \A i \in DOMAIN all : (\E k \in DOMAIN drafts : all[i] = drafts[k]) \/ (\E k \in DOMAIN found : all[i] = found[k])
  <2> TAKE i \in DOMAIN all
  <2>1. CASE i <= Len(drafts)
    <3>1. i \in DOMAIN drafts /\ all[i] = drafts[i]
      BY <1>8, <2>1
    <3> QED BY <3>1
  <2>2. CASE i > Len(drafts)
    <3>1. i - Len(drafts) \in DOMAIN found /\ all[i] = found[i - Len(drafts)]
      BY <1>8, <2>2
    <3> QED BY <3>1
  <2>3. i \in Int
    BY <1>8
  <2> QED BY <1>8, <2>1, <2>2, <2>3
<1>10. \A k \in DOMAIN drafts : \E i \in DOMAIN all : all[i] = drafts[k]
  <2> TAKE k \in DOMAIN drafts
  <2>1. k \in DOMAIN all /\ all[k] = drafts[k]
    BY <1>8
  <2> QED BY <2>1
<1>11. \A k \in DOMAIN found : \E i \in DOMAIN all : all[i] = found[k]
  <2> TAKE k \in DOMAIN found
  <2>1. Len(drafts) + k \in DOMAIN all /\ all[Len(drafts) + k] = found[k]
    BY <1>8
  <2> QED BY <2>1
<1>12. \A j \in DOMAIN reply : Usable(reply[j], batch) => [item |-> reply[j], batch |-> batch] \in new
  OBVIOUS
<1>13. \A s \in new : \E j \in DOMAIN reply : Usable(reply[j], batch) /\ s.item = reply[j] /\ s.batch = batch
  OBVIOUS
<1> HIDE DEF new
<1>14. ASSUME NEW i \in DOMAIN all PROVE \E s \in stated \cup new : Cites(all[i], s.item, s.batch)
  <2>1. CASE \E k \in DOMAIN drafts : all[i] = drafts[k]
    BY <1>3, <2>1
  <2>2. CASE \E k \in DOMAIN found : all[i] = found[k]
    <3>1. PICK k \in DOMAIN found : all[i] = found[k]
      BY <2>2
    <3>2. PICK j \in DOMAIN reply : Usable(reply[j], batch) /\ found[k] = DraftOf(reply[j], batch)
      BY <1>6
    <3>3. Cites(found[k], reply[j], batch)
      BY <1>5, <1>7, <3>2, DraftWell
    <3>4. PICK s \in new : s = [item |-> reply[j], batch |-> batch]
      BY <1>12, <3>2
    <3>5. s.item = reply[j] /\ s.batch = batch
      BY <3>4
    <3> QED BY <3>1, <3>3, <3>5
  <2> QED BY <1>9, <2>1, <2>2
<1>15. ASSUME NEW s \in stated \cup new PROVE s.item \in Items /\ Usable(s.item, s.batch)
  BY <1>2, <1>7, <1>13
<1>16. ASSUME NEW s \in stated \cup new PROVE \E i \in DOMAIN all : all[i].question = s.item.question
  <2>1. CASE s \in stated
    BY <1>2, <1>10, <2>1
  <2>2. CASE s \in new
    <3>1. PICK j \in DOMAIN reply : Usable(reply[j], batch) /\ s.item = reply[j]
      BY <1>13, <2>2
    <3>2. PICK k \in DOMAIN found : found[k] = DraftOf(reply[j], batch)
      BY <1>6, <3>1
    <3>3. found[k].question = reply[j].question
      BY <1>5, <1>7, <3>1, <3>2, DraftWell
    <3> QED BY <1>11, <3>1, <3>3
  <2> QED BY <2>1, <2>2
<1>17. /\ drafting' \in DraftingStates
       /\ drafting'.stage = "calling"
  BY <1>1, <1>2, DraftingTyped
<1>18. DraftsApart' /\ DraftsWait' /\ DistanceRight'
  BY <1>17 DEF DraftsApart, DraftsWait, DistanceRight
<1>19. drafts' = all /\ stated' = stated \cup new
  BY <1>1 DEF all
<1> QED BY <1>8, <1>14, <1>15, <1>16, <1>17, <1>18, <1>19 DEF DraftsInv

LEMMA FoldKeeps == DraftsInv /\ FoldDuplicates => DraftsInv'
<1> SUFFICES ASSUME DraftsInv, FoldDuplicates PROVE DraftsInv'
  OBVIOUS
<1> DEFINE u == Unique(drafts, drafting.active)
           active == drafting.active
<1>1. drafting.stage = "calling" /\ drafts' = u /\ drafting' = [drafting EXCEPT !.stage = "unique"] /\ UNCHANGED stated
  BY DEF FoldDuplicates
<1>2. /\ drafting \in DraftingStates
      /\ drafts \in Seq(DraftRecords)
      /\ \A s \in stated : s.item \in Items /\ Usable(s.item, s.batch)
      /\ \A s \in stated : \E i \in DOMAIN drafts : drafts[i].question = s.item.question
  BY <1>1 DEF DraftsInv
<1>3. \A i \in DOMAIN drafts : \E s \in stated : Cites(drafts[i], s.item, s.batch)
  BY DEF DraftsInv
<1>4. UniqueSoFar(drafts, active, Len(drafts), u)
  BY <1>2, UniqueWell
<1> HIDE DEF u
<1>5. /\ drafting' \in DraftingStates
      /\ drafting'.stage = "unique" /\ drafting'.active = active
  BY <1>1, <1>2, DraftingTyped
<1>6. u \in Seq(DraftRecords)
  BY <1>4 DEF UniqueSoFar
<1>7. ASSUME NEW i \in DOMAIN u PROVE \E s \in stated : Cites(u[i], s.item, s.batch)
  <2>1. PICK j \in DOMAIN drafts : u[i].answer = drafts[j].answer /\ u[i].chunk_ids = drafts[j].chunk_ids
    BY <1>4 DEF UniqueSoFar
  <2>2. PICK s \in stated : Cites(drafts[j], s.item, s.batch)
    BY <1>3
  <2>3. Cites(u[i], s.item, s.batch)
    BY <2>1, <2>2 DEF Cites
  <2> QED BY <2>3
<1>8. DOMAIN drafts = 1..Len(drafts)
  BY <1>2
<1>9. ASSUME NEW s \in stated
      PROVE  \E q \in {u[i].question : i \in DOMAIN u} \cup active : q = s.item.question \/ Similar(s.item.question, q)
  <2>1. PICK j \in DOMAIN drafts : drafts[j].question = s.item.question
    BY <1>2
  <2>2. \E q \in {u[i].question : i \in DOMAIN u} \cup active : q = drafts[j].question \/ Similar(drafts[j].question, q)
    BY <1>4, <1>8 DEF UniqueSoFar
  <2> QED BY <2>1, <2>2
<1>10. DraftsApart'
  <2>1. /\ \A i, j \in DOMAIN u : i # j => ~Similar(u[j].question, u[i].question)
        /\ \A i \in DOMAIN u, q \in active : ~Similar(u[i].question, q)
    BY <1>4 DEF UniqueSoFar
  <2> HIDE DEF active
  <2> QED BY <1>1, <1>5, <1>9, <2>1 DEF DraftsApart
<1>11. DraftsWait'
  BY <1>5 DEF DraftsWait
<1>12. DistanceRight'
  <2>1. \A s \in stated : s.item.question \in Seq(Characters)
    BY <1>2 DEF Items
  <2>2. \A q \in active : q \in Seq(Characters)
    BY <1>2, ActiveTyped, DraftingTyped
  <2>3. \A q \in active \cup {x.item.question : x \in stated} : q \in Seq(Characters)
    BY <2>1, <2>2
  <2>4. ASSUME NEW s \in stated, NEW q \in active \cup {x.item.question : x \in stated}
        PROVE  Levenshtein(Normal(s.item.question), Normal(q)) = Distance(Normal(s.item.question), Normal(q))
    BY <2>1, <2>3, RowsGiveDistance
  <2> HIDE DEF active
  <2> QED BY <1>1, <1>5, <2>4 DEF DistanceRight
<1> QED BY <1>1, <1>2, <1>5, <1>6, <1>7, <1>10, <1>11, <1>12 DEF DraftsInv

LEMMA SaveKeeps == DraftsInv /\ SaveDrafts => DraftsInv'
<1> SUFFICES ASSUME DraftsInv, SaveDrafts PROVE DraftsInv'
  OBVIOUS
<1> DEFINE saved == Saved(drafts)
<1>1. drafting.stage = "unique" /\ drafts' = saved /\ drafting' = [drafting EXCEPT !.stage = "saved"] /\ UNCHANGED stated
  BY DEF SaveDrafts
<1>2. /\ drafting \in DraftingStates
      /\ drafts \in Seq(DraftRecords)
      /\ \A s \in stated : s.item \in Items /\ Usable(s.item, s.batch)
  BY <1>1 DEF DraftsInv
<1>3. \A i \in DOMAIN drafts : \E s \in stated : Cites(drafts[i], s.item, s.batch)
  BY DEF DraftsInv
<1>4. /\ \A i \in DOMAIN saved : \E j \in DOMAIN drafts :
            saved[i].answer = drafts[j].answer /\ saved[i].chunk_ids = drafts[j].chunk_ids
      /\ \A i \in DOMAIN saved : \/ saved[i].status = "pending_review"
                                 \/ ~Sensitive(saved[i]) /\ ~Strong(saved[i].question)
  BY <1>2, SavedWell
<1> HIDE DEF saved
<1>5. /\ drafting' \in DraftingStates
      /\ drafting'.stage = "saved"
  BY <1>1, <1>2, DraftingTyped
<1>6. ASSUME NEW i \in DOMAIN saved PROVE \E s \in stated : Cites(saved[i], s.item, s.batch)
  <2>1. PICK j \in DOMAIN drafts : saved[i].answer = drafts[j].answer /\ saved[i].chunk_ids = drafts[j].chunk_ids
    BY <1>4
  <2>2. PICK s \in stated : Cites(drafts[j], s.item, s.batch)
    BY <1>3
  <2>3. Cites(saved[i], s.item, s.batch)
    BY <2>1, <2>2 DEF Cites
  <2> QED BY <2>3
<1>7. DraftsApart' /\ DistanceRight'
  BY <1>5 DEF DraftsApart, DistanceRight
<1>8. DraftsWait'
  BY <1>1, <1>4 DEF DraftsWait
<1> QED BY <1>1, <1>2, <1>5, <1>6, <1>7, <1>8 DEF DraftsInv

LEMMA DraftsGoOn == DraftsInv /\ [DraftsNext]_draft_vars => DraftsInv'
<1> SUFFICES ASSUME DraftsInv, [DraftsNext]_draft_vars PROVE DraftsInv'
  OBVIOUS
<1>0. drafting \in DraftingStates
  BY DEF DraftsInv
<1>1. CASE GateBusy \/ NothingUsed
  <2>1. drafting.stage = "calling" /\ UNCHANGED <<drafts, stated>>
    BY <1>1 DEF GateBusy, NothingUsed, Calling
  <2>2. /\ drafting' \in DraftingStates
        /\ drafting'.stage = "calling"
    BY ZenonT(30), <1>0, <1>1, <2>1, DraftingTyped DEF GateBusy, NothingUsed, NextBatch
  <2> QED BY <2>1, <2>2, CallingOn
<1>2. CASE \E reply \in ModelReplies : ModelAnswers(reply)
  BY <1>2, ModelAnswersKeeps
<1>3. CASE FoldDuplicates
  BY <1>3, FoldKeeps
<1>4. CASE SaveDrafts
  BY <1>4, SaveKeeps
<1>5. CASE UNCHANGED draft_vars
  <2>1. UNCHANGED <<drafting, drafts, stated>>
    BY <1>5 DEF draft_vars
  <2>2. DraftsApart' /\ DraftsWait' /\ DistanceRight'
    BY <2>1 DEF DraftsInv, DraftsApart, DraftsWait, DistanceRight
  <2>3. \A i \in DOMAIN drafts : \E s \in stated : Cites(drafts[i], s.item, s.batch)
    BY DEF DraftsInv
  <2>4. \A i \in DOMAIN drafts' : \E s \in stated' : Cites(drafts'[i], s.item, s.batch)
    BY <2>1, <2>3
  <2> QED BY <2>1, <2>2, <2>4 DEF DraftsInv
<1> QED BY <1>1, <1>2, <1>3, <1>4, <1>5 DEF DraftsNext

\* What generation drafts from a document cites what the model was shown and
\* said, each question once, and nothing sensitive without a person: for every
\* document and whatever the model answers (generate_from_document).
THEOREM DraftsAreKept == DraftsSpec => []DraftsKept
<1> QED BY DraftsInvCites, DraftsStart, DraftsGoOn, PTL DEF DraftsSpec


-----------------------------------------------------------------------------
(* The queue of generations, and the lookup                                *)
(*                                                                         *)
(* That generations exclude each other is inductive by itself: whoever     *)
(* deletes the lock of its successor ends its own generation in the same   *)
(* step.  That statuses are honest needs that a worker without a job has   *)
(* no document (IdleNoDoc).                                                *)
(*                                                                         *)
(* What is said of a lookup (Sound) is preserved by the others because a   *)
(* row it has counted stays locked until it ends; what is said of an entry *)
(* because whoever changes its row either still has to clear it, or has    *)
(* cleared it and holds the row that a lookup would have to count before   *)
(* it enters it again (ClearedEarly).                                      *)

\* A worker that has no job has no document.
IdleNoDoc == \A p \in Processes : worker[p].pc \in {"none", "idle", "timedout"} => worker[p].doc = NoDoc

QueueInv == TypeOK /\ IdleNoDoc /\ QueuedHasWorker /\ OneGeneration /\ StatusHonest

-----------------------------------------------------------------------------
(* Sequences and sets *)

\* A job that is put is pending, and so is all that was.
LEMMA PendingAppend ==
    ASSUME NEW s \in Seq(Docs), NEW d \in Docs
    PROVE  /\ Append(s, d) \in Seq(Docs) /\ Append(s, d) # <<>>
           /\ {Append(s, d)[i] : i \in 1..Len(Append(s, d))} = {s[i] : i \in 1..Len(s)} \cup {d}
<1>1. /\ Append(s, d) \in Seq(Docs) /\ Len(Append(s, d)) = Len(s) + 1 /\ Len(s) \in Nat
      /\ Append(s, d)[Len(s) + 1] = d /\ \A i \in 1..Len(s) : Append(s, d)[i] = s[i]
  BY AppendProperties, LenProperties
<1>2. Append(s, d) # <<>>
  BY <1>1, EmptySeq
<1>3. ASSUME NEW e \in {Append(s, d)[i] : i \in 1..Len(Append(s, d))} PROVE e \in {s[i] : i \in 1..Len(s)} \cup {d}
  <2>1. PICK i \in 1..(Len(s) + 1) : e = Append(s, d)[i]
    BY <1>1, <1>3
  <2>2. i \in 1..Len(s) \/ i = Len(s) + 1
    BY <1>1, <2>1
  <2> QED BY <1>1, <2>1, <2>2
<1>4. ASSUME NEW e \in {s[i] : i \in 1..Len(s)} \cup {d} PROVE e \in {Append(s, d)[i] : i \in 1..Len(Append(s, d))}
  <2>1. CASE e = d
    <3>1. Len(s) + 1 \in 1..Len(Append(s, d))
      BY <1>1
    <3> QED BY <1>1, <2>1, <3>1
  <2>2. CASE e # d
    <3>1. PICK i \in 1..Len(s) : e = s[i]
      BY <1>4, <2>2
    <3>2. i \in 1..Len(Append(s, d)) /\ Append(s, d)[i] = e
      BY <1>1, <3>1
    <3> QED BY <3>2
  <2> QED BY <2>1, <2>2
<1> QED BY <1>1, <1>2, <1>3, <1>4

\* A job that is not the first one is still pending when that is taken.
LEMMA PendingTail ==
    ASSUME NEW s \in Seq(Docs), s # <<>>
    PROVE  /\ Tail(s) \in Seq(Docs) /\ Head(s) \in Docs
           /\ \A d \in {s[i] : i \in 1..Len(s)} : d # Head(s) => d \in {Tail(s)[i] : i \in 1..Len(Tail(s))}
<1>1. /\ Tail(s) \in Seq(Docs) /\ Head(s) \in Docs /\ Len(Tail(s)) = Len(s) - 1
      /\ \A i \in 1..Len(Tail(s)) : Tail(s)[i] = s[i + 1]
      /\ Len(s) \in Nat /\ Head(s) = s[1]
  BY HeadTailProperties, LenProperties
<1>2. ASSUME NEW i \in 1..Len(s), s[i] # Head(s) PROVE s[i] \in {Tail(s)[j] : j \in 1..Len(Tail(s))}
  <2>1. i - 1 \in 1..Len(Tail(s)) /\ Tail(s)[i - 1] = s[i]
    BY <1>1, <1>2
  <2> QED BY <2>1
<1> QED BY <1>1, <1>2

\* The processes that generate are finitely many; one more or less counts one.
LEMMA GeneratingCounts ==
    ASSUME NEW S \in SUBSET Processes, NEW p \in Processes
    PROVE  /\ IsFiniteSet(S) /\ Cardinality(S) \in Nat
           /\ Cardinality(S \cup {p}) = IF p \in S THEN Cardinality(S) ELSE Cardinality(S) + 1
           /\ Cardinality(S \ {p}) = IF p \in S THEN Cardinality(S) - 1 ELSE Cardinality(S)
<1>1. IsFiniteSet(S)
  BY FaqQueueAssumption, FS_Subset
<1> QED BY <1>1, FS_CardinalityType, FS_AddElement, FS_RemoveElement

LEMMA CountedAgain ==
    ASSUME NEW S \in SUBSET Processes, NEW T, NEW p \in Processes
    PROVE  /\ T = S \cup {p} => /\ Cardinality(S) \in Nat /\ Cardinality(T) \in Nat
                                /\ Cardinality(T) <= Cardinality(S) + 1
           /\ T = S \ {p} => /\ Cardinality(S) \in Nat /\ Cardinality(T) \in Nat
                             /\ Cardinality(T) <= Cardinality(S)
<1>1. Cardinality(S) \in Nat
  BY GeneratingCounts
<1>2. ASSUME T = S \cup {p} PROVE Cardinality(T) \in Nat /\ Cardinality(T) <= Cardinality(S) + 1
  <2>1. T \in SUBSET Processes /\ Cardinality(T) \in Nat
    <3>1. T \in SUBSET Processes
      BY <1>2
    <3> QED BY <3>1, GeneratingCounts
  <2>2. Cardinality(T) = IF p \in S THEN Cardinality(S) ELSE Cardinality(S) + 1
    BY <1>2, GeneratingCounts, Zenon
  <2> QED BY <1>1, <2>1, <2>2
<1>3. ASSUME T = S \ {p} PROVE Cardinality(T) \in Nat /\ Cardinality(T) <= Cardinality(S)
  <2>1. T \in SUBSET Processes /\ Cardinality(T) \in Nat
    <3>1. T \in SUBSET Processes
      BY <1>3
    <3> QED BY <3>1, GeneratingCounts
  <2>2. Cardinality(T) = IF p \in S THEN Cardinality(S) - 1 ELSE Cardinality(S)
    BY <1>3, GeneratingCounts, Zenon
  <2> QED BY <1>1, <2>1, <2>2
<1> QED BY <1>1, <1>2, <1>3

LEMMA QueueStarts == Init => QueueInv
<1> SUFFICES ASSUME Init PROVE QueueInv
  OBVIOUS
<1>1. TypeOK
  BY EmptySeq DEF Init, TypeOK, NoWorker, WorkerState, Pcs, Statuses
<1>2. Generating = {}
  BY DEF Init, Generating, NoWorker
<1>3. OneGeneration
  BY <1>2, FS_EmptySet DEF Init, OneGeneration, Holding
<1> QED BY <1>1, <1>3 DEF Init, QueueInv, IdleNoDoc, QueuedHasWorker, StatusHonest, NoWorker

-----------------------------------------------------------------------------
(* One generation *)

\* Whoever begins one takes the lock or has it lapse; whoever ends one, or
\* dies, takes at most the lock along.
LEMMA OneGenerationKept ==
    ASSUME TypeOK, OneGeneration, [Next]_vars
    PROVE  OneGeneration'
<1> DEFINE G == Generating
<1>1. G \in SUBSET Processes /\ lapses \in Nat /\ lock \in BOOLEAN
  BY DEF Generating, TypeOK
<1>2. CASE G' = G /\ lock' = lock /\ lapses' = lapses
  BY <1>2 DEF OneGeneration, Holding
<1>3. ASSUME NEW p \in Processes, Acquire(p) \/ AcquireFallback(p) PROVE OneGeneration'
  <2>1. G' = G \cup {p}
    BY <1>3 DEF Acquire, AcquireFallback, Goto, Generating, TypeOK, WorkerState
  <2>2. Cardinality(G') \in Nat /\ Cardinality(G) \in Nat /\ Cardinality(G') <= Cardinality(G) + 1
    BY <2>1, <1>1, CountedAgain
  <2>3. CASE Acquire(p)
    BY <1>1, <2>2, <2>3 DEF Acquire, OneGeneration, Holding
  <2>4. CASE AcquireFallback(p)
    BY <1>1, <2>2, <2>4 DEF AcquireFallback, OneGeneration, Holding
  <2> QED BY <1>3, <2>3, <2>4
<1>4. ASSUME NEW p \in Processes, Release(p) PROVE OneGeneration'
  <2>1. p \in G /\ G' = G \ {p}
    BY <1>4 DEF Release, At, EndJob, IdleWorker, Generating, TypeOK
  <2>2. Cardinality(G) \in Nat /\ Cardinality(G') = Cardinality(G) - 1
    BY <1>1, <2>1, GeneratingCounts
  <2> QED BY <1>1, <1>4, <2>2 DEF Release, OneGeneration, Holding
<1>5. ASSUME NEW p \in Processes, Restart(p) PROVE OneGeneration'
  <2>1. G' = G \ {p}
    BY <1>5 DEF Restart, NoWorker, Generating, TypeOK
  <2>2. Cardinality(G) \in Nat /\ Cardinality(G') \in Nat /\ Cardinality(G') <= Cardinality(G)
    BY <2>1, <1>1, CountedAgain
  <2> QED BY <1>1, <1>5, <2>2 DEF Restart, OneGeneration, Holding
<1>6. CASE ExpireLock
  <2>1. G' = G
    BY <1>6 DEF ExpireLock, Generating
  <2>2. CASE G = {}
    BY <1>1, <1>6, <2>1, <2>2, FS_EmptySet DEF ExpireLock, OneGeneration, Holding
  <2>3. CASE G # {}
    <3>1. lock /\ ~lock' /\ lapses' = lapses + 1
      BY <1>6, <2>3 DEF ExpireLock
    <3> QED BY <1>1, <2>1, <3>1 DEF OneGeneration, Holding
  <2> QED BY <2>2, <2>3
<1>7. ASSUME NEW p \in Processes,
             \/ TakeJob(p) \/ IdleTimeout(p) \/ IdleExit(p) \/ Skip(p) \/ PassChecks(p) \/ GiveUp(p) \/ Finish(p)
             \/ \E d \in Docs : Enqueue(p, d)
      PROVE  OneGeneration'
  <2>1. CASE IdleTimeout(p) \/ PassChecks(p) \/ Finish(p)
    BY <1>2, <2>1 DEF IdleTimeout, PassChecks, Finish, At, Goto, Generating, TypeOK, WorkerState
  <2>2. CASE TakeJob(p)
    BY <1>2, <2>2 DEF TakeJob, At, Generating, TypeOK, WorkerState
  <2>3. CASE Skip(p) \/ GiveUp(p)
    <3>1. /\ worker' = [worker EXCEPT ![p] = IdleWorker] /\ worker[p].pc \in {"checks", "waiting"}
          /\ lock' = lock /\ lapses' = lapses
      BY <2>3 DEF Skip, GiveUp, EndJob, At
    <3>2. Generating' = Generating
      BY <3>1 DEF IdleWorker, Generating, TypeOK, WorkerState
    <3> QED BY <1>2, <3>1, <3>2
  <2>4. CASE IdleExit(p)
    BY <1>2, <2>4 DEF IdleExit, At, IdleWorker, NoWorker, Generating, TypeOK, WorkerState
  <2>5. CASE \E d \in Docs : Enqueue(p, d)
    <3>1. PICK d \in Docs : Enqueue(p, d)
      BY <2>5
    <3>2. Generating' = Generating
      BY <3>1 DEF Enqueue, At, IdleWorker, Generating, TypeOK, WorkerState
    <3> QED BY <1>2, <3>1, <3>2 DEF Enqueue
  <2> QED BY <1>7, <2>1, <2>2, <2>3, <2>4, <2>5
<1>8. CASE UNCHANGED vars
  BY <1>2, <1>8 DEF vars, Generating
<1> QED BY <1>3, <1>4, <1>5, <1>6, <1>7, <1>8 DEF Next, Work

-----------------------------------------------------------------------------
(* Queues and statuses *)

LEMMA EnqueueKept ==
    ASSUME QueueInv, NEW p \in Processes, NEW d \in Docs, Enqueue(p, d)
    PROVE  TypeOK' /\ IdleNoDoc' /\ QueuedHasWorker' /\ StatusHonest'
<1>1. /\ queue' = [queue EXCEPT ![p] = Append(queue[p], d)]
      /\ status' = [status EXCEPT ![p] = [status[p] EXCEPT ![d] = "queued"]]
      /\ worker' = IF At(p, "none") THEN [worker EXCEPT ![p] = IdleWorker] ELSE worker
      /\ UNCHANGED <<lock, lapses>>
  BY DEF Enqueue, Report
<1>2. queue[p] \in Seq(Docs) /\ Append(queue[p], d) \in Seq(Docs) /\ Append(queue[p], d) # <<>>
  BY PendingAppend DEF QueueInv, TypeOK
<1>3. TypeOK'
  BY <1>1, <1>2 DEF QueueInv, TypeOK, IdleWorker, WorkerState, Pcs, Statuses
<1>4. IdleNoDoc'
  BY <1>1 DEF QueueInv, TypeOK, IdleNoDoc, IdleWorker
<1>5. QueuedHasWorker'
  BY <1>1 DEF QueueInv, TypeOK, QueuedHasWorker, At, IdleWorker
<1>6. StatusHonest'
  <2> SUFFICES ASSUME NEW q \in Processes, NEW e \in Docs
               PROVE  /\ status'[q][e] = "queued" => e \in Pending(q)'
                      /\ status'[q][e] = "running" => worker'[q].doc = e
    BY DEF StatusHonest
  <2>1. Pending(p)' = Pending(p) \cup {d}
    BY <1>1, <1>2, PendingAppend DEF QueueInv, TypeOK, Pending
  <2>2. q # p => Pending(q)' = Pending(q)
    BY <1>1 DEF QueueInv, TypeOK, Pending
  <2>3. status[q][e] = "running" => worker'[q].doc = worker[q].doc
    BY <1>1, FaqQueueAssumption DEF QueueInv, TypeOK, StatusHonest, IdleNoDoc, At, IdleWorker
  <2>4. status'[q][e] # status[q][e] => q = p /\ e = d /\ status'[q][e] = "queued"
    BY <1>1 DEF QueueInv, TypeOK
  <2> QED BY <2>1, <2>2, <2>3, <2>4 DEF QueueInv, StatusHonest
<1> QED BY <1>3, <1>4, <1>5, <1>6

LEMMA TakeKept ==
    ASSUME QueueInv, NEW p \in Processes, TakeJob(p)
    PROVE  TypeOK' /\ IdleNoDoc' /\ QueuedHasWorker' /\ StatusHonest'
<1> DEFINE h == Head(queue[p])
<1>1. /\ queue' = [queue EXCEPT ![p] = Tail(queue[p])]
      /\ status' = [status EXCEPT ![p] = [status[p] EXCEPT ![h] = "running"]]
      /\ worker' = [worker EXCEPT ![p] = [pc |-> "checks", doc |-> h]]
      /\ worker[p].pc = "idle" /\ queue[p] # <<>>
      /\ UNCHANGED <<lock, lapses>>
  BY DEF TakeJob, Report, At
<1>2. /\ queue[p] \in Seq(Docs) /\ Tail(queue[p]) \in Seq(Docs) /\ h \in Docs
      /\ \A d \in Pending(p) : d # h => d \in Pending(p)'
  <2>1. queue[p] \in Seq(Docs)
    BY DEF QueueInv, TypeOK
  <2>2. queue'[p] = Tail(queue[p])
    BY <1>1 DEF QueueInv, TypeOK
  <2> QED BY ZenonT(30), <1>1, <2>1, <2>2, PendingTail DEF Pending
<1>3. TypeOK'
  BY <1>1, <1>2 DEF QueueInv, TypeOK, WorkerState, Pcs, Statuses
<1>4. IdleNoDoc' /\ QueuedHasWorker'
  BY <1>1 DEF QueueInv, TypeOK, IdleNoDoc, QueuedHasWorker, At
<1>5. StatusHonest'
  <2> SUFFICES ASSUME NEW q \in Processes, NEW e \in Docs
               PROVE  /\ status'[q][e] = "queued" => e \in Pending(q)'
                      /\ status'[q][e] = "running" => worker'[q].doc = e
    BY DEF StatusHonest
  <2>1. CASE q # p
    BY <1>1, <2>1 DEF QueueInv, TypeOK, StatusHonest, Pending
  <2>2. CASE q = p /\ e = h
    BY <1>1, <1>2, <2>2 DEF QueueInv, TypeOK
  <2>3. CASE q = p /\ e # h
    <3>1. status'[q][e] = status[q][e]
      BY <1>1, <1>2, <2>3 DEF QueueInv, TypeOK
    <3>2. status[q][e] # "running"
      BY <1>1, <2>3, FaqQueueAssumption DEF QueueInv, StatusHonest, IdleNoDoc
    <3>3. status[q][e] = "queued" => e \in Pending(q)'
      BY <1>2, <2>3 DEF QueueInv, StatusHonest
    <3> QED BY <3>1, <3>2, <3>3
  <2> QED BY <2>1, <2>2, <2>3
<1> QED BY <1>3, <1>4, <1>5

\* The end of a job takes its document from the worker and its status from
\* the running ones.
LEMMA EndKept ==
    ASSUME QueueInv, NEW p \in Processes, NEW s \in {"done", "error", "skipped"}, EndJob(p, s),
           worker[p].pc \in {"checks", "waiting", "releasing"}, worker[p].doc \in Docs,
           queue' = queue, lock' \in BOOLEAN, lapses' \in Nat
    PROVE  TypeOK' /\ IdleNoDoc' /\ QueuedHasWorker' /\ StatusHonest'
<1>1. /\ worker' = [worker EXCEPT ![p] = IdleWorker]
      /\ status' = [status EXCEPT ![p] = [status[p] EXCEPT ![worker[p].doc] = s]]
  BY DEF EndJob, Report
<1>2. TypeOK'
  BY <1>1 DEF QueueInv, TypeOK, IdleWorker, WorkerState, Pcs, Statuses
<1>3. IdleNoDoc' /\ QueuedHasWorker'
  BY <1>1 DEF QueueInv, TypeOK, IdleNoDoc, QueuedHasWorker, At, IdleWorker
<1>4. StatusHonest'
  BY <1>1 DEF QueueInv, TypeOK, StatusHonest, Pending, IdleWorker
<1> QED BY <1>2, <1>3, <1>4

\* A worker that moves on with its job, or stays without one.
LEMMA MoveKept ==
    ASSUME QueueInv, NEW p \in Processes, NEW pc \in Pcs, Goto(p, pc),
           worker[p].pc # "none", pc # "none",
           pc \in {"idle", "timedout"} => worker[p].pc \in {"none", "idle", "timedout"},
           UNCHANGED <<queue, status>>, lock' \in BOOLEAN, lapses' \in Nat
    PROVE  TypeOK' /\ IdleNoDoc' /\ QueuedHasWorker' /\ StatusHonest'
<1>1. /\ worker'[p].pc = pc /\ worker'[p].doc = worker[p].doc /\ worker'[p] \in WorkerState
      /\ worker' \in [Processes -> WorkerState]
      /\ \A q \in Processes : q # p => worker'[q] = worker[q]
  BY DEF Goto, QueueInv, TypeOK, WorkerState
<1>2. TypeOK'
  BY <1>1 DEF QueueInv, TypeOK
<1>3. IdleNoDoc' /\ QueuedHasWorker'
  BY <1>1 DEF QueueInv, IdleNoDoc, QueuedHasWorker, At
<1>4. StatusHonest'
  BY <1>1 DEF QueueInv, StatusHonest, Pending
<1> QED BY <1>2, <1>3, <1>4

\* Going to another stage keeps the job, and the other workers.
LEMMA GoesOn ==
    ASSUME TypeOK, NEW p \in Processes, NEW pc \in Pcs, Goto(p, pc)
    PROVE  /\ worker'[p].pc = pc /\ worker'[p].doc = worker[p].doc
           /\ \A q \in Processes : q # p => worker'[q] = worker[q]
  BY DEF Goto, TypeOK, WorkerState

\* A worker at a stage of a job has the document of the job.
JobHasDoc == \A p \in Processes :
    worker[p].pc \in {"checks", "waiting", "generating", "releasing"} => worker[p].doc \in Docs

LEMMA JobHasDocKept == TypeOK /\ JobHasDoc /\ [Next]_vars => JobHasDoc'
<1> SUFFICES ASSUME TypeOK, JobHasDoc, [Next]_vars PROVE JobHasDoc'
  OBVIOUS
<1>1. CASE UNCHANGED vars
  BY <1>1 DEF vars, JobHasDoc
<1>2. ASSUME NEW p \in Processes, TakeJob(p) PROVE JobHasDoc'
  <2>1. Head(queue[p]) \in Docs
    BY <1>2, PendingTail DEF TakeJob, TypeOK
  <2> QED BY <1>2, <2>1 DEF TakeJob, TypeOK, JobHasDoc
<1>3. ASSUME NEW p \in Processes, IdleTimeout(p) \/ PassChecks(p) \/ Acquire(p) \/ AcquireFallback(p) \/ Finish(p)
      PROVE  JobHasDoc'
  <2>1. PICK next \in Pcs : /\ Goto(p, next)
                            /\ next = "timedout" \/ worker[p].pc \in {"checks", "waiting", "generating"}
    <3>1. CASE IdleTimeout(p)
      BY <3>1 DEF IdleTimeout, Pcs
    <3>2. CASE PassChecks(p) \/ Finish(p)
      BY <3>2 DEF PassChecks, Finish, At, Pcs
    <3>3. CASE Acquire(p) \/ AcquireFallback(p)
      BY <3>3 DEF Acquire, AcquireFallback, At, Pcs
    <3> QED BY <1>3, <3>1, <3>2, <3>3
  <2>2. /\ worker'[p].pc = next /\ worker'[p].doc = worker[p].doc
        /\ \A q \in Processes : q # p => worker'[q] = worker[q]
    BY <2>1, GoesOn
  <2> QED BY <2>1, <2>2 DEF JobHasDoc
<1>4. ASSUME NEW p \in Processes, Skip(p) \/ GiveUp(p) \/ Release(p) \/ IdleExit(p) \/ Restart(p)
      PROVE  JobHasDoc'
  <2>1. PICK w \in {IdleWorker, NoWorker} : worker' = [worker EXCEPT ![p] = w]
    <3>1. CASE Skip(p) \/ GiveUp(p) \/ Release(p)
      BY <3>1 DEF Skip, GiveUp, Release, EndJob
    <3>2. CASE IdleExit(p) \/ Restart(p)
      BY <3>2 DEF IdleExit, Restart
    <3> QED BY <1>4, <3>1, <3>2
  <2> QED BY <2>1 DEF IdleWorker, NoWorker, TypeOK, JobHasDoc
<1>5. ASSUME NEW p \in Processes, NEW d \in Docs, Enqueue(p, d) PROVE JobHasDoc'
  BY <1>5 DEF Enqueue, IdleWorker, TypeOK, JobHasDoc
<1>6. CASE ExpireLock
  BY <1>6 DEF ExpireLock, JobHasDoc
<1> QED BY <1>1, <1>2, <1>3, <1>4, <1>5, <1>6 DEF Next, Work

LEMMA WorkKept ==
    ASSUME QueueInv, JobHasDoc, NEW p \in Processes, Work(p)
    PROVE  TypeOK' /\ IdleNoDoc' /\ QueuedHasWorker' /\ StatusHonest'
<1>1. lock \in BOOLEAN /\ lapses \in Nat
  BY DEF QueueInv, TypeOK
<1>2. CASE TakeJob(p)
  BY <1>2, TakeKept
<1>3. CASE IdleExit(p)
  <2>1. CASE queue[p] = <<>>
    <3>1. /\ worker' = [worker EXCEPT ![p] = NoWorker] /\ UNCHANGED <<queue, status, lock, lapses>>
          /\ worker[p].doc = NoDoc
      BY <1>3, <2>1 DEF IdleExit, At, QueueInv, IdleNoDoc
    <3>2. TypeOK' /\ IdleNoDoc'
      BY <3>1 DEF QueueInv, TypeOK, IdleNoDoc, NoWorker, WorkerState, Pcs
    <3>3. QueuedHasWorker'
      BY <2>1, <3>1 DEF QueueInv, TypeOK, QueuedHasWorker, At
    <3>4. StatusHonest'
      BY <3>1 DEF QueueInv, TypeOK, StatusHonest, Pending, NoWorker
    <3> QED BY <3>2, <3>3, <3>4
  <2>2. CASE queue[p] # <<>>
    <3>1. worker' = [worker EXCEPT ![p] = IdleWorker] /\ worker[p] \in WorkerState /\ worker[p].doc = NoDoc
      BY <1>3, <2>2 DEF IdleExit, At, QueueInv, TypeOK, IdleNoDoc
    <3>2. Goto(p, "idle")
      BY <3>1 DEF Goto, IdleWorker, QueueInv, TypeOK, WorkerState
    <3> QED BY <1>1, <1>3, <3>2, MoveKept DEF IdleExit, At, Pcs
  <2> QED BY <2>1, <2>2
<1>4. CASE IdleTimeout(p)
  BY <1>1, <1>4, MoveKept DEF IdleTimeout, At, Pcs
<1>5. CASE PassChecks(p) \/ Finish(p)
  BY <1>1, <1>5, MoveKept DEF PassChecks, Finish, At, Pcs
<1>6. CASE Acquire(p) \/ AcquireFallback(p)
  <2>1. /\ worker[p].pc = "waiting" /\ Goto(p, "generating") /\ UNCHANGED <<queue, status>>
        /\ lock' \in BOOLEAN /\ lapses' \in Nat
    <3>1. CASE Acquire(p)
      BY <1>1, <3>1 DEF Acquire, At
    <3>2. CASE AcquireFallback(p)
      <4>1. lock' = lock /\ lapses' = lapses + 1
        BY <3>2 DEF AcquireFallback
      <4>2. lapses' \in Nat
        BY <1>1, <4>1
      <4> QED BY <1>1, <3>2, <4>1, <4>2 DEF AcquireFallback, At
    <3> QED BY <1>6, <3>1, <3>2
  <2> QED BY <2>1, MoveKept DEF Pcs
<1>7. CASE Skip(p) \/ GiveUp(p)
  BY <1>1, <1>7, EndKept DEF Skip, GiveUp, At, JobHasDoc
<1>8. CASE Release(p)
  BY <1>1, <1>8, EndKept DEF Release, At, JobHasDoc
<1> QED BY <1>2, <1>3, <1>4, <1>5, <1>6, <1>7, <1>8 DEF Work

LEMMA QueueStep == QueueInv /\ JobHasDoc /\ [Next]_vars => QueueInv' /\ JobHasDoc'
<1> SUFFICES ASSUME QueueInv, JobHasDoc, [Next]_vars PROVE QueueInv' /\ JobHasDoc'
  OBVIOUS
<1>1. JobHasDoc' /\ OneGeneration'
  BY JobHasDocKept, OneGenerationKept DEF QueueInv
<1>2. CASE UNCHANGED vars
  BY <1>1, <1>2 DEF vars, QueueInv, TypeOK, IdleNoDoc, QueuedHasWorker, StatusHonest, Pending, At
<1>3. ASSUME NEW p \in Processes, Restart(p) PROVE TypeOK' /\ IdleNoDoc' /\ QueuedHasWorker' /\ StatusHonest'
  <2>1. TypeOK' /\ IdleNoDoc'
    BY <1>3, EmptySeq DEF Restart, QueueInv, TypeOK, IdleNoDoc, NoWorker, WorkerState, Pcs, Statuses
  <2>2. QueuedHasWorker' /\ StatusHonest'
    BY <1>3 DEF Restart, QueueInv, TypeOK, QueuedHasWorker, StatusHonest, Pending, At
  <2> QED BY <2>1, <2>2
<1>4. CASE ExpireLock
  <2>1. lapses' \in Nat /\ lock' \in BOOLEAN /\ UNCHANGED <<queue, worker, status>>
    <3>1. lapses \in Nat /\ (lapses' = lapses \/ lapses' = lapses + 1)
      BY <1>4 DEF ExpireLock, QueueInv, TypeOK
    <3>2. lapses' \in Nat
      BY <3>1
    <3> QED BY <1>4, <3>2 DEF ExpireLock
  <2> QED BY <1>1, <2>1 DEF QueueInv, TypeOK, IdleNoDoc, QueuedHasWorker, StatusHonest, Pending, At
<1>5. CASE Next
  BY <1>1, <1>3, <1>4, <1>5, WorkKept, EnqueueKept DEF Next, QueueInv
<1> QED BY <1>1, <1>2, <1>5

-----------------------------------------------------------------------------
(* Theorems *)

LEMMA QueueAlways == Spec => [](QueueInv /\ JobHasDoc)
<1>1. Init => JobHasDoc
  BY DEF Init, JobHasDoc, NoWorker
<1> QED BY <1>1, QueueStarts, QueueStep, PTL DEF Spec

\* Every variable of the queues keeps its type (kb_faq_service.py).
THEOREM QueueTyped == Spec => []TypeOK
<1>1. QueueInv => TypeOK
  BY DEF QueueInv
<1> QED BY <1>1, QueueAlways, PTL

\* No job waits in a queue without a worker that will take it, although
\* workers end when they are idle (_put_faq_job, _kb_worker).
THEOREM QueueServed == Spec => []QueuedHasWorker
<1>1. QueueInv => QueuedHasWorker
  BY DEF QueueInv
<1> QED BY <1>1, QueueAlways, PTL

\* Generations of a base exclude each other but for the lapses of the lock
\* (_acquire_lock, _release_lock).
THEOREM GenerationsExclude == Spec => []OneGeneration
<1>1. QueueInv => OneGeneration
  BY DEF QueueInv
<1> QED BY <1>1, QueueAlways, PTL

\* What the progress shows of a job is so (_doc_faq_job_status).
THEOREM StatusesHonest == Spec => []StatusHonest
<1>1. QueueInv => StatusHonest
  BY DEF QueueInv
<1> QED BY <1>1, QueueAlways, PTL

-----------------------------------------------------------------------------
(* Lookups: what is true of them *)

\* What is true of a lookup under way.
Sound(x) ==
    /\ \A f \in x.silent : ~Answers(faq_row[f], x.level)
    /\ \A f \in x.open : Home[f] \in x.bases /\ Answers(faq_row[f], x.level) /\ faq_row[f].question = x.question
    /\ x.stage # "ended" => x.outcome = "none"
    /\ x.stage \in {"row", "flush", "write"} \/ x.outcome = "answered" => x.faq \in Faqs
    /\ x.stage \in {"flush", "write"} \/ x.outcome = "answered" => x.faq \notin x.silent
    /\ x.outcome \in {"denied", "missed"} => x.open = {}
    /\ x.stage \in {"entries", "row"} /\ ~x.exact => x.open = {}
    /\ x.locks => x.stage \in {"write", "ended"} /\ x.faq \in Faqs /\ ~LockedByEditor(x.faq)
    /\ x.stage = "write" => /\ x.locks /\ IsRow(faq_row[x.faq])
                            /\ ~x.crossed => faq_row[x.faq].question = x.question

AllSound == \A s \in Askers : asker[s] \in Lookup => Sound(asker[s])

\* An entry of a base leads to a FAQ of the base.
EntriesAtHome == \A b \in Bases, q \in Asked : entry_of[b][q] \in Faqs => Home[entry_of[b][q]] = b

\* The stages of each kind of writer.
Kinds == \A e \in Editors : editor[e] \in Edit =>
    /\ editor[e].stage = "flushed" => editor[e].kind \in {"late", "early"}
    /\ editor[e].stage = "cleared" => editor[e].kind \in {"early", "reject"}
    /\ editor[e].stage = "committed" => editor[e].kind = "late"

\* Between its clearing and its commit nobody enters the row of a writer again.
ClearedEarly == \A e \in Editors :
    editor[e] \in Edit /\ editor[e].stage = "cleared" /\ editor[e].kind = "early" =>
        \A q \in Asked : entry_of[Home[editor[e].faq]][q] = editor[e].faq
                            => <<Home[editor[e].faq], q>> \in misled

Entered == EntriesAtHome /\ Kinds /\ ClearedEarly /\ EntriesLead
LookupInv == LookupTypeOK /\ AllSound /\ Entered

-----------------------------------------------------------------------------
(* Types *)

LEMMA RowCases ==
    ASSUME LookupTypeOK, NEW f \in Faqs
    PROVE  /\ faq_row[f] \in LookupRow \/ faq_row[f] = NoRow_
           /\ IsRow(faq_row[f]) => faq_row[f] \in LookupRow
           /\ faq_row[f].live \in BOOLEAN
           /\ faq_row[f].live => IsRow(faq_row[f]) /\ faq_row[f].level \in 0..MaxLevel
           /\ IsRow(faq_row[f]) => faq_row[f].level \in 0..MaxLevel
<1>1. faq_row[f] \in LookupRow \/ faq_row[f] = NoRow_
  BY DEF LookupTypeOK
<1>2. faq_row[f] = NoRow_ => faq_row[f].live = FALSE /\ ~IsRow(faq_row[f])
  BY DEF NoRow_, IsRow
<1>3. faq_row[f] \in LookupRow => faq_row[f].live \in BOOLEAN /\ faq_row[f].level \in 0..MaxLevel
  BY DEF LookupRow
<1>4. CASE faq_row[f] = NoRow_
  BY <1>2, <1>4
<1>5. CASE faq_row[f] # NoRow_
  BY <1>1, <1>3, <1>5 DEF IsRow
<1> QED BY <1>4, <1>5

LEMMA AskerCases ==
    ASSUME LookupTypeOK, NEW s \in Askers
    PROVE  /\ asker[s] \in Lookup <=> asker[s] # NoLookup
           /\ asker[s] \in Lookup <=> asker[s].stage \in {"entries", "row", "flush", "write", "ended"}
           /\ asker[s] \in Lookup =>
                /\ asker[s].stage \in {"entries", "row", "flush", "write", "ended"}
                /\ asker[s].question \in Asked /\ asker[s].level \in 0..MaxLevel
                /\ asker[s].bases \in SUBSET Bases /\ asker[s].todo \in SUBSET Bases
                /\ asker[s].faq \in Faqs \cup {NoFaq}
                /\ asker[s].exact \in BOOLEAN /\ asker[s].denied \in BOOLEAN
                /\ asker[s].crossed \in BOOLEAN /\ asker[s].locks \in BOOLEAN
                /\ asker[s].outcome \in {"none", "answered", "denied", "missed", "failed"}
                /\ asker[s].silent \in SUBSET Faqs /\ asker[s].open \in SUBSET Faqs
  BY DEF LookupTypeOK, Lookup, NoLookup

LEMMA EditorCases ==
    ASSUME LookupTypeOK, NEW e \in Editors
    PROVE  /\ editor[e] \in Edit <=> editor[e] # NoEdit
           /\ editor[e] \in Edit <=> editor[e].stage \in {"flushed", "cleared", "committed"}
           /\ editor[e] \in Edit => /\ editor[e].stage \in {"flushed", "cleared", "committed"}
                                    /\ editor[e].kind \in {"late", "early", "reject"}
                                    /\ editor[e].faq \in Faqs /\ editor[e].new \in LookupRow \cup {NoRow_}
  BY DEF LookupTypeOK, Edit, NoEdit

\* Redis works, or one more of its errors is counted.
LEMMA RedisCounts ==
    ASSUME LookupTypeOK, RedisWorks \/ RedisFails
    PROVE  redis_errors' \in 0..MaxRedisErrors
  BY FaqLookupAssumption DEF LookupTypeOK, RedisWorks, RedisFails

LEMMA LookupStarts == LookupInit => LookupInv
<1> SUFFICES ASSUME LookupInit PROVE LookupInv
  OBVIOUS
<1>1. LookupTypeOK
  BY FaqLookupAssumption DEF LookupInit, LookupTypeOK
<1>2. AllSound /\ Kinds /\ ClearedEarly
  BY <1>1, AskerCases, EditorCases DEF LookupInit, AllSound, Kinds, ClearedEarly
<1>3. EntriesAtHome /\ EntriesLead
  BY FaqLookupAssumption DEF LookupInit, EntriesAtHome, EntriesLead
<1> QED BY <1>1, <1>2, <1>3 DEF LookupInv, Entered

-----------------------------------------------------------------------------
(* Entries *)

\* Entries that are gone harm nobody.
LEMMA FewerEntries ==
    ASSUME LookupInv, UNCHANGED <<faq_row, editor, misled>>,
           \A b \in Bases, q \in Asked : entry_of'[b][q] = entry_of[b][q] \/ entry_of'[b][q] = NoFaq
    PROVE  Entered'
<1>1. EntriesAtHome' /\ Kinds'
  BY FaqLookupAssumption DEF LookupInv, Entered, EntriesAtHome, Kinds
<1>2. ClearedEarly'
  <2> SUFFICES ASSUME NEW e \in Editors, editor[e] \in Edit, editor[e].stage = "cleared",
                      editor[e].kind = "early", NEW q \in Asked,
                      entry_of'[Home[editor[e].faq]][q] = editor[e].faq
               PROVE  <<Home[editor[e].faq], q>> \in misled
    BY DEF ClearedEarly
  <2>1. editor[e].faq \in Faqs /\ Home[editor[e].faq] \in Bases /\ editor[e].faq # NoFaq
    BY EditorCases, FaqLookupAssumption DEF LookupInv
  <2> QED BY <2>1 DEF LookupInv, Entered, ClearedEarly
<1>3. EntriesLead'
  BY DEF LookupInv, Entered, EntriesLead
<1> QED BY <1>1, <1>2, <1>3 DEF Entered

-----------------------------------------------------------------------------
(* Lookups that only read *)

\* A step of one lookup that writes nothing else.
LEMMA OneMoves ==
    ASSUME LookupInv, NEW s \in Askers, NEW x \in Lookup \cup {NoLookup},
           asker' = [asker EXCEPT ![s] = x], x \in Lookup => Sound(x),
           redis_errors' \in 0..MaxRedisErrors,
           UNCHANGED <<faq_row, faq_enabled, entry_of, editor, misled, edits>>
    PROVE  LookupInv'
<1>1. LookupTypeOK'
  BY DEF LookupInv, LookupTypeOK
<1>2. asker'[s] = x /\ \A t \in Askers : t # s => asker'[t] = asker[t]
  BY DEF LookupInv, LookupTypeOK
<1>3. \A y : Sound(y)' <=> Sound(y)
  BY DEF Sound, LockedByEditor
<1>4. AllSound'
  <2> SUFFICES ASSUME NEW t \in Askers, asker'[t] \in Lookup PROVE Sound(asker'[t])
    BY <1>3 DEF AllSound, Sound, LockedByEditor
  <2> QED BY <1>2 DEF LookupInv, AllSound
<1>5. Entered'
  BY DEF LookupInv, Entered, EntriesAtHome, Kinds, ClearedEarly, EntriesLead
<1> QED BY <1>1, <1>4, <1>5 DEF LookupInv

LEMMA BeginKeeps ==
    ASSUME LookupInv, NEW s \in Askers, NEW q \in Asked, NEW level \in 0..MaxLevel, BeginLookup(s, q, level)
    PROVE  LookupInv'
<1> DEFINE bases == {b \in Bases : faq_enabled[b]}
           silent == {f \in Faqs : ~Answers(faq_row[f], level)}
           open == {f \in Faqs : Home[f] \in bases /\ Answers(faq_row[f], level) /\ faq_row[f].question = q}
           x == [stage |-> "entries", question |-> q, level |-> level, bases |-> bases, todo |-> bases,
                 faq |-> NoFaq, exact |-> TRUE, denied |-> FALSE, crossed |-> FALSE, locks |-> FALSE,
                 outcome |-> "none", silent |-> silent, open |-> open]
<1>1. /\ asker' = [asker EXCEPT ![s] = x]
      /\ UNCHANGED <<faq_row, faq_enabled, entry_of, editor, misled, edits, redis_errors>>
  BY DEF BeginLookup
<1>2. bases \in SUBSET Bases /\ silent \in SUBSET Faqs /\ open \in SUBSET Faqs
  OBVIOUS
<1>3. x \in Lookup
  <2> HIDE DEF bases, silent, open
  <2> QED BY <1>2 DEF Lookup
<1>4. Sound(x)
  BY DEF Sound
<1> HIDE DEF x
<1> QED BY <1>1, <1>3, <1>4, OneMoves DEF LookupInv, LookupTypeOK

LEMMA GetKeeps ==
    ASSUME LookupInv, NEW s \in Askers, NEW b \in Bases, GetEntry(s, b)
    PROVE  LookupInv'
<1> DEFINE found == entry_of[b][asker[s].question]
           skipped == [asker[s] EXCEPT !.todo = @ \ {b}]
           led == [asker[s] EXCEPT !.todo = @ \ {b}, !.faq = found, !.stage = "row"]
<1>1. asker[s] \in Lookup /\ asker[s].stage = "entries" /\ Sound(asker[s])
  BY AskerCases DEF GetEntry, LookupInv, AllSound
<1>2. /\ redis_errors' \in 0..MaxRedisErrors
      /\ UNCHANGED <<faq_row, faq_enabled, entry_of, editor, misled, edits>>
  BY RedisCounts DEF GetEntry, LookupInv
<1>3. CASE asker' = [asker EXCEPT ![s] = skipped]
  <2>1. skipped \in Lookup
    BY <1>1 DEF Lookup
  <2>2. Sound(skipped)
    BY <1>1 DEF Sound, Lookup
  <2> HIDE DEF skipped
  <2> QED BY <1>2, <1>3, <2>1, <2>2, OneMoves
<1>4. CASE found # NoFaq /\ asker' = [asker EXCEPT ![s] = led]
  <2>1. found \in Faqs
    BY <1>1, <1>4, AskerCases DEF LookupInv, LookupTypeOK
  <2>2. led \in Lookup
    <3> HIDE DEF found
    <3> QED BY <1>1, <2>1 DEF Lookup
  <2>3. Sound(led)
    <3> HIDE DEF found
    <3> QED BY <1>1, <2>1 DEF Sound, Lookup
  <2> HIDE DEF led
  <2> QED BY <1>2, <1>4, <2>2, <2>3, OneMoves
<1>5. \/ asker' = [asker EXCEPT ![s] = skipped]
      \/ found # NoFaq /\ asker' = [asker EXCEPT ![s] = led]
  BY DEF GetEntry
<1> QED BY <1>3, <1>4, <1>5

\* The rows a search takes from are live, and those within the level answer.
LEMMA TakeSound ==
    ASSUME LookupInv, NEW s \in Askers, NEW found \in SUBSET Candidates(s), NEW exact \in BOOLEAN,
           Searching(s), asker[s].exact = exact, Take(s, found, exact),
           exact => asker[s].open \subseteq found,
           UNCHANGED <<faq_row, faq_enabled, entry_of, editor, misled, edits, redis_errors>>
    PROVE  LookupInv'
<1> DEFINE x == asker[s]
           allowed == {f \in found : faq_row[f].level <= x.level}
<1>1. x \in Lookup /\ x.stage = "entries" /\ Sound(x)
  BY AskerCases DEF Searching, LookupInv, AllSound
<1>2. redis_errors' \in 0..MaxRedisErrors
  BY DEF LookupInv, LookupTypeOK
<1>3. CASE allowed # {}
  <2>1. PICK f \in allowed : asker' = [asker EXCEPT ![s].stage = "flush", ![s].faq = f, ![s].exact = exact]
    BY <1>3 DEF Take
  <2> DEFINE y == [x EXCEPT !.stage = "flush", !.faq = f, !.exact = exact]
  <2>2. asker' = [asker EXCEPT ![s] = y]
    BY <2>1 DEF LookupInv, LookupTypeOK
  <2>3. f \in Faqs /\ Answers(faq_row[f], x.level)
    BY DEF Candidates, Answers
  <2>4. y \in Lookup
    BY <1>1, <2>3 DEF Lookup
  <2>5. Sound(y)
    BY <1>1, <2>3 DEF Sound, Lookup
  <2> HIDE DEF y
  <2> QED BY <1>2, <2>2, <2>4, <2>5, OneMoves
<1>4. CASE allowed = {}
  <2>1. exact => x.open = {}
    BY <1>1, <1>4, AskerCases DEF Sound, Answers, LookupInv
  <2>2. CASE exact
    <3> DEFINE denied == x.denied \/ found # {}
               y == [x EXCEPT !.denied = denied, !.exact = FALSE]
    <3>1. asker' = [asker EXCEPT ![s] = y]
      BY <1>4, <2>2 DEF Take, LookupInv, LookupTypeOK
    <3>2. denied \in BOOLEAN
      OBVIOUS
    <3>3. y \in Lookup /\ y.open = {}
      <4> HIDE DEF denied
      <4> QED BY <1>1, <2>1, <2>2, <3>2 DEF Lookup
    <3>4. Sound(y)
      <4> HIDE DEF denied
      <4> QED BY <1>1, <2>1, <2>2, <3>2 DEF Sound, Lookup
    <3> HIDE DEF y
    <3> QED BY <1>2, <3>1, <3>3, <3>4, OneMoves
  <2>3. CASE ~exact
    <3> PICK o \in {"denied", "missed"} : asker' = [asker EXCEPT ![s].stage = "ended", ![s].outcome = o]
      BY <1>4, <2>3 DEF Take
    <3> DEFINE y == [x EXCEPT !.stage = "ended", !.outcome = o]
    <3>1. asker' = [asker EXCEPT ![s] = y]
      BY DEF LookupInv, LookupTypeOK
    <3>2. x.open = {}
      BY <1>1, <2>3 DEF Sound
    <3>3. y \in Lookup
      BY <1>1 DEF Lookup
    <3>4. Sound(y)
      BY <1>1, <3>2 DEF Sound, Lookup
    <3> HIDE DEF y
    <3> QED BY <1>2, <3>1, <3>3, <3>4, OneMoves
  <2> QED BY <2>2, <2>3
<1> QED BY <1>3, <1>4

LEMMA SearchKeeps ==
    ASSUME LookupInv, NEW s \in Askers, SelectRows(s) \/ SearchByMeaning(s)
    PROVE  LookupInv'
<1>1. CASE SelectRows(s)
  <2> DEFINE found == {f \in Candidates(s) : faq_row[f].question = asker[s].question}
  <2>1. asker[s] \in Lookup /\ Sound(asker[s])
    BY <1>1, AskerCases DEF SelectRows, Searching, LookupInv, AllSound
  <2>2. asker[s].open \subseteq found
    BY <2>1, AskerCases DEF Sound, Candidates, Answers, LookupInv
  <2>3. found \in SUBSET Candidates(s) /\ asker[s].exact = TRUE
    BY <1>1, <2>1 DEF SelectRows, Lookup
  <2> QED BY <1>1, <2>2, <2>3, TakeSound DEF SelectRows
<1>2. CASE SearchByMeaning(s)
  <2>1. PICK near \in SUBSET Candidates(s) : Take(s, near, FALSE)
    BY <1>2 DEF SearchByMeaning
  <2>2. asker[s].exact = FALSE
    BY <1>2, AskerCases DEF SearchByMeaning, Searching, LookupInv
  <2> QED BY <1>2, <2>1, <2>2, TakeSound DEF SearchByMeaning
<1> QED BY <1>1, <1>2

\* A row that is counted is locked, and its question is that of the entry or not.
LEMMA FlushKeeps ==
    ASSUME LookupInv, NEW s \in Askers, FlushHit(s)
    PROVE  LookupInv'
<1> DEFINE x == asker[s]
           r == faq_row[x.faq]
<1>1. x \in Lookup /\ x.stage = "flush" /\ Sound(x) /\ x.faq \in Faqs /\ ~LockedByEditor(x.faq)
  BY AskerCases DEF FlushHit, LookupInv, AllSound, Sound
<1>2. redis_errors' \in 0..MaxRedisErrors /\ UNCHANGED <<faq_row, faq_enabled, entry_of, editor, misled, edits>>
  BY DEF FlushHit, LookupInv, LookupTypeOK
<1>3. CASE ~IsRow(r)
  <2> DEFINE y == [x EXCEPT !.stage = "ended", !.faq = NoFaq, !.outcome = "failed"]
  <2>1. asker' = [asker EXCEPT ![s] = y]
    BY <1>3 DEF FlushHit
  <2>2. y \in Lookup
    BY <1>1 DEF Lookup
  <2>3. Sound(y)
    BY <1>1 DEF Sound, Lookup
  <2> HIDE DEF y
  <2> QED BY <1>2, <2>1, <2>2, <2>3, OneMoves
<1>4. CASE IsRow(r) /\ x.exact
  <2> DEFINE crossed == r.question # x.question
             y == [x EXCEPT !.stage = "write", !.locks = TRUE, !.crossed = crossed]
  <2>1. asker' = [asker EXCEPT ![s] = y]
    BY <1>4 DEF FlushHit
  <2>2. crossed \in BOOLEAN /\ (~crossed => r.question = x.question)
    OBVIOUS
  <2>3. y \in Lookup
    <3> HIDE DEF crossed
    <3> QED BY <1>1, <2>2 DEF Lookup
  <2>4. Sound(y)
    <3> HIDE DEF crossed
    <3> QED BY <1>1, <1>4, <2>2 DEF Sound, Lookup
  <2> HIDE DEF y
  <2> QED BY <1>2, <2>1, <2>3, <2>4, OneMoves
<1>5. CASE IsRow(r) /\ ~x.exact
  <2> DEFINE y == [x EXCEPT !.stage = "ended", !.locks = TRUE, !.outcome = "answered"]
  <2>1. asker' = [asker EXCEPT ![s] = y]
    BY <1>5 DEF FlushHit
  <2>2. y \in Lookup
    BY <1>1 DEF Lookup
  <2>3. Sound(y)
    BY <1>1 DEF Sound, Lookup
  <2> HIDE DEF y
  <2> QED BY <1>2, <2>1, <2>2, <2>3, OneMoves
<1> QED BY <1>3, <1>4, <1>5

LEMMA EndKeeps ==
    ASSUME LookupInv, NEW s \in Askers, EndLookup(s)
    PROVE  LookupInv'
<1>1. NoLookup \notin Lookup
  BY DEF Lookup, NoLookup
<1> QED BY <1>1, OneMoves DEF EndLookup, LookupInv, LookupTypeOK

\* An entry that leads to no live row is removed; one that is within the level
\* is an answer.
LEMMA CheckKeeps ==
    ASSUME LookupInv, NEW s \in Askers, CheckRow(s)
    PROVE  LookupInv'
<1> DEFINE x == asker[s]
           r == faq_row[x.faq]
           h == Home[x.faq]
<1>1. x \in Lookup /\ x.stage = "row" /\ Sound(x) /\ x.faq \in Faqs /\ x.question \in Asked
  BY AskerCases DEF CheckRow, LookupInv, AllSound, Sound
<1>2. redis_errors' \in 0..MaxRedisErrors /\ UNCHANGED <<faq_row, faq_enabled, editor, misled, edits>>
  BY RedisCounts DEF CheckRow, LookupInv
<1>3. CASE r.live /\ r.level > x.level
  <2> DEFINE y == [x EXCEPT !.stage = "entries", !.faq = NoFaq, !.denied = TRUE]
  <2>1. asker' = [asker EXCEPT ![s] = y] /\ entry_of' = entry_of
    BY <1>3 DEF CheckRow
  <2>2. y \in Lookup
    BY <1>1 DEF Lookup
  <2>3. Sound(y)
    BY <1>1 DEF Sound, Lookup
  <2> HIDE DEF y
  <2> QED BY <1>2, <2>1, <2>2, <2>3, OneMoves
<1>4. CASE r.live /\ ~(r.level > x.level)
  <2> DEFINE y == [x EXCEPT !.stage = "ended", !.outcome = "answered"]
  <2>1. asker' = [asker EXCEPT ![s] = y] /\ entry_of' = entry_of
    BY <1>4 DEF CheckRow
  <2>2. Answers(r, x.level)
    BY <1>1, <1>4, RowCases, AskerCases, FaqLookupAssumption DEF Answers, LookupInv
  <2>3. y \in Lookup
    BY <1>1 DEF Lookup
  <2>4. Sound(y)
    BY <1>1, <2>2 DEF Sound, Lookup
  <2> HIDE DEF y
  <2> QED BY <1>2, <2>1, <2>3, <2>4, OneMoves
<1>5. CASE ~r.live
  <2> DEFINE y == [x EXCEPT !.stage = "entries", !.faq = NoFaq]
  <2>1. /\ asker' = [asker EXCEPT ![s] = y]
        /\ entry_of' = entry_of \/ entry_of' = [entry_of EXCEPT ![h][x.question] = NoFaq]
    BY <1>5 DEF CheckRow
  <2>2. y \in Lookup
    BY <1>1 DEF Lookup
  <2>3. Sound(y)
    BY <1>1 DEF Sound, Lookup
  <2>4. CASE entry_of' = entry_of
    <3> HIDE DEF y
    <3> QED BY <1>2, <2>1, <2>2, <2>3, <2>4, OneMoves
  <2>5. CASE entry_of' = [entry_of EXCEPT ![h][x.question] = NoFaq]
    <3>1. LookupTypeOK'
      <4> HIDE DEF y
      <4> QED BY <1>1, <1>2, <2>1, <2>2, <2>5, FaqLookupAssumption DEF LookupInv, LookupTypeOK
    <3>2. \A z : Sound(z)' <=> Sound(z)
      BY <1>2 DEF Sound, LockedByEditor
    <3>3. AllSound'
      <4> SUFFICES ASSUME NEW t \in Askers, asker'[t] \in Lookup PROVE Sound(asker'[t])
        BY <3>2 DEF AllSound
      <4> HIDE DEF y
      <4> QED BY <2>1, <2>3 DEF LookupInv, LookupTypeOK, AllSound
    <3>4. \A b \in Bases, q \in Asked : entry_of'[b][q] = entry_of[b][q] \/ entry_of'[b][q] = NoFaq
      BY <2>5 DEF LookupInv, LookupTypeOK
    <3>5. Entered'
      BY <1>2, <3>4, FewerEntries
    <3> QED BY <3>1, <3>3, <3>5 DEF LookupInv
  <2> QED BY <2>1, <2>4, <2>5
<1> QED BY <1>1, <1>3, <1>4, <1>5, RowCases DEF LookupInv

\* The entry that is made leads to a row that is locked, and to its question
\* unless it was crossed.
LEMMA WriteKeeps ==
    ASSUME LookupInv, NEW s \in Askers, WriteEntry(s)
    PROVE  LookupInv'
<1> DEFINE x == asker[s]
           h == Home[x.faq]
           y == [x EXCEPT !.stage = "ended", !.outcome = "answered"]
<1>1. /\ x \in Lookup /\ x.stage = "write" /\ Sound(x) /\ x.faq \in Faqs /\ x.question \in Asked
      /\ x.locks /\ IsRow(faq_row[x.faq]) /\ ~LockedByEditor(x.faq) /\ h \in Bases
  BY AskerCases, FaqLookupAssumption DEF WriteEntry, LookupInv, AllSound, Sound
<1>2. /\ redis_errors' \in 0..MaxRedisErrors /\ UNCHANGED <<faq_row, faq_enabled, editor, edits>>
      /\ asker' = [asker EXCEPT ![s] = y]
  BY RedisCounts DEF WriteEntry, LookupInv
<1>3. y \in Lookup
  BY <1>1 DEF Lookup
<1>4. Sound(y)
  BY <1>1 DEF Sound, Lookup
<1>5. CASE UNCHANGED <<entry_of, misled>>
  <2> HIDE DEF y
  <2> QED BY <1>2, <1>3, <1>4, <1>5, OneMoves
<1>6. CASE /\ entry_of' = [entry_of EXCEPT ![h][x.question] = x.faq]
           /\ x.crossed => misled' = misled \cup {<<h, x.question>>}
           /\ ~x.crossed => misled' = misled \ {<<h, x.question>>}
  <2>1. misled' \subseteq Bases \X Asked
    BY <1>1, <1>6, AskerCases DEF LookupInv, LookupTypeOK
  <2>2. LookupTypeOK'
    <3> HIDE DEF y
    <3> QED BY <1>1, <1>2, <1>3, <1>6, <2>1 DEF LookupInv, LookupTypeOK
  <2>3. \A z : Sound(z)' <=> Sound(z)
    BY <1>2 DEF Sound, LockedByEditor
  <2>4. AllSound'
    <3> SUFFICES ASSUME NEW t \in Askers, asker'[t] \in Lookup PROVE Sound(asker'[t])
      BY <2>3 DEF AllSound
    <3> HIDE DEF y
    <3> QED BY <1>2, <1>4 DEF LookupInv, LookupTypeOK, AllSound
  <2>5. /\ entry_of'[h][x.question] = x.faq
        /\ \A b \in Bases, q \in Asked : <<b, q>> # <<h, x.question>> =>
              entry_of'[b][q] = entry_of[b][q] /\ (<<b, q>> \in misled' <=> <<b, q>> \in misled)
        /\ <<h, x.question>> \in misled' \/ faq_row[x.faq].question = x.question
    <3>1. entry_of'[h][x.question] = x.faq
      BY <1>1, <1>6 DEF LookupInv, LookupTypeOK
    <3>2. ASSUME NEW b \in Bases, NEW q \in Asked, <<b, q>> # <<h, x.question>>
          PROVE  entry_of'[b][q] = entry_of[b][q] /\ (<<b, q>> \in misled' <=> <<b, q>> \in misled)
      <4>1. <<b, q>> \in misled' <=> <<b, q>> \in misled
        BY <1>6, <3>2
      <4>2. entry_of'[b][q] = entry_of[b][q]
        BY <1>1, <1>6, <3>2 DEF LookupInv, LookupTypeOK
      <4> QED BY <4>1, <4>2
    <3>3. <<h, x.question>> \in misled' \/ faq_row[x.faq].question = x.question
      BY <1>1, <1>6 DEF Sound
    <3> QED BY <3>1, <3>2, <3>3
  <2>6. EntriesAtHome' /\ Kinds'
    <3>1. Kinds'
      BY <1>2 DEF LookupInv, Entered, Kinds
    <3>2. ASSUME NEW b \in Bases, NEW q \in Asked, entry_of'[b][q] \in Faqs PROVE Home[entry_of'[b][q]] = b
      <4>1. CASE <<b, q>> = <<h, x.question>>
        BY <2>5, <4>1
      <4>2. CASE <<b, q>> # <<h, x.question>>
        BY ZenonT(30), <2>5, <3>2, <4>2 DEF LookupInv, Entered, EntriesAtHome
      <4> QED BY <4>1, <4>2
    <3> QED BY <3>1, <3>2 DEF EntriesAtHome
  <2>7. ClearedEarly'
    <3> SUFFICES ASSUME NEW e \in Editors, editor[e] \in Edit, editor[e].stage = "cleared",
                        editor[e].kind = "early", NEW q \in Asked,
                        entry_of'[Home[editor[e].faq]][q] = editor[e].faq
                 PROVE  <<Home[editor[e].faq], q>> \in misled'
      BY <1>2 DEF ClearedEarly
    <3>1. editor[e].faq # x.faq
      BY <1>1 DEF LockedByEditor
    <3>2. Home[editor[e].faq] \in Bases
      BY EditorCases, FaqLookupAssumption DEF LookupInv
    <3>3. <<Home[editor[e].faq], q>> # <<h, x.question>>
      BY <2>5, <3>1
    <3> QED BY <2>5, <3>2, <3>3 DEF LookupInv, Entered, ClearedEarly
  <2>8. EntriesLead'
    <3> SUFFICES ASSUME NEW b \in Bases, NEW q \in Asked, entry_of'[b][q] # NoFaq, IsRow(faq_row[entry_of'[b][q]])
                 PROVE  \/ faq_row[entry_of'[b][q]].question = q
                        \/ <<b, q>> \in misled'
                        \/ \E e \in Editors : editor[e].stage = "committed" /\ Home[editor[e].faq] = b
      BY <1>2 DEF EntriesLead
    <3>1. CASE <<b, q>> = <<h, x.question>>
      BY <2>5, <3>1
    <3>2. CASE <<b, q>> # <<h, x.question>>
      BY <2>5, <3>2 DEF LookupInv, Entered, EntriesLead
    <3> QED BY <3>1, <3>2
  <2> QED BY <2>2, <2>4, <2>6, <2>7, <2>8 DEF LookupInv, Entered
<1>7. \/ UNCHANGED <<entry_of, misled>>
      \/ /\ entry_of' = [entry_of EXCEPT ![h][x.question] = x.faq]
         /\ x.crossed => misled' = misled \cup {<<h, x.question>>}
         /\ ~x.crossed => misled' = misled \ {<<h, x.question>>}
  BY DEF WriteEntry
<1> QED BY <1>5, <1>6, <1>7

-----------------------------------------------------------------------------
(* Writers *)

\* A step of writers that leaves rows and lookups alone, and locks no row a
\* lookup has locked.
LEMMA WritersMove ==
    ASSUME LookupInv, UNCHANGED <<faq_row, asker>>,
           faq_enabled' \in [Bases -> BOOLEAN], entry_of' \in [Bases -> [Asked -> Faqs \cup {NoFaq}]],
           editor' \in [Editors -> Edit \cup {NoEdit}], misled' \subseteq Bases \X Asked,
           edits' \in 0..MaxEdits, redis_errors' \in 0..MaxRedisErrors,
           \A f \in Faqs : LockedByEditor(f)' => LockedByEditor(f) \/ ~LockedByAsker(f)
    PROVE  LookupTypeOK' /\ AllSound'
<1>1. LookupTypeOK'
  BY DEF LookupInv, LookupTypeOK
<1>2. AllSound'
  <2> SUFFICES ASSUME NEW t \in Askers, asker[t] \in Lookup PROVE Sound(asker[t])'
    BY DEF AllSound
  <2>1. Sound(asker[t])
    BY DEF LookupInv, AllSound
  <2>2. asker[t].locks => asker[t].faq \in Faqs /\ LockedByAsker(asker[t].faq)
    BY <2>1, AskerCases DEF Sound, LockedByAsker, LookupInv
  <2> QED BY <2>1, <2>2 DEF Sound
<1> QED BY <1>1, <1>2

\* The clearing of a base leaves no entry of it that is not known to mislead.
LEMMA ClearFacts ==
    ASSUME LookupInv, NEW b \in Bases, Clear(b)
    PROVE  /\ entry_of' \in [Bases -> [Asked -> Faqs \cup {NoFaq}]]
           /\ misled' \subseteq Bases \X Asked /\ redis_errors' \in 0..MaxRedisErrors
           /\ \A c \in Bases, q \in Asked :
                 /\ entry_of'[c][q] = entry_of[c][q] \/ entry_of'[c][q] = NoFaq
                 /\ c # b /\ <<c, q>> \in misled => <<c, q>> \in misled'
                 /\ c = b /\ entry_of'[c][q] # NoFaq => <<c, q>> \in misled'
<1>1. redis_errors' \in 0..MaxRedisErrors
  BY RedisCounts DEF Clear, LookupInv
<1>2. CASE /\ entry_of' = [entry_of EXCEPT ![b] = [q \in Asked |-> NoFaq]]
           /\ misled' = {k \in misled : k[1] # b}
  <2>1. entry_of' \in [Bases -> [Asked -> Faqs \cup {NoFaq}]] /\ misled' \subseteq Bases \X Asked
    BY <1>2 DEF LookupInv, LookupTypeOK
  <2>2. ASSUME NEW c \in Bases, NEW q \in Asked
        PROVE  /\ entry_of'[c][q] = entry_of[c][q] \/ entry_of'[c][q] = NoFaq
               /\ c # b /\ <<c, q>> \in misled => <<c, q>> \in misled'
               /\ c = b => entry_of'[c][q] = NoFaq
    BY <1>2 DEF LookupInv, LookupTypeOK
  <2> QED BY <1>1, <2>1, <2>2
<1>3. CASE /\ entry_of' = entry_of
           /\ misled' = misled \cup {<<b, q>> : q \in {p \in Asked : entry_of[b][p] # NoFaq}}
  <2>1. misled' \subseteq Bases \X Asked
    BY <1>3 DEF LookupInv, LookupTypeOK
  <2>2. ASSUME NEW c \in Bases, NEW q \in Asked
        PROVE  /\ <<c, q>> \in misled => <<c, q>> \in misled'
               /\ c = b /\ entry_of[c][q] # NoFaq => <<c, q>> \in misled'
    BY <1>3
  <2> QED BY <1>1, <1>3, <2>1, <2>2 DEF LookupInv, LookupTypeOK
<1> QED BY <1>2, <1>3 DEF Clear

\* A writer that clears is the only one whose clearing was still to come.
LEMMA ClearKeeps ==
    ASSUME LookupInv, NEW b \in Bases, Clear(b), UNCHANGED faq_row, editor' \in [Editors -> Edit \cup {NoEdit}],
           \A e \in Editors : editor'[e] # editor[e] =>
              /\ editor[e].stage = "committed" => Home[editor[e].faq] = b
              /\ editor'[e] \in Edit => \/ editor'[e].stage = "cleared" /\ editor'[e].kind = "reject"
                                       \/ /\ editor'[e].stage = "cleared" /\ editor'[e].kind = "early"
                                          /\ Home[editor'[e].faq] = b
    PROVE  Entered'
<1>1. EntriesAtHome'
  <2> SUFFICES ASSUME NEW c \in Bases, NEW q \in Asked, entry_of'[c][q] \in Faqs
               PROVE  Home[entry_of'[c][q]] = c
    BY DEF EntriesAtHome
  <2>1. entry_of'[c][q] = entry_of[c][q]
    BY ClearFacts, FaqLookupAssumption
  <2> QED BY <2>1 DEF LookupInv, Entered, EntriesAtHome
<1>2. Kinds'
  <2> SUFFICES ASSUME NEW e \in Editors, editor'[e] \in Edit
               PROVE  /\ editor'[e].stage = "flushed" => editor'[e].kind \in {"late", "early"}
                      /\ editor'[e].stage = "cleared" => editor'[e].kind \in {"early", "reject"}
                      /\ editor'[e].stage = "committed" => editor'[e].kind = "late"
    BY DEF Kinds
  <2>1. CASE editor'[e] = editor[e]
    BY <2>1 DEF LookupInv, Entered, Kinds
  <2>2. CASE editor'[e] # editor[e]
    BY <2>2
  <2> QED BY <2>1, <2>2
<1>3. ClearedEarly'
  <2> SUFFICES ASSUME NEW e \in Editors, editor'[e] \in Edit, editor'[e].stage = "cleared",
                      editor'[e].kind = "early", NEW q \in Asked,
                      entry_of'[Home[editor'[e].faq]][q] = editor'[e].faq
               PROVE  <<Home[editor'[e].faq], q>> \in misled'
    BY DEF ClearedEarly
  <2>1. editor'[e].faq \in Faqs /\ Home[editor'[e].faq] \in Bases /\ editor'[e].faq # NoFaq
    BY FaqLookupAssumption DEF Edit
  <2>2. CASE Home[editor'[e].faq] = b
    BY <2>1, <2>2, ClearFacts
  <2>3. CASE Home[editor'[e].faq] # b
    <3>1. editor'[e] = editor[e]
      BY <2>3
    <3>2. entry_of[Home[editor[e].faq]][q] = editor[e].faq
      BY <2>1, <3>1, ClearFacts
    <3>3. <<Home[editor[e].faq], q>> \in misled
      BY <3>1, <3>2 DEF LookupInv, Entered, ClearedEarly
    <3> QED BY <2>1, <2>3, <3>1, <3>3, ClearFacts
  <2> QED BY <2>2, <2>3
<1>4. EntriesLead'
  <2> SUFFICES ASSUME NEW c \in Bases, NEW q \in Asked, entry_of'[c][q] # NoFaq, IsRow(faq_row[entry_of'[c][q]])
               PROVE  \/ faq_row[entry_of'[c][q]].question = q
                      \/ <<c, q>> \in misled'
                      \/ \E e \in Editors : editor'[e].stage = "committed" /\ Home[editor'[e].faq] = c
    BY DEF EntriesLead
  <2>1. CASE c = b
    BY <2>1, ClearFacts
  <2>2. CASE c # b
    <3>1. entry_of'[c][q] = entry_of[c][q]
      BY ClearFacts
    <3>2. \/ faq_row[entry_of[c][q]].question = q
          \/ <<c, q>> \in misled
          \/ \E e \in Editors : editor[e].stage = "committed" /\ Home[editor[e].faq] = c
      BY <3>1 DEF LookupInv, Entered, EntriesLead
    <3>3. ASSUME NEW e \in Editors, editor[e].stage = "committed", Home[editor[e].faq] = c
          PROVE  editor'[e].stage = "committed" /\ Home[editor'[e].faq] = c
      BY <2>2, <3>3
    <3> QED BY <2>2, <3>1, <3>2, <3>3, ClearFacts
  <2> QED BY <2>1, <2>2
<1> QED BY <1>1, <1>2, <1>3, <1>4 DEF Entered

LEMMA BeginEditKeeps ==
    ASSUME LookupInv, NEW e \in Editors, NEW kind \in {"late", "early", "reject"}, NEW f \in Faqs,
           NEW new \in LookupRow \cup {NoRow_}, BeginEdit(e, kind, f, new)
    PROVE  LookupInv'
<1> DEFINE stage == IF kind = "reject" THEN "cleared" ELSE "flushed"
           x == [stage |-> stage, kind |-> kind, faq |-> f, new |-> new]
<1>1. /\ editor' = [editor EXCEPT ![e] = x] /\ editor[e] = NoEdit
      /\ edits' = edits + 1 /\ edits < MaxEdits /\ UNCHANGED <<faq_row, faq_enabled, asker>>
  BY DEF BeginEdit
<1>2. x \in Edit /\ x.stage = stage /\ x.kind = kind /\ x.faq = f
  BY DEF Edit
<1>3. edits' \in 0..MaxEdits /\ faq_enabled' \in [Bases -> BOOLEAN] /\ Home[f] \in Bases
  BY <1>1, FaqLookupAssumption DEF LookupInv, LookupTypeOK
<1>4. editor' \in [Editors -> Edit \cup {NoEdit}] /\ editor'[e] = x /\ \A d \in Editors : d # e => editor'[d] = editor[d]
  <2> HIDE DEF x
  <2> QED BY <1>1, <1>2 DEF LookupInv, LookupTypeOK
<1>5. \A g \in Faqs : LockedByEditor(g)' => LockedByEditor(g) \/ ~LockedByAsker(g)
  <2>1. CASE kind = "reject"
    <3> HIDE DEF x
    <3> QED BY <1>2, <1>4, <2>1 DEF LockedByEditor
  <2>2. CASE kind # "reject"
    <3>1. ~LockedByAsker(f)
      BY <2>2 DEF BeginEdit
    <3> HIDE DEF x
    <3> QED BY <1>2, <1>4, <3>1 DEF LockedByEditor
  <2> QED BY <2>1, <2>2
<1>6. CASE kind = "reject"
  <2>1. Clear(Home[f])
    BY <1>6 DEF BeginEdit
  <2>2. LookupTypeOK' /\ AllSound'
    <3> HIDE DEF x
    <3> QED BY <1>1, <1>3, <1>4, <1>5, <2>1, ClearFacts, WritersMove
  <2>3. editor[e].stage # "committed"
    BY <1>1 DEF NoEdit
  <2>4. x.stage = "cleared" /\ x.kind = "reject"
    BY <1>2, <1>6
  <2>5. Entered'
    <3> HIDE DEF x
    <3> QED BY <1>1, <1>3, <1>4, <2>1, <2>3, <2>4, ClearKeeps
  <2> QED BY <2>2, <2>5 DEF LookupInv
<1>7. CASE kind # "reject"
  <2>1. UNCHANGED <<entry_of, misled, redis_errors>>
    BY <1>7 DEF BeginEdit, RedisWorks
  <2>2. LookupTypeOK' /\ AllSound'
    <3> HIDE DEF x
    <3> QED BY <1>1, <1>3, <1>4, <1>5, <2>1, WritersMove DEF LookupInv, LookupTypeOK
  <2>3. x.stage = "flushed" /\ x.kind \in {"late", "early"} /\ editor[e].stage # "committed"
    BY <1>1, <1>2, <1>7 DEF NoEdit
  <2>4. EntriesAtHome' /\ Kinds' /\ ClearedEarly'
    <3> HIDE DEF x
    <3> QED BY <1>4, <2>1, <2>3 DEF LookupInv, Entered, EntriesAtHome, Kinds, ClearedEarly
  <2>5. EntriesLead'
    <3> HIDE DEF x
    <3> QED BY <1>1, <1>4, <2>1, <2>3 DEF LookupInv, Entered, EntriesLead
  <2> QED BY <2>2, <2>4, <2>5 DEF LookupInv, Entered
<1> QED BY <1>6, <1>7

LEMMA ClearingKeeps ==
    ASSUME LookupInv, NEW e \in Editors, ClearEarly(e) \/ ClearLate(e)
    PROVE  LookupInv'
<1> DEFINE b == Home[editor[e].faq]
<1>1. editor[e] \in Edit /\ b \in Bases
  BY EditorCases, FaqLookupAssumption DEF ClearEarly, ClearLate, LookupInv
<1>2. Clear(b) /\ UNCHANGED <<faq_row, faq_enabled, asker, edits>>
  BY DEF ClearEarly, ClearLate
<1>3. PICK x \in Edit \cup {NoEdit} :
        /\ editor' = [editor EXCEPT ![e] = x]
        /\ x \in Edit => /\ x.stage = "cleared" /\ x.kind = "early" /\ x.faq = editor[e].faq
                        /\ editor[e].stage = "flushed" /\ editor[e].kind = "early"
  <2>1. CASE ClearEarly(e)
    <3> DEFINE x == [editor[e] EXCEPT !.stage = "cleared"]
    <3>1. editor' = [editor EXCEPT ![e] = x] /\ editor[e].stage = "flushed" /\ editor[e].kind = "early"
      BY <2>1 DEF ClearEarly
    <3>2. x \in Edit /\ x.stage = "cleared" /\ x.kind = "early" /\ x.faq = editor[e].faq
      BY <1>1, <3>1 DEF Edit
    <3> HIDE DEF x
    <3> QED BY <3>1, <3>2
  <2>2. CASE ClearLate(e)
    <3>1. NoEdit \notin Edit
      BY DEF Edit, NoEdit
    <3> QED BY <2>2, <3>1 DEF ClearLate
  <2> QED BY <2>1, <2>2
<1>4. editor' \in [Editors -> Edit \cup {NoEdit}] /\ editor'[e] = x /\ \A d \in Editors : d # e => editor'[d] = editor[d]
  BY <1>3 DEF LookupInv, LookupTypeOK
<1>5. \A g \in Faqs : LockedByEditor(g)' => LockedByEditor(g)
  BY <1>3, <1>4, EditorCases DEF LockedByEditor, NoEdit
<1>6. LookupTypeOK' /\ AllSound'
  BY <1>1, <1>2, <1>4, <1>5, ClearFacts, WritersMove DEF LookupInv, LookupTypeOK
<1>7. Entered'
  BY <1>1, <1>2, <1>3, <1>4, ClearKeeps
<1> QED BY <1>6, <1>7 DEF LookupInv

LEMMA AbortKeeps ==
    ASSUME LookupInv, NEW e \in Editors, AbortEdit(e)
    PROVE  LookupInv'
<1>1. /\ editor' = [editor EXCEPT ![e] = NoEdit] /\ editor[e].stage # "committed"
      /\ UNCHANGED <<faq_row, faq_enabled, entry_of, asker, misled, edits, redis_errors>>
  BY DEF AbortEdit
<1>2. editor' \in [Editors -> Edit \cup {NoEdit}] /\ editor'[e] = NoEdit /\ \A d \in Editors : d # e => editor'[d] = editor[d]
  BY <1>1 DEF LookupInv, LookupTypeOK
<1>3. NoEdit \notin Edit /\ NoEdit.stage = "idle"
  BY DEF Edit, NoEdit
<1>4. \A g \in Faqs : LockedByEditor(g)' => LockedByEditor(g)
  BY <1>2, <1>3 DEF LockedByEditor
<1>5. LookupTypeOK' /\ AllSound'
  BY <1>1, <1>2, <1>4, WritersMove DEF LookupInv, LookupTypeOK
<1>6. EntriesAtHome' /\ Kinds' /\ ClearedEarly'
  BY <1>1, <1>2, <1>3 DEF LookupInv, Entered, EntriesAtHome, Kinds, ClearedEarly
<1>7. EntriesLead'
  BY <1>1, <1>2 DEF LookupInv, Entered, EntriesLead
<1> QED BY <1>5, <1>6, <1>7 DEF LookupInv, Entered

LEMMA ToggleKeeps ==
    ASSUME LookupInv, NEW b \in Bases, ToggleFaq(b)
    PROVE  LookupInv'
<1>1. faq_enabled' \in [Bases -> BOOLEAN] /\ UNCHANGED <<faq_row, asker, editor>>
  BY DEF ToggleFaq, LookupInv, LookupTypeOK
<1>2. edits' \in 0..MaxEdits
  BY FaqLookupAssumption DEF ToggleFaq, LookupInv, LookupTypeOK
<1>3. \A g \in Faqs : LockedByEditor(g)' => LockedByEditor(g)
  BY <1>1 DEF LockedByEditor
<1>4. CASE Clear(b)
  <2>1. LookupTypeOK' /\ AllSound'
    BY <1>1, <1>2, <1>3, <1>4, ClearFacts, WritersMove DEF LookupInv, LookupTypeOK
  <2>2. Entered'
    BY <1>1, <1>4, ClearKeeps DEF LookupInv, LookupTypeOK
  <2> QED BY <2>1, <2>2 DEF LookupInv
<1>5. CASE UNCHANGED <<entry_of, misled, redis_errors>>
  <2>1. LookupTypeOK' /\ AllSound'
    BY <1>1, <1>2, <1>3, <1>5, WritersMove DEF LookupInv, LookupTypeOK
  <2>2. Entered'
    BY <1>1, <1>5, FewerEntries
  <2> QED BY <2>1, <2>2 DEF LookupInv
<1> QED BY <1>4, <1>5 DEF ToggleFaq, RedisWorks

LEMMA ExpireKeeps ==
    ASSUME LookupInv, NEW b \in Bases, NEW q \in Asked, ExpireEntry(b, q)
    PROVE  LookupInv'
<1>1. /\ entry_of' = [entry_of EXCEPT ![b][q] = NoFaq]
      /\ UNCHANGED <<faq_row, faq_enabled, asker, editor, misled, edits, redis_errors>>
  BY DEF ExpireEntry
<1>2. \A g \in Faqs : LockedByEditor(g)' => LockedByEditor(g)
  BY <1>1 DEF LockedByEditor
<1>3. LookupTypeOK' /\ AllSound'
  <2>1. entry_of' \in [Bases -> [Asked -> Faqs \cup {NoFaq}]]
    BY <1>1 DEF LookupInv, LookupTypeOK
  <2> QED BY <1>1, <1>2, <2>1, WritersMove DEF LookupInv, LookupTypeOK
<1>4. \A c \in Bases, p \in Asked : entry_of'[c][p] = entry_of[c][p] \/ entry_of'[c][p] = NoFaq
  BY <1>1 DEF LookupInv, LookupTypeOK
<1> QED BY <1>1, <1>3, <1>4, FewerEntries DEF LookupInv

\* A commit changes a row that no lookup has locked; entries that lead to it
\* are still to be cleared, or known to mislead, or ask what it asked before.
LEMMA CommitKeeps ==
    ASSUME LookupInv, NEW e \in Editors, CommitEdit(e)
    PROVE  LookupInv'
<1> DEFINE x == editor[e]
           f == x.faq
           new == IF x.kind = "reject" /\ IsRow(faq_row[f]) THEN [faq_row[f] EXCEPT !.live = FALSE]
                  ELSE IF x.kind = "reject" THEN NoRow_ ELSE x.new
           rest == IF x.kind = "late" THEN [x EXCEPT !.stage = "committed"] ELSE NoEdit
           after(a) == [a EXCEPT !.silent = IF Answers(new, a.level) THEN @ \ {f} ELSE @, !.open = @ \ {f}]
<1>1. /\ x \in Edit /\ f \in Faqs /\ Home[f] \in Bases /\ x.kind \in {"late", "early", "reject"}
      /\ \/ x.stage = "flushed" /\ x.kind = "late"
         \/ x.stage = "cleared" /\ x.kind \in {"early", "reject"}
      /\ x.new \in LookupRow \cup {NoRow_}
  <2>1. \/ x.stage = "flushed" /\ x.kind = "late"
        \/ x.stage = "cleared"
    BY DEF CommitEdit
  <2>2. x \in Edit
    BY <2>1, EditorCases DEF LookupInv
  <2>3. f \in Faqs /\ x.kind \in {"late", "early", "reject"} /\ x.new \in LookupRow \cup {NoRow_}
    BY <2>2, EditorCases DEF LookupInv
  <2>4. x.stage = "cleared" => x.kind \in {"early", "reject"}
    BY <2>2 DEF LookupInv, Entered, Kinds
  <2>5. Home[f] \in Bases
    BY <2>3, FaqLookupAssumption
  <2>6. \/ x.stage = "flushed" /\ x.kind = "late"
        \/ x.stage = "cleared" /\ x.kind \in {"early", "reject"}
    BY <2>1, <2>4, Zenon
  <2> QED BY <2>2, <2>3, <2>5, <2>6, Zenon
<1>2. /\ faq_row' = [faq_row EXCEPT ![f] = new]
      /\ asker' = [t \in Askers |-> IF asker[t] = NoLookup THEN NoLookup ELSE after(asker[t])]
      /\ editor' = [editor EXCEPT ![e] = rest]
      /\ UNCHANGED <<faq_enabled, entry_of, misled, edits, redis_errors>>
  BY DEF CommitEdit
<1>3. new \in LookupRow \cup {NoRow_}
  <2>1. CASE x.kind = "reject" /\ IsRow(faq_row[f])
    BY <1>1, <2>1, RowCases DEF LookupInv, LookupRow
  <2>2. CASE ~(x.kind = "reject" /\ IsRow(faq_row[f]))
    BY <1>1, <2>2
  <2> QED BY <2>1, <2>2
<1>4. faq_row'[f] = new /\ (\A g \in Faqs : g # f => faq_row'[g] = faq_row[g])
      /\ faq_row' \in [Faqs -> LookupRow \cup {NoRow_}]
  <2> HIDE DEF new
  <2> QED BY <1>1, <1>2, <1>3 DEF LookupInv, LookupTypeOK
<1>5. /\ rest \in Edit \cup {NoEdit}
      /\ rest \in Edit => rest.stage = "committed" /\ rest.kind = "late" /\ rest.faq = f /\ x.kind = "late"
      /\ x.kind = "late" => rest.stage = "committed" /\ rest.faq = f
      /\ rest.stage \notin {"flushed", "cleared"}
  BY <1>1 DEF Edit, NoEdit
<1>6. editor' \in [Editors -> Edit \cup {NoEdit}] /\ editor'[e] = rest /\ \A d \in Editors : d # e => editor'[d] = editor[d]
  <2> HIDE DEF rest
  <2> QED BY <1>2, <1>5 DEF LookupInv, LookupTypeOK
<1>7. \A g \in Faqs : LockedByEditor(g)' => LockedByEditor(g)
  <2> HIDE DEF rest
  <2> QED BY <1>5, <1>6 DEF LockedByEditor
<1>8. ASSUME NEW t \in Askers, asker[t] \in Lookup, asker[t].locks PROVE asker[t].faq # f
  <2>1. Sound(asker[t]) /\ LockedByAsker(asker[t].faq)
    BY <1>8, AskerCases DEF LookupInv, AllSound, LockedByAsker
  <2>2. CASE x.kind = "reject"
    <3>1. ~LockedByAsker(f)
      BY <1>1, <2>2 DEF CommitEdit
    <3> QED BY <2>1, <3>1
  <2>3. CASE x.kind # "reject"
    <3>1. LockedByEditor(f)
      BY <1>1, <2>3 DEF LockedByEditor
    <3> QED BY <1>8, <2>1, <3>1 DEF Sound
  <2> QED BY <2>2, <2>3
<1>9. ASSUME NEW t \in Askers, asker[t] \in Lookup
      PROVE  /\ asker'[t] \in Lookup
             /\ asker'[t].silent \subseteq asker[t].silent /\ asker'[t].open \subseteq asker[t].open \ {f}
             /\ f \in asker'[t].silent => ~Answers(new, asker[t].level)
             /\ asker'[t].stage = asker[t].stage /\ asker'[t].question = asker[t].question
             /\ asker'[t].level = asker[t].level /\ asker'[t].bases = asker[t].bases
             /\ asker'[t].faq = asker[t].faq /\ asker'[t].exact = asker[t].exact
             /\ asker'[t].crossed = asker[t].crossed /\ asker'[t].locks = asker[t].locks
             /\ asker'[t].outcome = asker[t].outcome
  <2> DEFINE silent == IF Answers(new, asker[t].level) THEN asker[t].silent \ {f} ELSE asker[t].silent
             open == asker[t].open \ {f}
             y == [asker[t] EXCEPT !.silent = silent, !.open = open]
  <2>1. asker'[t] = y
    BY <1>2, <1>9, AskerCases DEF LookupInv
  <2>2. silent \in SUBSET Faqs /\ open \in SUBSET Faqs /\ silent \subseteq asker[t].silent
        /\ (f \in silent => ~Answers(new, asker[t].level))
    <3> HIDE DEF new
    <3> QED BY <1>9, AskerCases DEF LookupInv
  <2> HIDE DEF silent
  <2> QED BY <1>9, <2>1, <2>2 DEF Lookup
<1>10. \A t \in Askers : asker[t] \notin Lookup => asker'[t] = NoLookup /\ NoLookup \notin Lookup
  <2>1. NoLookup \notin Lookup
    BY DEF Lookup, NoLookup
  <2> QED BY <1>2, <2>1, AskerCases DEF LookupInv
<1>11. LookupTypeOK'
  <2>1. asker' \in [Askers -> Lookup \cup {NoLookup}]
    <3>1. DOMAIN asker' = Askers /\ asker' = [t \in Askers |-> asker'[t]]
      BY <1>2, Zenon
    <3> QED BY <1>9, <1>10, <3>1
  <2> HIDE DEF new, rest
  <2> QED BY <1>2, <1>4, <1>6, <2>1 DEF LookupInv, LookupTypeOK
<1>12. AllSound'
  <2> SUFFICES ASSUME NEW t \in Askers, asker'[t] \in Lookup PROVE Sound(asker[t])'
    BY DEF AllSound
  <2> HIDE DEF new, rest
  <2>1. asker[t] \in Lookup /\ Sound(asker[t])
    BY <1>10 DEF LookupInv, AllSound
  <2>2. \A g \in asker'[t].silent : ~Answers(faq_row'[g], asker'[t].level)
    <3> HIDE DEF new
    <3> QED BY <1>4, <1>9, <2>1, AskerCases DEF Sound, LookupInv
  <2>3. \A g \in asker'[t].open : Home[g] \in asker'[t].bases /\ Answers(faq_row'[g], asker'[t].level)
                                 /\ faq_row'[g].question = asker'[t].question
    <3> HIDE DEF new
    <3> QED BY <1>4, <1>9, <2>1, AskerCases DEF Sound, LookupInv
  <2>4. asker'[t].locks => asker'[t].stage \in {"write", "ended"} /\ asker'[t].faq \in Faqs
                           /\ ~LockedByEditor(asker[t].faq)'
    <3>1. asker[t].locks => asker[t].stage \in {"write", "ended"} /\ asker[t].faq \in Faqs /\ ~LockedByEditor(asker[t].faq)
      BY <2>1 DEF Sound
    <3>2. asker'[t].faq = asker[t].faq
      BY <1>9, <2>1
    <3>3. asker[t].faq \in Faqs => (LockedByEditor(asker[t].faq)' => LockedByEditor(asker[t].faq))
      BY <1>7, <3>2 DEF LockedByEditor
    <3> QED BY <1>9, <2>1, <3>1, <3>3
  <2>5. asker'[t].stage = "write" => /\ asker'[t].locks /\ IsRow(faq_row'[asker'[t].faq])
                                     /\ ~asker'[t].crossed => faq_row'[asker'[t].faq].question = asker'[t].question
    <3> HIDE DEF new
    <3> QED BY <1>4, <1>8, <1>9, <2>1 DEF Sound
  <2>6. /\ asker'[t].stage # "ended" => asker'[t].outcome = "none"
        /\ asker'[t].stage \in {"row", "flush", "write"} \/ asker'[t].outcome = "answered" => asker'[t].faq \in Faqs
        /\ asker'[t].stage \in {"flush", "write"} \/ asker'[t].outcome = "answered" => asker'[t].faq \notin asker'[t].silent
        /\ asker'[t].outcome \in {"denied", "missed"} => asker'[t].open = {}
        /\ asker'[t].stage \in {"entries", "row"} /\ ~asker'[t].exact => asker'[t].open = {}
    BY <1>9, <2>1 DEF Sound
  <2> QED BY <2>2, <2>3, <2>4, <2>5, <2>6 DEF Sound, Answers, IsRow
<1>13. EntriesAtHome' /\ Kinds' /\ ClearedEarly'
  <2> HIDE DEF rest
  <2>1. EntriesAtHome'
    BY <1>2 DEF LookupInv, Entered, EntriesAtHome
  <2>2. Kinds'
    BY <1>5, <1>6 DEF LookupInv, Entered, Kinds
  <2>3. ClearedEarly'
    BY <1>2, <1>5, <1>6 DEF LookupInv, Entered, ClearedEarly
  <2> QED BY <2>1, <2>2, <2>3
<1>14. EntriesLead'
  <2> SUFFICES ASSUME NEW b \in Bases, NEW q \in Asked, entry_of[b][q] # NoFaq, IsRow(faq_row'[entry_of[b][q]])
               PROVE  \/ faq_row'[entry_of[b][q]].question = q
                      \/ <<b, q>> \in misled
                      \/ \E d \in Editors : editor'[d].stage = "committed" /\ Home[editor'[d].faq] = b
    BY <1>2 DEF EntriesLead, IsRow
  <2> DEFINE g == entry_of[b][q]
  <2>1. g \in Faqs /\ Home[g] = b
    BY DEF LookupInv, LookupTypeOK, Entered, EntriesAtHome
  <2>2. ASSUME IsRow(faq_row[g])
        PROVE  \/ faq_row[g].question = q
               \/ <<b, q>> \in misled
               \/ \E d \in Editors : editor'[d].stage = "committed" /\ Home[editor'[d].faq] = b
    <3>1. \/ faq_row[g].question = q
          \/ <<b, q>> \in misled
          \/ \E d \in Editors : editor[d].stage = "committed" /\ Home[editor[d].faq] = b
      BY <2>2 DEF LookupInv, Entered, EntriesLead
    <3>2. \A d \in Editors : editor[d].stage = "committed" => editor'[d] = editor[d]
      BY <1>1, <1>6
    <3> QED BY <3>1, <3>2
  <2>3. CASE g # f
    <3>1. faq_row'[g] = faq_row[g]
      BY <1>4, <2>1, <2>3
    <3> QED BY <2>2, <3>1
  <2>4. CASE g = f /\ x.kind = "late"
    <3>1. editor'[e].stage = "committed" /\ editor'[e].faq = f
      BY <1>5, <1>6, <2>4
    <3> QED BY <2>1, <2>4, <3>1
  <2>5. CASE g = f /\ x.kind = "early"
    <3>1. x.stage = "cleared"
      BY <1>1, <2>5
    <3> QED BY <1>1, <2>1, <2>5, <3>1 DEF LookupInv, Entered, ClearedEarly
  <2>6. CASE g = f /\ x.kind = "reject"
    <3>1. IsRow(faq_row[f])
      BY <1>4, <2>6 DEF IsRow
    <3>2. faq_row'[f].question = faq_row[f].question
      BY <1>1, <1>4, <2>6, <3>1, RowCases DEF LookupInv, LookupRow
    <3> QED BY <2>2, <2>6, <3>1, <3>2
  <2> QED BY <1>1, <2>3, <2>4, <2>5, <2>6
<1> QED BY <1>11, <1>12, <1>13, <1>14 DEF LookupInv, Entered

LEMMA LookupStep == LookupInv /\ [LookupNext]_lookup_vars => LookupInv'
<1> SUFFICES ASSUME LookupInv, [LookupNext]_lookup_vars PROVE LookupInv'
  OBVIOUS
<1>1. CASE UNCHANGED lookup_vars
  <2>1. LookupTypeOK' /\ Entered'
    BY <1>1 DEF lookup_vars, LookupInv, LookupTypeOK, Entered, EntriesAtHome, Kinds, ClearedEarly, EntriesLead
  <2>2. AllSound'
    BY <1>1 DEF lookup_vars, LookupInv, AllSound, Sound, LockedByEditor
  <2> QED BY <2>1, <2>2 DEF LookupInv
<1>2. CASE LookupNext
  BY <1>2, BeginKeeps, GetKeeps, CheckKeeps, SearchKeeps, FlushKeeps, WriteKeeps, EndKeeps, BeginEditKeeps,
     ClearingKeeps, CommitKeeps, AbortKeeps, ToggleKeeps, ExpireKeeps DEF LookupNext
<1> QED BY <1>1, <1>2

-----------------------------------------------------------------------------
(* Theorems *)

\* Every variable of the lookup keeps its type (check_faq_hit and the writers).
THEOREM LookupTyped == LookupSpec => []LookupTypeOK
<1>1. LookupInv => LookupTypeOK
  BY DEF LookupInv
<1> QED BY <1>1, LookupStarts, LookupStep, PTL DEF LookupSpec

LEMMA LookupInvKeeps == LookupInv => LookupKept
<1>1. LookupInv => OutcomeRight
  <2> SUFFICES ASSUME LookupInv, NEW s \in Askers, asker[s] # NoLookup
               PROVE  /\ asker[s].outcome = "answered" => asker[s].faq \notin asker[s].silent
                      /\ asker[s].outcome \in {"denied", "missed"} => asker[s].open = {}
    BY DEF OutcomeRight
  <2> QED BY AskerCases DEF LookupInv, AllSound, Sound
<1> QED BY <1>1 DEF LookupInv, Entered, LookupKept

\* Nobody is answered with a FAQ that was never live and within his level while
\* he asked, nobody is refused past one that always was, and an entry leads to
\* its question or is known to mislead (check_faq_hit, invalidate_kb_faq_redis).
THEOREM LookupHonest == LookupSpec => []LookupKept
<1> QED BY LookupInvKeeps, LookupStarts, LookupStep, PTL DEF LookupSpec
================================================================================
