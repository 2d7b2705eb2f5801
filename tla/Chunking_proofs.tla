---------------------------- MODULE Chunking_proofs ----------------------------
(***************************************************************************)
(* Proofs about cutting text (Chunking), for every text, page and layout,  *)
(* and about Search, where cutting, embedding, retrieving and FAQs meet.   *)
(*                                                                         *)
(* A text: Cutting(t, S, a, ov) says that the pieces a are the positions   *)
(* S in their order, but for blanks and no more than ov that two share.    *)
(* Stripping keeps it, and so does cutting a piece again, joining what was *)
(* cut, and adding to the last piece; so each mode keeps it (SplitCut).    *)
(*                                                                         *)
(* A Markdown page: Ranked(S, a) says that the pieces a are the lines S,   *)
(* each once and in order.  Reading, Merging, Blocked and Packing are what *)
(* holds after each line, section, line of a section, and block; each has  *)
(* its step, and holds at the end because it holds along (StepsKeep).  The *)
(* fences are counted: a line after an odd number of them is in one (Odd), *)
(* and a piece has it together with the line before (FencesWhole).  The    *)
(* path of a section is the highest headings up to its lines (Upper).      *)
(***************************************************************************)
EXTENDS Search_proofs

-----------------------------------------------------------------------------
(* Chunking: what it is to cut *)

\* The pieces a of the places S of a text: in order, within S, all that can be
\* seen, nothing ahead of what comes before it, and sharing little.
Inside(S, a) == a \in Seq(Seq(Int)) /\ \A k \in DOMAIN a : Upward(a[k]) /\ ToSet(a[k]) \subseteq S
Reaches(t, S, a) == \A i \in S : Blank(t, i) \/ \E k \in DOMAIN a : i \in ToSet(a[k])
InTurn(t, S, a) ==
    \A k \in DOMAIN a : \A i \in ToSet(a[k]), j \in S :
        j < i => Blank(t, j) \/ \E l \in DOMAIN a : l <= k /\ j \in ToSet(a[l])
SharesLittle(a, ov) == \A k, l \in DOMAIN a : k # l => Cardinality(Shared(a[k], a[l])) <= ov
Cutting(t, S, a, ov) == Inside(S, a) /\ Reaches(t, S, a) /\ InTurn(t, S, a) /\ SharesLittle(a, ov)

LEMMA PiecesFew ==
    ASSUME NEW a \in Seq(Int)
    PROVE  IsFiniteSet(ToSet(a)) /\ Cardinality(ToSet(a)) \in Nat /\ Cardinality(ToSet(a)) <= Len(a)
<1>1. IsFiniteSet(1..Len(a)) /\ Cardinality(1..Len(a)) = Len(a) /\ Len(a) \in Nat
  <2>1. PICK n \in Nat : n = Len(a)
    OBVIOUS
  <2>2. IsFiniteSet(1..n) /\ Cardinality(1..n) = n
    BY FS_Interval
  <2> QED BY <2>1, <2>2
<1>2. a \in Surjection(1..Len(a), ToSet(a))
  <2>1. a \in [1..Len(a) -> ToSet(a)] /\ \A x \in ToSet(a) : \E i \in 1..Len(a) : a[i] = x
    BY DEF ToSet
  <2> QED BY <2>1 DEF Surjection
<1>3. IsFiniteSet(ToSet(a)) /\ Cardinality(ToSet(a)) <= Cardinality(1..Len(a))
  BY <1>1, <1>2, FS_Surjection
<1> QED BY <1>1, <1>3, FS_CardinalityType

LEMMA SharesLess ==
    ASSUME NEW X, NEW Y, IsFiniteSet(Y), X \subseteq Y, NEW ov \in Int, Cardinality(Y) <= ov
    PROVE  Cardinality(X) <= ov
<1>1. IsFiniteSet(X) /\ Cardinality(X) <= Cardinality(Y)
  BY FS_Subset
<1>2. Cardinality(X) \in Nat /\ Cardinality(Y) \in Nat
  BY <1>1, FS_CardinalityType
<1> QED BY <1>1, <1>2

LEMMA SharesNothing == ASSUME NEW a, NEW b, Shared(a, b) = {}, NEW ov \in Nat PROVE Cardinality(Shared(a, b)) <= ov
BY FS_EmptySet

LEMMA PiecesTyped ==
    ASSUME NEW S, NEW a, Inside(S, a), NEW k \in DOMAIN a
    PROVE  /\ a[k] \in Seq(Int) /\ Len(a[k]) \in Nat /\ DOMAIN a[k] = 1..Len(a[k])
           /\ Upward(a[k]) /\ ToSet(a[k]) \subseteq S /\ ToSet(a[k]) \subseteq Int /\ IsFiniteSet(ToSet(a[k]))
<1>1. a[k] \in Seq(Int)
  BY DEF Inside
<1>2. ToSet(a[k]) \subseteq Int
  BY <1>1 DEF ToSet
<1> QED BY <1>1, <1>2, PiecesFew DEF Inside

\* The pieces b come of cutting the pieces a, those of one after those of the
\* one before.
Nested(t, a, b, at, ov) ==
    /\ b \in Seq(Seq(Int)) /\ at \in [DOMAIN b -> DOMAIN a]
    /\ \A k, l \in DOMAIN b : at[k] < at[l] => k < l
    /\ \A k \in DOMAIN b : Upward(b[k]) /\ ToSet(b[k]) \subseteq ToSet(a[at[k]])
    /\ \A m \in DOMAIN a : \A i \in ToSet(a[m]) : Blank(t, i) \/ \E k \in DOMAIN b : at[k] = m /\ i \in ToSet(b[k])
    /\ \A k \in DOMAIN b : \A i \in ToSet(b[k]), j \in ToSet(a[at[k]]) :
          j < i => Blank(t, j) \/ \E l \in DOMAIN b : l <= k /\ j \in ToSet(b[l])
    /\ \A k, l \in DOMAIN b : k # l /\ at[k] = at[l] => Cardinality(Shared(b[k], b[l])) <= ov

LEMMA CutNested ==
    ASSUME NEW t, NEW S, NEW a, NEW b, NEW at, NEW ov \in Int, Cutting(t, S, a, ov), Nested(t, a, b, at, ov)
    PROVE  Cutting(t, S, b, ov)
<1>0. /\ Inside(S, a) /\ Reaches(t, S, a) /\ InTurn(t, S, a) /\ SharesLittle(a, ov)
      /\ DOMAIN a = 1..Len(a) /\ DOMAIN b = 1..Len(b)
  BY DEF Cutting, Nested, Inside
<1>1. b \in Seq(Seq(Int)) /\ \A k \in DOMAIN b : at[k] \in DOMAIN a /\ at[k] \in Int /\ k \in Int
  BY <1>0 DEF Nested
<1>2. \A k \in DOMAIN b : Upward(b[k]) /\ ToSet(b[k]) \subseteq ToSet(a[at[k]])
  BY DEF Nested
<1>3. \A m \in DOMAIN a : \A i \in ToSet(a[m]) : Blank(t, i) \/ \E k \in DOMAIN b : at[k] = m /\ i \in ToSet(b[k])
  BY DEF Nested
<1>4. Inside(S, b)
  <2>1. ASSUME NEW k \in DOMAIN b PROVE Upward(b[k]) /\ ToSet(b[k]) \subseteq S
    <3>1. ToSet(a[at[k]]) \subseteq S
      BY <1>0, <1>1 DEF Inside
    <3> QED BY <1>2, <3>1
  <2> QED BY <1>1, <2>1 DEF Inside
<1>5. Reaches(t, S, b)
  <2> SUFFICES ASSUME NEW i \in S, ~Blank(t, i) PROVE \E k \in DOMAIN b : i \in ToSet(b[k])
    BY DEF Reaches
  <2>1. PICK m \in DOMAIN a : i \in ToSet(a[m])
    BY <1>0 DEF Reaches
  <2> QED BY <1>3, <2>1
<1>6. InTurn(t, S, b)
  <2> SUFFICES ASSUME NEW k \in DOMAIN b, NEW i \in ToSet(b[k]), NEW j \in S, j < i, ~Blank(t, j)
               PROVE  \E l \in DOMAIN b : l <= k /\ j \in ToSet(b[l])
    BY DEF InTurn
  <2>1. at[k] \in DOMAIN a /\ i \in ToSet(a[at[k]])
    BY <1>1, <1>2
  <2>2. PICK m \in DOMAIN a : m <= at[k] /\ j \in ToSet(a[m])
    BY <1>0, <2>1 DEF InTurn
  <2>3. CASE m = at[k]
    BY <2>2, <2>3 DEF Nested
  <2>4. CASE m # at[k]
    <3>1. PICK l \in DOMAIN b : at[l] = m /\ j \in ToSet(b[l])
      BY <1>3, <2>2
    <3>2. at[l] < at[k]
      BY <1>1, <2>2, <2>4, <3>1
    <3>3. l < k
      BY <3>2 DEF Nested
    <3>4. l <= k
      BY <1>1, <3>3
    <3> QED BY <3>1, <3>4
  <2> QED BY <2>3, <2>4
<1>7. SharesLittle(b, ov)
  <2> SUFFICES ASSUME NEW k \in DOMAIN b, NEW l \in DOMAIN b, k # l PROVE Cardinality(Shared(b[k], b[l])) <= ov
    BY DEF SharesLittle
  <2>1. CASE at[k] = at[l]
    BY <2>1 DEF Nested
  <2>2. CASE at[k] # at[l]
    <3>1. Cardinality(Shared(a[at[k]], a[at[l]])) <= ov
      BY <1>0, <1>1, <2>2 DEF SharesLittle
    <3>2. Shared(b[k], b[l]) \subseteq Shared(a[at[k]], a[at[l]])
      BY <1>2 DEF Shared
    <3>3. IsFiniteSet(ToSet(a[at[k]]))
      BY <1>0, <1>1, PiecesTyped
    <3>4. IsFiniteSet(Shared(a[at[k]], a[at[l]]))
      BY <3>3, FS_Subset DEF Shared
    <3> QED BY <3>1, <3>2, <3>4, SharesLess
  <2> QED BY <2>1, <2>2
<1> QED BY <1>4, <1>5, <1>6, <1>7 DEF Cutting

\* A piece once more.
LEMMA CutAgain ==
    ASSUME NEW t, NEW S, NEW a, NEW ov \in Int, Cutting(t, S, a, ov),
           NEW x \in Seq(Int), Upward(x), ToSet(x) \subseteq S, Len(x) <= ov
    PROVE  Cutting(t, S, Append(a, x), ov)
<1> DEFINE b == Append(a, x)
           n == Len(a)
<1>0. Inside(S, a) /\ Reaches(t, S, a) /\ InTurn(t, S, a) /\ SharesLittle(a, ov) /\ a \in Seq(Seq(Int))
  BY DEF Cutting, Inside
<1>1. /\ b \in Seq(Seq(Int)) /\ n \in Nat /\ DOMAIN a = 1..n /\ DOMAIN b = 1..(n + 1)
      /\ \A k \in 1..n : b[k] = a[k]
      /\ b[n + 1] = x
  BY <1>0, AppendProperties
<1> HIDE DEF b, n
<1>2. \A k \in DOMAIN b : (k \in DOMAIN a /\ b[k] = a[k]) \/ (k = n + 1 /\ b[k] = x /\ \A l \in DOMAIN a : l <= k)
  <2> TAKE k \in DOMAIN b
  <2>1. CASE k = n + 1
    BY <1>1, <2>1
  <2>2. CASE k # n + 1
    <3>1. k \in 1..n
      BY <1>1, <2>2
    <3> QED BY <1>1, <3>1
  <2> QED BY <2>1, <2>2
<1>3. \A k \in DOMAIN a : k \in DOMAIN b /\ b[k] = a[k]
  BY <1>1
<1>4. Inside(S, b)
  BY <1>0, <1>1, <1>2 DEF Inside
<1>5. Reaches(t, S, b)
  BY <1>0, <1>3 DEF Reaches
<1>6. InTurn(t, S, b)
  <2> SUFFICES ASSUME NEW k \in DOMAIN b, NEW i \in ToSet(b[k]), NEW j \in S, j < i, ~Blank(t, j)
               PROVE  \E l \in DOMAIN b : l <= k /\ j \in ToSet(b[l])
    BY DEF InTurn
  <2>1. CASE k \in DOMAIN a /\ b[k] = a[k]
    <3>1. PICK l \in DOMAIN a : l <= k /\ j \in ToSet(a[l])
      BY <1>0, <2>1 DEF InTurn
    <3> QED BY <1>3, <3>1
  <2>2. CASE \A l \in DOMAIN a : l <= k
    <3>1. PICK l \in DOMAIN a : j \in ToSet(a[l])
      BY <1>0 DEF Reaches
    <3> QED BY <1>3, <2>2, <3>1
  <2> QED BY <1>2, <2>1, <2>2
<1>7. SharesLittle(b, ov)
  <2>1. IsFiniteSet(ToSet(x)) /\ Cardinality(ToSet(x)) <= ov
    <3>1. Cardinality(ToSet(x)) \in Nat /\ Cardinality(ToSet(x)) <= Len(x) /\ Len(x) \in Nat /\ IsFiniteSet(ToSet(x))
      BY PiecesFew
    <3> QED BY <3>1
  <2>2. ASSUME NEW k \in DOMAIN a PROVE Cardinality(Shared(a[k], x)) <= ov /\ Cardinality(Shared(x, a[k])) <= ov
    <3>1. Shared(a[k], x) \subseteq ToSet(x) /\ Shared(x, a[k]) \subseteq ToSet(x)
      BY DEF Shared
    <3> QED BY <2>1, <3>1, SharesLess
  <2> SUFFICES ASSUME NEW k \in DOMAIN b, NEW l \in DOMAIN b, k # l PROVE Cardinality(Shared(b[k], b[l])) <= ov
    BY DEF SharesLittle
  <2>3. CASE k \in DOMAIN a /\ b[k] = a[k] /\ l \in DOMAIN a /\ b[l] = a[l]
    BY <1>0, <2>3 DEF SharesLittle
  <2>4. CASE k \in DOMAIN a /\ b[k] = a[k] /\ l = n + 1 /\ b[l] = x
    BY <2>2, <2>4
  <2>5. CASE l \in DOMAIN a /\ b[l] = a[l] /\ k = n + 1 /\ b[k] = x
    BY <2>2, <2>5
  <2> QED BY <1>2, <2>3, <2>4, <2>5
<1> QED BY <1>4, <1>5, <1>6, <1>7 DEF Cutting, b

\* Two cuttings, one of places behind those of the other.
LEMMA CutJoin ==
    ASSUME NEW t, NEW S, NEW U, NEW a, NEW b, NEW ov \in Nat, Cutting(t, S, a, ov), Cutting(t, U, b, ov),
           S \subseteq Int, U \subseteq Int, \A i \in S, j \in U : i < j
    PROVE  Cutting(t, S \cup U, a \o b, ov)
<1> DEFINE c_ == a \o b
           n == Len(a)
           m == Len(b)
<1>0. /\ Inside(S, a) /\ Reaches(t, S, a) /\ InTurn(t, S, a) /\ SharesLittle(a, ov) /\ a \in Seq(Seq(Int))
      /\ Inside(U, b) /\ Reaches(t, U, b) /\ InTurn(t, U, b) /\ SharesLittle(b, ov) /\ b \in Seq(Seq(Int))
  BY DEF Cutting, Inside
<1>1. /\ c_ \in Seq(Seq(Int)) /\ n \in Nat /\ m \in Nat /\ DOMAIN a = 1..n /\ DOMAIN b = 1..m /\ DOMAIN c_ = 1..(n + m)
      /\ \A k \in 1..(n + m) : c_[k] = IF k <= n THEN a[k] ELSE b[k - n]
  BY <1>0, ConcatProperties
<1> HIDE DEF c_, n, m
<1>2. \A k \in DOMAIN a : k \in DOMAIN c_ /\ c_[k] = a[k]
  BY <1>1
<1>3. \A k \in DOMAIN b : n + k \in DOMAIN c_ /\ c_[n + k] = b[k]
  BY SMTT(30), <1>1
<1>4. \A k \in DOMAIN c_ : (k \in DOMAIN a /\ c_[k] = a[k] /\ k <= n)
                           \/ (k - n \in DOMAIN b /\ c_[k] = b[k - n] /\ k > n /\ \A l \in DOMAIN a : l <= k)
  <2> TAKE k \in DOMAIN c_
  <2>1. CASE k <= n
    <3>1. k \in DOMAIN a
      BY <1>1, <2>1
    <3> QED BY <1>2, <2>1, <3>1
  <2>2. CASE k > n
    <3>1. k - n \in DOMAIN b /\ c_[k] = b[k - n] /\ \A l \in DOMAIN a : l <= k
      BY <1>1, <2>2
    <3> QED BY <2>2, <3>1
  <2> QED BY <1>1, <2>1, <2>2
<1>5. Inside(S \cup U, c_)
  BY <1>0, <1>1, <1>4 DEF Inside
<1>6. Reaches(t, S \cup U, c_)
  <2> SUFFICES ASSUME NEW i \in S \cup U, ~Blank(t, i) PROVE \E k \in DOMAIN c_ : i \in ToSet(c_[k])
    BY DEF Reaches
  <2>1. CASE i \in S
    BY <1>0, <1>2, <2>1 DEF Reaches
  <2>2. CASE i \in U
    <3>1. PICK k \in DOMAIN b : i \in ToSet(b[k])
      BY <1>0, <2>2 DEF Reaches
    <3> QED BY <1>3, <3>1
  <2> QED BY <2>1, <2>2
<1>7. InTurn(t, S \cup U, c_)
  <2> SUFFICES ASSUME NEW k \in DOMAIN c_, NEW i \in ToSet(c_[k]), NEW j \in S \cup U, j < i, ~Blank(t, j)
               PROVE  \E l \in DOMAIN c_ : l <= k /\ j \in ToSet(c_[l])
    BY DEF InTurn
  <2>1. CASE k \in DOMAIN a /\ c_[k] = a[k] /\ k <= n
    <3>1. i \in S
      BY <1>0, <2>1 DEF Inside
    <3>2. j \in S
      BY <3>1
    <3>3. PICK l \in DOMAIN a : l <= k /\ j \in ToSet(a[l])
      BY <1>0, <2>1, <3>2 DEF InTurn
    <3> QED BY <1>2, <3>3
  <2>2. CASE k - n \in DOMAIN b /\ c_[k] = b[k - n] /\ k > n /\ \A l \in DOMAIN a : l <= k
    <3>1. CASE j \in S
      <4>1. PICK l \in DOMAIN a : j \in ToSet(a[l])
        BY <1>0, <3>1 DEF Reaches
      <4> QED BY <1>2, <2>2, <4>1
    <3>2. CASE j \in U
      <4>1. PICK l \in DOMAIN b : l <= k - n /\ j \in ToSet(b[l])
        BY <1>0, <2>2, <3>2 DEF InTurn
      <4>2. n + l <= k
        BY <1>1, <2>2, <4>1
      <4> QED BY <1>3, <4>1, <4>2
    <3> QED BY <3>1, <3>2
  <2> QED BY <1>4, <2>1, <2>2
<1>8. SharesLittle(c_, ov)
  <2> SUFFICES ASSUME NEW k \in DOMAIN c_, NEW l \in DOMAIN c_, k # l PROVE Cardinality(Shared(c_[k], c_[l])) <= ov
    BY DEF SharesLittle
  <2>1. ASSUME NEW p \in DOMAIN a, NEW q \in DOMAIN b
        PROVE  Cardinality(Shared(a[p], b[q])) <= ov /\ Cardinality(Shared(b[q], a[p])) <= ov
    <3>1. ToSet(a[p]) \subseteq S /\ ToSet(b[q]) \subseteq U
      BY <1>0 DEF Inside
    <3>2. ToSet(a[p]) \cap ToSet(b[q]) = {}
      <4> SUFFICES ASSUME NEW i \in ToSet(a[p]), i \in ToSet(b[q]) PROVE FALSE
        OBVIOUS
      <4>1. i < i /\ i \in Int
        BY <3>1
      <4> QED BY <4>1
    <3>3. Shared(a[p], b[q]) = {} /\ Shared(b[q], a[p]) = {}
      BY <3>2 DEF Shared
    <3> QED BY <3>3, SharesNothing
  <2>2. CASE k <= n /\ l <= n
    BY <1>0, <1>4, <1>1, <2>2 DEF SharesLittle
  <2>3. CASE k <= n /\ l > n
    <3>1. k \in DOMAIN a /\ c_[k] = a[k] /\ l - n \in DOMAIN b /\ c_[l] = b[l - n]
      BY SMTT(30), <1>1, <1>4, <2>3
    <3> QED BY <2>1, <3>1
  <2>4. CASE k > n /\ l <= n
    <3>1. l \in DOMAIN a /\ c_[l] = a[l] /\ k - n \in DOMAIN b /\ c_[k] = b[k - n]
      BY SMTT(30), <1>1, <1>4, <2>4
    <3> QED BY <2>1, <3>1
  <2>5. CASE k > n /\ l > n
    <3>1. l - n \in DOMAIN b /\ c_[l] = b[l - n] /\ k - n \in DOMAIN b /\ c_[k] = b[k - n] /\ l - n # k - n
      BY <1>1, <1>4, <2>5
    <3> QED BY <1>0, <3>1 DEF SharesLittle
  <2> QED BY <1>1, <2>2, <2>3, <2>4, <2>5
<1> QED BY <1>5, <1>6, <1>7, <1>8 DEF Cutting, c_


-----------------------------------------------------------------------------
(* Chunking: pieces of a piece *)

\* q holds the places lo to hi of p.
Stretch(q, p, lo, hi) ==
    /\ q \in Seq(Int) /\ Upward(q) /\ ToSet(q) = {p[x] : x \in lo..hi}
    /\ Len(q) \in Nat /\ Len(q) = IF lo <= hi THEN hi - lo + 1 ELSE 0

LEMMA StretchWell ==
    ASSUME NEW p \in Seq(Int), Upward(p), NEW lo \in Int, NEW hi \in Int, 1 <= lo, hi <= Len(p)
    PROVE  Stretch(SubSeq(p, lo, hi), p, lo, hi)
<1> DEFINE q == SubSeq(p, lo, hi)
           n == hi - lo + 1
<1>1. \A i \in lo..hi : p[i] \in Int /\ i \in DOMAIN p
  OBVIOUS
<1>2. /\ q \in Seq(Int) /\ Len(q) = (IF lo <= hi THEN n ELSE 0)
      /\ \A i \in 1..n : q[i] = p[lo + i - 1]
  BY <1>1, SubSeqProperties
<1> HIDE DEF q
<1>3. Len(q) \in Nat /\ DOMAIN q = 1..Len(q)
  BY <1>2
<1>4. \A i \in DOMAIN q : i \in 1..n /\ i \in Int /\ q[i] = p[lo + i - 1] /\ lo + i - 1 \in lo..hi
  <2> TAKE i \in DOMAIN q
  <2>1. i \in Int /\ 1 <= i /\ i <= Len(q)
    BY <1>3
  <2>2. lo <= hi /\ i <= n
    BY <1>2, <2>1
  <2>3. i \in 1..n /\ lo + i - 1 \in lo..hi
    BY <2>1, <2>2
  <2> QED BY <1>2, <2>1, <2>3
<1>5. Upward(q)
  <2> SUFFICES ASSUME NEW i \in DOMAIN q, NEW j \in DOMAIN q, i < j PROVE q[i] < q[j]
    BY DEF Upward
  <2>1. lo + i - 1 < lo + j - 1 /\ lo + i - 1 \in DOMAIN p /\ lo + j - 1 \in DOMAIN p
    BY <1>1, <1>4
  <2>2. p[lo + i - 1] < p[lo + j - 1]
    BY <2>1 DEF Upward
  <2> QED BY <1>4, <2>2
<1>6. ToSet(q) = {p[x] : x \in lo..hi}
  <2>1. ASSUME NEW x \in lo..hi PROVE \E i \in DOMAIN q : q[i] = p[x]
    <3>1. x - lo + 1 \in 1..n /\ lo <= hi /\ lo + (x - lo + 1) - 1 = x
      OBVIOUS
    <3>2. x - lo + 1 \in DOMAIN q
      BY <1>2, <1>3, <3>1
    <3> QED BY <1>4, <3>1, <3>2
  <2>2. \A i \in DOMAIN q : \E x \in lo..hi : q[i] = p[x]
    BY <1>4
  <2> QED BY <2>1, <2>2 DEF ToSet
<1> QED BY <1>2, <1>3, <1>5, <1>6 DEF Stretch, q

LEMMA UpwardPlaces ==
    ASSUME NEW p \in Seq(Int), Upward(p)
    PROVE  \A x, y \in 1..Len(p) : p[x] \in Int /\ p[y] \in Int /\ (p[x] < p[y] <=> x < y)
<1> SUFFICES ASSUME NEW x \in 1..Len(p), NEW y \in 1..Len(p) PROVE p[x] \in Int /\ p[y] \in Int /\ (p[x] < p[y] <=> x < y)
  OBVIOUS
<1>1. p[x] \in Int /\ p[y] \in Int /\ x \in DOMAIN p /\ y \in DOMAIN p /\ x \in Int /\ y \in Int
  OBVIOUS
<1>2. x < y => p[x] < p[y]
  BY <1>1 DEF Upward
<1>3. y < x => p[y] < p[x]
  BY <1>1 DEF Upward
<1> QED BY <1>1, <1>2, <1>3

\* Pieces that each begin and end no earlier than the one before, leave nothing
\* out and share little.
Spans(a, p, lo, hi, ov) ==
    /\ a \in Seq(Seq(Int))
    /\ \A k \in DOMAIN a : lo[k] \in Int /\ hi[k] \in Int /\ 1 <= lo[k] /\ hi[k] <= Len(p) /\ Stretch(a[k], p, lo[k], hi[k])
    /\ \A k, l \in DOMAIN a : k < l => lo[k] <= lo[l] /\ hi[k] - lo[l] + 1 <= ov
    /\ \A x \in 1..Len(p) : \E k \in DOMAIN a : x \in lo[k]..hi[k]

LEMMA SpansShare ==
    ASSUME NEW p \in Seq(Int), Upward(p), NEW a, NEW lo, NEW hi, NEW ov \in Nat, Spans(a, p, lo, hi, ov),
           NEW k \in DOMAIN a, NEW l \in DOMAIN a, k < l
    PROVE  Cardinality(Shared(a[k], a[l])) <= ov /\ Cardinality(Shared(a[l], a[k])) <= ov
<1>1. /\ lo[k] \in Int /\ hi[k] \in Int /\ lo[l] \in Int /\ hi[l] \in Int
      /\ 1 <= lo[k] /\ hi[k] <= Len(p) /\ 1 <= lo[l] /\ hi[l] <= Len(p)
      /\ lo[k] <= lo[l] /\ hi[k] - lo[l] + 1 <= ov
      /\ ToSet(a[k]) = {p[x] : x \in lo[k]..hi[k]} /\ ToSet(a[l]) = {p[x] : x \in lo[l]..hi[l]}
  BY DEF Spans, Stretch
<1> DEFINE q == SubSeq(p, lo[l], hi[k])
<1>2. Stretch(q, p, lo[l], hi[k])
  BY <1>1, StretchWell
<1>3. Shared(a[k], a[l]) \subseteq ToSet(q)
  <2> SUFFICES ASSUME NEW i, i \in ToSet(a[k]), i \in ToSet(a[l]) PROVE i \in ToSet(q)
    BY DEF Shared
  <2>1. PICK x \in lo[k]..hi[k] : i = p[x]
    BY <1>1
  <2>2. PICK y \in lo[l]..hi[l] : i = p[y]
    BY <1>1
  <2>3. x \in 1..Len(p) /\ y \in 1..Len(p)
    <3>1. lo[k] <= x /\ x <= hi[k] /\ lo[l] <= y /\ y <= hi[l] /\ x \in Int /\ y \in Int
      BY <1>1
    <3>2. Len(p) \in Int
      OBVIOUS
    <3>3. 1 <= lo[k] /\ hi[k] <= Len(p) /\ 1 <= lo[l] /\ hi[l] <= Len(p)
          /\ lo[k] \in Int /\ hi[k] \in Int /\ lo[l] \in Int /\ hi[l] \in Int
      BY <1>1
    <3> QED BY SMTT(30), <3>1, <3>2, <3>3
  <2>4. x = y
    <3>1. p[x] \in Int /\ ~(p[x] < p[y]) /\ ~(p[y] < p[x])
      <4>1. p[x] \in Int /\ p[x] = p[y]
        BY <2>1, <2>2, <2>3
      <4> QED BY <4>1
    <3>2. ~(x < y) /\ ~(y < x)
      BY <2>3, <3>1, UpwardPlaces
    <3> QED BY <2>3, <3>2
  <2>5. x \in lo[l]..hi[k]
    BY <1>1, <2>1, <2>2, <2>4
  <2> QED BY <1>2, <2>1, <2>5 DEF Stretch
<1>4. q \in Seq(Int) /\ Len(q) \in Nat /\ Len(q) <= ov
  BY <1>1, <1>2 DEF Stretch
<1> HIDE DEF q
<1>5. IsFiniteSet(ToSet(q)) /\ Cardinality(ToSet(q)) <= ov
  <2>1. IsFiniteSet(ToSet(q)) /\ Cardinality(ToSet(q)) \in Nat /\ Cardinality(ToSet(q)) <= Len(q)
    BY <1>4, PiecesFew
  <2> QED BY <1>4, <2>1
<1>6. Shared(a[l], a[k]) = Shared(a[k], a[l])
  BY DEF Shared
<1> QED BY <1>3, <1>5, <1>6, SharesLess

LEMMA SpansCut ==
    ASSUME NEW t, NEW p \in Seq(Int), Upward(p), NEW a, NEW lo, NEW hi, NEW ov \in Nat, Spans(a, p, lo, hi, ov)
    PROVE  Cutting(t, ToSet(p), a, ov)
<1>1. /\ a \in Seq(Seq(Int)) /\ DOMAIN p = 1..Len(p) /\ Len(p) \in Nat
      /\ \A k \in DOMAIN a : k \in Int
  BY DEF Spans
<1>2. ASSUME NEW k \in DOMAIN a
      PROVE  /\ lo[k] \in Int /\ hi[k] \in Int /\ 1 <= lo[k] /\ hi[k] <= Len(p)
             /\ Upward(a[k]) /\ ToSet(a[k]) = {p[x] : x \in lo[k]..hi[k]}
  BY DEF Spans, Stretch
<1>3. Inside(ToSet(p), a)
  <2>1. ASSUME NEW k \in DOMAIN a PROVE Upward(a[k]) /\ ToSet(a[k]) \subseteq ToSet(p)
    <3>1. \A x \in lo[k]..hi[k] : x \in DOMAIN p /\ p[x] \in ToSet(p)
      <4> TAKE x \in lo[k]..hi[k]
      <4>1. x \in DOMAIN p
        BY <1>1, <1>2
      <4> QED BY <4>1 DEF ToSet
    <3>2. Upward(a[k]) /\ ToSet(a[k]) = {p[x] : x \in lo[k]..hi[k]}
      BY <1>2
    <3> QED BY <3>1, <3>2
  <2> QED BY <1>1, <2>1 DEF Inside
<1>4. \A x \in 1..Len(p) : \E k \in DOMAIN a : x \in lo[k]..hi[k]
  BY DEF Spans
<1>5. Reaches(t, ToSet(p), a)
  <2> SUFFICES ASSUME NEW i \in ToSet(p) PROVE \E k \in DOMAIN a : i \in ToSet(a[k])
    BY DEF Reaches
  <2>1. PICK x \in 1..Len(p) : i = p[x]
    BY <1>1 DEF ToSet
  <2>2. PICK k \in DOMAIN a : x \in lo[k]..hi[k]
    BY <1>4
  <2> QED BY <1>2, <2>1, <2>2
<1>6. InTurn(t, ToSet(p), a)
  <2> SUFFICES ASSUME NEW k \in DOMAIN a, NEW i \in ToSet(a[k]), NEW j \in ToSet(p), j < i
               PROVE  \E l \in DOMAIN a : l <= k /\ j \in ToSet(a[l])
    BY DEF InTurn
  <2>1. PICK y \in lo[k]..hi[k] : i = p[y]
    BY <1>2
  <2>2. PICK x \in 1..Len(p) : j = p[x]
    BY <1>1 DEF ToSet
  <2>3. y \in 1..Len(p)
    BY <1>2
  <2>4. x < y
    BY <2>1, <2>2, <2>3, UpwardPlaces
  <2>5. CASE lo[k] <= x
    <3>1. x \in lo[k]..hi[k]
      BY <1>2, <2>4, <2>5
    <3>2. j \in ToSet(a[k])
      BY <1>2, <2>2, <3>1
    <3> QED BY <1>1, <3>2
  <2>6. CASE ~(lo[k] <= x)
    <3>1. PICK l \in DOMAIN a : x \in lo[l]..hi[l]
      BY <1>4
    <3>2. j \in ToSet(a[l])
      BY <1>2, <2>2, <3>1
    <3>3. lo[l] < lo[k]
      BY <1>2, <2>6, <3>1
    <3>4. ~(k < l)
      <4>1. k < l => lo[k] <= lo[l]
        BY DEF Spans
      <4> QED BY <1>2, <3>3, <4>1
    <3>5. l <= k
      BY <1>1, <3>4
    <3> QED BY <3>2, <3>5
  <2> QED BY <2>5, <2>6
<1>7. SharesLittle(a, ov)
  <2> SUFFICES ASSUME NEW k \in DOMAIN a, NEW l \in DOMAIN a, k # l PROVE Cardinality(Shared(a[k], a[l])) <= ov
    BY DEF SharesLittle
  <2>1. k < l \/ l < k
    BY <1>1
  <2>2. CASE k < l
    BY <2>2, SpansShare
  <2>3. CASE l < k
    BY <2>3, SpansShare
  <2> QED BY <2>1, <2>2, <2>3
<1> QED BY <1>3, <1>5, <1>6, <1>7 DEF Cutting

\* No piece is longer.
Short(a, m) == \A k \in DOMAIN a : Len(a[k]) <= m

LEMMA Times == ASSUME NEW k \in Nat, NEW l \in Nat, NEW s \in Nat, k < l PROVE k * s + s <= l * s /\ k * s \in Nat /\ l * s \in Nat
<1> DEFINE d == l - (k + 1)
<1>1. d \in Nat /\ l = k + 1 + d
  OBVIOUS
<1> HIDE DEF d
<1>2. d * s \in Nat /\ k * s \in Nat
  BY <1>1
<1>3. l * s = k * s + s + d * s
  BY <1>1
<1> QED BY <1>2, <1>3


-----------------------------------------------------------------------------
(* Chunking: windows, and pieces in a row *)

LEMMA TimesMore == ASSUME NEW k \in Nat, NEW s \in Nat \ {0} PROVE k <= k * s /\ k * s \in Nat
<1> DEFINE e == s - 1
<1>1. e \in Nat /\ s = 1 + e
  OBVIOUS
<1> HIDE DEF e
<1>2. k * e \in Nat
  BY <1>1
<1>3. k * s = k + k * e
  BY <1>1
<1> QED BY <1>2, <1>3

\* off are n offsets, step after step, the last of them within size of L.
Offsets(off, n, step, size, L) ==
    /\ n \in Nat \ {0} /\ off \in [1..n -> Nat] /\ off[1] = 0 /\ off[n] + size >= L
    /\ \A k, l \in 1..n : k < l => off[k] + step <= off[l]
    /\ \A k \in 1..n : k < n => off[k + 1] = off[k] + step

LEMMA WindowsAre ==
    ASSUME NEW p \in Seq(Int), NEW size \in Nat \ {0}, NEW ov \in Nat, ov < size
    PROVE  \E n, off : /\ Offsets(off, n, size - ov, size, Len(p))
                       /\ Windows(p, size, ov) =
                            [k \in 1..n |-> SubSeq(p, off[k] + 1, IF off[k] + size <= Len(p) THEN off[k] + size ELSE Len(p))]
<1> DEFINE step == size - ov
           L == Len(p)
           all == {k \in 0..L : k = 0 \/ (k - 1) * step + size < L}
           last == Max(all)
           n == last + 1
           off == [k \in 1..n |-> (k - 1) * step]
<1>1. L \in Nat /\ step \in Nat \ {0} /\ step <= size /\ size \in Nat
  OBVIOUS
<1>2. Windows(p, size, ov) =
        [k \in 1..n |-> SubSeq(p, (k - 1) * step + 1, Min({(k - 1) * step + size, L}))]
  <2>1. (IF size > ov THEN size - ov ELSE 1) = step
    BY <1>1
  <2> QED BY <2>1 DEF Windows
<1> HIDE DEF step
<1>3. last \in all /\ \A y \in all : last >= y
  <2>1. all \subseteq Nat /\ 0 \in all /\ \A y \in all : y <= L
    BY <1>1
  <2> HIDE DEF all
  <2> QED BY <1>1, <2>1, GreatestOf
<1>4. last \in 0..L /\ \A y \in 0..L : y > last => y # 0 /\ ~((y - 1) * step + size < L)
  <2> HIDE DEF last
  <2>1. last \in 0..L
    BY <1>3
  <2>2. ASSUME NEW y \in 0..L, y > last PROVE y # 0 /\ ~((y - 1) * step + size < L)
    <3>1. y \notin all
      BY <1>3, <2>1, <2>2
    <3> QED BY <2>1, <2>2, <3>1
  <2> QED BY <2>1, <2>2
<1> HIDE DEF last
<1>5. n \in Nat \ {0} /\ n \in 1..n /\ 1 \in 1..n /\ n - 1 = last
  BY <1>1, <1>4
<1>6. ASSUME NEW k \in 1..n PROVE off[k] = (k - 1) * step /\ off[k] \in Nat
  <2>1. k - 1 \in Nat
    BY <1>5
  <2>2. (k - 1) * step \in Nat
    BY <1>1, <2>1
  <2> QED BY <2>2
<1>7. off[1] = 0
  <2>1. off[1] = (1 - 1) * step
    BY <1>5, <1>6
  <2> QED BY <1>1, <2>1
<1>8. off[n] + size >= L
  <2>0. off[n] = last * step
    BY <1>5, <1>6
  <2>1. CASE n <= L
    <3>1. n \in 0..L /\ n > last
      BY <1>1, <1>4, <1>5, <2>1
    <3>2. ~((n - 1) * step + size < L)
      BY <1>4, <3>1
    <3>3. ~(off[n] + size < L)
      BY <1>5, <2>0, <3>2
    <3> QED BY <1>1, <1>5, <1>6, <3>3
  <2>2. CASE ~(n <= L)
    <3>1. last = L
      BY <1>1, <1>4, <1>5, <2>2
    <3>2. last <= last * step
      BY <1>1, <1>4, TimesMore
    <3> QED BY <1>1, <1>5, <1>6, <2>0, <3>1, <3>2
  <2> QED BY <2>1, <2>2
<1>9. ASSUME NEW k \in 1..n, NEW l \in 1..n, k < l PROVE off[k] + step <= off[l]
  <2>1. k - 1 \in Nat /\ l - 1 \in Nat /\ k - 1 < l - 1
    BY <1>5, <1>9
  <2>2. (k - 1) * step + step <= (l - 1) * step
    BY <1>1, <2>1, Times
  <2> QED BY <1>6, <2>2
<1>10. ASSUME NEW k \in 1..n, k < n PROVE off[k + 1] = off[k] + step
  <2>1. k + 1 \in 1..n /\ (k + 1) - 1 = k /\ k \in Nat
    BY <1>5, <1>10
  <2>2. off[k + 1] = k * step
    BY <1>6, <2>1
  <2>3. k * step = (k - 1) * step + step
    BY <1>1, <2>1
  <2> QED BY <1>6, <2>2, <2>3
<1>11. ASSUME NEW k \in 1..n
       PROVE  SubSeq(p, (k - 1) * step + 1, Min({(k - 1) * step + size, L})) =
              SubSeq(p, off[k] + 1, IF off[k] + size <= L THEN off[k] + size ELSE L)
  <2>1. off[k] = (k - 1) * step /\ off[k] + size \in Int
    BY <1>1, <1>6
  <2> HIDE DEF off, L
  <2>2. Min({off[k] + size, L}) = IF off[k] + size <= L THEN off[k] + size ELSE L
    BY <1>1, <2>1, LesserOf
  <2> QED BY <2>1, <2>2
<1>12. off \in [1..n -> Nat]
  <2> SUFFICES ASSUME NEW k \in 1..n PROVE (k - 1) * step \in Nat
    OBVIOUS
  <2> QED BY <1>6
<1> HIDE DEF off, n
<1>13. Offsets(off, n, step, size, L)
  BY <1>5, <1>7, <1>8, <1>9, <1>10, <1>12 DEF Offsets
<1>14. Windows(p, size, ov) = [k \in 1..n |-> SubSeq(p, off[k] + 1, IF off[k] + size <= L THEN off[k] + size ELSE L)]
  BY <1>2, <1>11
<1> QED BY <1>13, <1>14 DEF step

LEMMA WindowsSpan ==
    ASSUME NEW p \in Seq(Int), Upward(p), NEW size \in Nat \ {0}, NEW ov \in Nat, ov < size
    PROVE  \E lo, hi : Spans(Windows(p, size, ov), p, lo, hi, ov) /\ Short(Windows(p, size, ov), size)
<1> DEFINE L == Len(p)
           w == Windows(p, size, ov)
           step == size - ov
<1>1. L \in Nat /\ step \in Nat \ {0} /\ step <= size /\ size - step = ov /\ size \in Nat
  OBVIOUS
<1>2. PICK n, off : /\ Offsets(off, n, step, size, L)
                    /\ w = [k \in 1..n |-> SubSeq(p, off[k] + 1, IF off[k] + size <= L THEN off[k] + size ELSE L)]
  BY WindowsAre
<1> DEFINE lo == [k \in 1..n |-> off[k] + 1]
           hi == [k \in 1..n |-> IF off[k] + size <= L THEN off[k] + size ELSE L]
<1>3. n \in Nat \ {0} /\ (\A k \in 1..n : off[k] \in Nat) /\ off[1] = 0 /\ off[n] + size >= L
  BY <1>2 DEF Offsets
<1>12. \A k, l \in 1..n : k < l => off[k] + step <= off[l]
  BY <1>2 DEF Offsets
<1>13. \A k, l \in 1..n : l = k + 1 => off[l] = off[k] + step
  <2>1. \A k \in 1..n : k < n => off[k + 1] = off[k] + step
    BY <1>2 DEF Offsets
  <2> TAKE k \in 1..n, l \in 1..n
  <2> HAVE l = k + 1
  <2>2. k < n
    BY <1>3
  <2> QED BY <2>1, <2>2
<1>4. w = [k \in 1..n |-> SubSeq(p, lo[k], hi[k])] /\ DOMAIN w = 1..n
  BY <1>2
<1> HIDE DEF w, step
<1>5. \A k \in 1..n : /\ lo[k] = off[k] + 1 /\ hi[k] \in Int /\ hi[k] <= L /\ hi[k] <= off[k] + size
                      /\ hi[k] = L \/ hi[k] = off[k] + size
  BY <1>1, <1>3
<1> HIDE DEF L, lo, hi
<1>6. ASSUME NEW k \in 1..n
      PROVE  /\ lo[k] \in Int /\ hi[k] \in Int /\ 1 <= lo[k] /\ hi[k] <= L /\ Stretch(w[k], p, lo[k], hi[k])
             /\ w[k] \in Seq(Int) /\ Len(w[k]) <= size
  <2>1. lo[k] \in Int /\ hi[k] \in Int /\ 1 <= lo[k] /\ hi[k] <= L
    BY <1>3, <1>5
  <2>2. w[k] = SubSeq(p, lo[k], hi[k])
    BY <1>4
  <2>3. Stretch(w[k], p, lo[k], hi[k])
    BY <2>1, <2>2, StretchWell DEF L
  <2>4. w[k] \in Seq(Int) /\ Len(w[k]) = IF lo[k] <= hi[k] THEN hi[k] - lo[k] + 1 ELSE 0
    BY <2>3 DEF Stretch
  <2>5. hi[k] - lo[k] + 1 <= size
    <3>1. lo[k] = off[k] + 1 /\ hi[k] <= off[k] + size /\ off[k] \in Nat
      BY <1>3, <1>5
    <3> QED BY <1>1, <2>1, <3>1
  <2> QED BY <1>1, <2>1, <2>3, <2>4, <2>5
<1>7. w \in Seq(Seq(Int))
  <2>1. w \in [1..n -> Seq(Int)]
    BY <1>4, <1>6
  <2> QED BY <1>3, <2>1
<1>8. ASSUME NEW k \in 1..n, NEW l \in 1..n, k < l PROVE lo[k] <= lo[l] /\ hi[k] - lo[l] + 1 <= ov
  <2>1. off[k] + step <= off[l] /\ off[k] \in Nat /\ off[l] \in Nat
    BY <1>3, <1>8, <1>12
  <2>2. lo[k] = off[k] + 1 /\ lo[l] = off[l] + 1 /\ hi[k] \in Int /\ hi[k] <= off[k] + size
    BY <1>5
  <2>3. step \in Nat /\ size \in Nat /\ size = ov + step
    BY <1>1
  <2>4. lo[k] <= lo[l]
    BY <2>1, <2>2, <2>3
  <2>5. hi[k] <= off[l] + ov
    <3>1. off[k] + size <= off[l] + ov
      BY <2>1, <2>3
    <3> QED BY SMTT(30), <2>1, <2>2, <2>3, <3>1
  <2>6. lo[l] \in Int
    BY <2>1, <2>2
  <2> QED BY SMTT(30), <2>1, <2>2, <2>4, <2>5, <2>6
<1>9. ASSUME NEW x \in 1..L PROVE \E k \in 1..n : x \in lo[k]..hi[k]
  <2> DEFINE T == {k \in 1..n : off[k] < x}
  <2>1. PICK m \in T : \A y \in T : m >= y
    <3>1. T \subseteq Nat /\ 1 \in T /\ \A y \in T : y <= n
      BY <1>1, <1>3
    <3> HIDE DEF T
    <3> QED BY <1>3, <3>1, GreatestOf
  <2>2. m \in 1..n /\ off[m] < x
    OBVIOUS
  <2>3. x <= off[m] + size
    <3>1. CASE m = n
      BY <1>1, <1>3, <3>1
    <3>2. CASE m # n
      <4>1. m + 1 \in 1..n /\ ~(m >= m + 1)
        BY <1>3, <2>2, <3>2
      <4>2. m + 1 \notin T
        BY <2>1, <4>1
      <4>3. ~(off[m + 1] < x)
        BY <4>1, <4>2
      <4>4. off[m + 1] = off[m] + step
        BY <1>13, <2>2, <4>1
      <4>5. off[m] \in Nat
        BY <1>3, <2>2
      <4> QED BY <1>1, <2>2, <4>3, <4>4, <4>5
    <3> QED BY <3>1, <3>2
  <2>4. x \in lo[m]..hi[m]
    <3>1. lo[m] = off[m] + 1 /\ hi[m] \in Int /\ (hi[m] = L \/ hi[m] = off[m] + size) /\ off[m] \in Nat
      BY <1>3, <1>5, <2>2
    <3> QED BY <1>1, <2>2, <2>3, <3>1
  <2> QED BY <2>2, <2>4
<1>10. Spans(w, p, lo, hi, ov)
  BY <1>4, <1>6, <1>7, <1>8, <1>9 DEF Spans, L
<1>11. Short(w, size)
  BY <1>4, <1>6 DEF Short
<1> QED BY <1>10, <1>11 DEF w

LEMMA WindowsCut ==
    ASSUME NEW t, NEW p \in Seq(Int), Upward(p), NEW size \in Nat \ {0}, NEW ov \in Nat, ov < size
    PROVE  Cutting(t, ToSet(p), Windows(p, size, ov), ov) /\ Short(Windows(p, size, ov), size)
<1>1. PICK lo, hi : Spans(Windows(p, size, ov), p, lo, hi, ov) /\ Short(Windows(p, size, ov), size)
  BY WindowsSpan
<1> QED BY <1>1, SpansCut

\* The pieces a of p follow each other; e[k] is where the k-th of them ends.
InARow(a, p, e) ==
    /\ a \in Seq(Seq(Int)) /\ e \in [0..Len(a) -> 0..Len(p)] /\ e[0] = 0 /\ e[Len(a)] = Len(p)
    /\ \A k \in 1..Len(a) : e[k - 1] <= e[k] /\ Stretch(a[k], p, e[k - 1] + 1, e[k])

LEMMA RowSpans ==
    ASSUME NEW p \in Seq(Int), NEW a, NEW e, InARow(a, p, e)
    PROVE  \E lo, hi : Spans(a, p, lo, hi, 0)
<1> DEFINE n == Len(a)
           L == Len(p)
           lo == [k \in 1..n |-> e[k - 1] + 1]
           hi == [k \in 1..n |-> e[k]]
<1>1. /\ a \in Seq(Seq(Int)) /\ n \in Nat /\ L \in Nat /\ DOMAIN a = 1..n
      /\ e[0] = 0 /\ e[n] = L /\ \A k \in 0..n : e[k] \in 0..L /\ e[k] \in Nat
  <2>1. a \in Seq(Seq(Int)) /\ e \in [0..n -> 0..L] /\ e[0] = 0 /\ e[n] = L
    BY DEF InARow
  <2>2. n \in Nat /\ L \in Nat /\ DOMAIN a = 1..n
    BY <2>1
  <2> HIDE DEF n, L
  <2> QED BY <2>1, <2>2
<1>2. \A k \in 1..n : e[k - 1] <= e[k] /\ Stretch(a[k], p, e[k - 1] + 1, e[k])
  BY DEF InARow
<1> HIDE DEF n, L
<1>3. \A j \in 0..n : \A i \in 0..j : e[i] <= e[j]
  <2> DEFINE T == {j \in 0..n : \A i \in 0..j : e[i] <= e[j]}
  <2>1. 0 \in T
    BY <1>1
  <2>2. ASSUME NEW j \in 0..n, j \in T, j + 1 <= n PROVE j + 1 \in T
    <3>1. j + 1 \in 1..n /\ (j + 1) - 1 = j /\ j + 1 \in 0..n
      BY <1>1, <2>2
    <3>2. e[j] <= e[j + 1]
      BY <1>2, <3>1
    <3>3. ASSUME NEW i \in 0..(j + 1) PROVE e[i] <= e[j + 1]
      <4>1. i \in 0..n /\ e[i] \in Nat /\ e[j] \in Nat /\ e[j + 1] \in Nat
        BY <1>1, <3>1
      <4>2. CASE i = j + 1
        BY <4>1, <4>2
      <4>3. CASE i # j + 1
        <5>1. i \in 0..j
          BY <4>3
        <5>2. e[i] <= e[j]
          BY <2>2, <5>1
        <5> QED BY <3>2, <4>1, <5>2
      <4> QED BY <4>2, <4>3
    <3> QED BY <3>1, <3>3
  <2>3. \A j \in 0..n : j \in T
    <3> HIDE DEF T
    <3> QED BY <1>1, <2>1, <2>2, Along
  <2> QED BY <2>3
<1>4. ASSUME NEW k \in 1..n
      PROVE  /\ k - 1 \in 0..n /\ k \in 0..n /\ lo[k] = e[k - 1] + 1 /\ hi[k] = e[k] /\ lo[k] \in Int /\ hi[k] \in Int
             /\ 1 <= lo[k] /\ hi[k] <= L /\ Stretch(a[k], p, lo[k], hi[k])
  <2>1. k - 1 \in 0..n /\ k \in 0..n
    BY <1>1
  <2>2. e[k - 1] \in Nat /\ e[k] \in Nat /\ e[k] <= L
    BY <1>1, <2>1
  <2> QED BY <1>2, <2>1, <2>2
<1>5. ASSUME NEW k \in 1..n, NEW l \in 1..n, k < l PROVE lo[k] <= lo[l] /\ hi[k] - lo[l] + 1 <= 0
  <2>1. k \in 0..(l - 1) /\ k - 1 \in 0..(l - 1) /\ l - 1 \in 0..n
    BY <1>1, <1>5
  <2>2. e[k] <= e[l - 1] /\ e[k - 1] <= e[l - 1]
    BY <1>3, <2>1
  <2>3. e[k] \in Nat /\ e[l - 1] \in Nat /\ e[k - 1] \in Nat
    BY <1>1, <1>4
  <2>4. lo[k] = e[k - 1] + 1 /\ hi[k] = e[k] /\ lo[l] = e[l - 1] + 1
    BY <1>4
  <2> HIDE DEF lo, hi
  <2> QED BY <2>2, <2>3, <2>4
<1>6. ASSUME NEW x \in 1..L PROVE \E k \in 1..n : x \in lo[k]..hi[k]
  <2> DEFINE T == {k \in 0..n : x <= e[k]}
  <2>1. PICK k \in T : \A y \in T : k <= y
    <3>1. T \subseteq Nat /\ n \in T
      BY <1>1
    <3> HIDE DEF T
    <3> QED BY <3>1, LeastThereIs
  <2>2. k \in 0..n /\ x <= e[k]
    OBVIOUS
  <2>3. k # 0
    BY <1>1, <2>2
  <2>4. k \in 1..n /\ k - 1 \in 0..n
    BY <1>1, <2>2, <2>3
  <2>5. k - 1 \notin T
    BY <2>1, <2>4
  <2>6. e[k - 1] < x
    BY <1>1, <2>4, <2>5
  <2>7. lo[k] = e[k - 1] + 1 /\ hi[k] = e[k] /\ e[k - 1] \in Nat /\ e[k] \in Nat
    BY <1>1, <1>4, <2>4
  <2> HIDE DEF lo, hi
  <2>8. x \in lo[k]..hi[k]
    BY <2>2, <2>6, <2>7
  <2> QED BY <2>4, <2>8
<1> HIDE DEF lo, hi
<1>7. Spans(a, p, lo, hi, 0)
  BY <1>1, <1>4, <1>5, <1>6 DEF Spans, L
<1> QED BY <1>7

LEMMA CutAtRow ==
    ASSUME NEW p \in Seq(Int), Upward(p), NEW starts, starts \subseteq 1..Len(p)
    PROVE  \E e : InARow(CutAt(p, starts), p, e)
<1> DEFINE L == Len(p)
           S == starts \cup {1}
           n == Cardinality(S)
           from == InOrder(S)
           a == CutAt(p, starts)
<1>1. L \in Nat
  OBVIOUS
<1>2. CASE p = <<>>
  <2>1. a = <<>> /\ L = 0 /\ Len(a) = 0 /\ a \in Seq(Seq(Int))
    BY <1>2 DEF CutAt
  <2> DEFINE e == [k \in 0..0 |-> 0]
  <2> HIDE DEF a
  <2>2. e \in [0..Len(a) -> 0..Len(p)] /\ e[0] = 0 /\ e[Len(a)] = Len(p)
    BY <2>1
  <2>3. InARow(a, p, e)
    BY <2>1, <2>2 DEF InARow
  <2> QED BY <2>3 DEF a
<1>3. CASE p # <<>>
  <2>1. L \in Nat \ {0} /\ S \subseteq 1..L /\ S \subseteq Int /\ 1 \in S
    BY <1>1, <1>3, EmptySeq
  <2>2. IsFiniteSet(S)
    <3>1. IsFiniteSet(1..L)
      BY <1>1, FS_Interval
    <3> QED BY <2>1, <3>1, FS_Subset
  <2> HIDE DEF S
  <2>3. /\ n \in Nat /\ Len(from) = n /\ from \in [1..n -> S]
        /\ \A i, j \in 1..n : i < j => from[i] < from[j]
        /\ \A x \in S : \E i \in 1..n : from[i] = x
    BY <2>1, <2>2, InOrderWell
  <2>4. DOMAIN from = 1..n /\ \A k \in 1..n : from[k] \in 1..L /\ from[k] \in Int
    BY <2>1, <2>3
  <2>5. a = [k \in 1..n |-> SubSeq(p, from[k], IF k = n THEN L ELSE from[k + 1] - 1)]
    BY <1>3, <2>3, <2>4 DEF CutAt, S
  <2> HIDE DEF n, from, a
  <2>6. n >= 1 /\ from[1] = 1
    <3>1. PICK i \in 1..n : from[i] = 1
      BY <2>1, <2>3
    <3>2. 1 \in 1..n /\ from[1] \in 1..L
      BY <2>3, <2>4, <3>1
    <3>3. ~(1 < i)
      <4>1. 1 < i => from[1] < from[i]
        BY <2>3, <3>2
      <4> QED BY <3>1, <3>2, <4>1
    <3> QED BY <2>3, <3>1, <3>3
  <2> DEFINE e == [k \in 0..n |-> IF k = n THEN L ELSE from[k + 1] - 1]
  <2>7. ASSUME NEW k \in 0..n PROVE e[k] \in 0..L /\ (k = n => e[k] = L) /\ (k # n => k + 1 \in 1..n /\ e[k] = from[k + 1] - 1)
    <3>1. CASE k = n
      BY <1>1, <3>1
    <3>2. CASE k # n
      <4>1. k + 1 \in 1..n
        BY <2>3, <3>2
      <4> QED BY <2>4, <3>2, <4>1
    <3> QED BY <3>1, <3>2
  <2>8. e \in [0..n -> 0..L] /\ e[0] = 0 /\ e[n] = L
    <3>1. 0 \in 0..n /\ n \in 0..n /\ 0 # n
      BY <2>3, <2>6
    <3>2. \A k \in 0..n : e[k] \in 0..L
      BY <2>7
    <3>3. e \in [0..n -> 0..L]
      BY <3>2
    <3>4. e[0] = from[0 + 1] - 1 /\ e[n] = L
      BY <2>7, <3>1
    <3> QED BY <2>6, <3>3, <3>4
  <2>9. ASSUME NEW k \in 1..n PROVE e[k - 1] = from[k] - 1 /\ e[k - 1] <= e[k] /\ a[k] = SubSeq(p, from[k], e[k])
    <3>1. k - 1 \in 0..n /\ k - 1 # n /\ (k - 1) + 1 = k /\ k \in 0..n
      BY <2>3
    <3>2. e[k - 1] = from[k] - 1
      BY <2>7, <3>1
    <3>3. from[k] \in 1..L
      BY <2>4
    <3>4. CASE k = n
      <4>1. e[k] = L
        BY <2>7, <3>1, <3>4
      <4>2. a[k] = SubSeq(p, from[k], L)
        BY <2>5, <3>4
      <4> HIDE DEF e
      <4> QED BY <1>1, <3>2, <3>3, <4>1, <4>2
    <3>5. CASE k # n
      <4>1. k + 1 \in 1..n /\ e[k] = from[k + 1] - 1
        BY <2>7, <3>1, <3>5
      <4>2. from[k] < from[k + 1] /\ from[k + 1] \in Int
        BY <2>3, <2>4, <4>1
      <4>3. a[k] = SubSeq(p, from[k], from[k + 1] - 1)
        BY <2>5, <3>5
      <4> HIDE DEF e
      <4> QED BY <3>2, <3>3, <4>1, <4>2, <4>3
    <3> QED BY <3>4, <3>5
  <2> HIDE DEF e
  <2>10. ASSUME NEW k \in 1..n PROVE Stretch(a[k], p, e[k - 1] + 1, e[k]) /\ a[k] \in Seq(Int)
    <3>1. from[k] \in 1..L /\ e[k] \in 0..L /\ e[k - 1] + 1 = from[k]
      BY <2>4, <2>7, <2>9
    <3>2. Stretch(SubSeq(p, from[k], e[k]), p, from[k], e[k])
      BY <3>1, StretchWell
    <3> QED BY <2>9, <3>1, <3>2 DEF Stretch
  <2>11. a \in Seq(Seq(Int)) /\ Len(a) = n
    <3>1. a \in [1..n -> Seq(Int)]
      BY <2>5, <2>10
    <3> QED BY <2>3, <3>1
  <2>12. InARow(a, p, e)
    BY <2>8, <2>9, <2>10, <2>11 DEF InARow
  <2> QED BY <2>12 DEF a
<1> QED BY <1>2, <1>3

LEMMA CutAtCut ==
    ASSUME NEW t, NEW p \in Seq(Int), Upward(p), NEW starts, starts \subseteq 1..Len(p)
    PROVE  Cutting(t, ToSet(p), CutAt(p, starts), 0)
<1>1. PICK e : InARow(CutAt(p, starts), p, e)
  BY CutAtRow
<1>2. PICK lo, hi : Spans(CutAt(p, starts), p, lo, hi, 0)
  BY <1>1, RowSpans
<1> QED BY <1>2, SpansCut


-----------------------------------------------------------------------------
(* Chunking: pieces without the blank text at their ends *)

Trims(t, q, p) ==
    /\ q \in Seq(Int) /\ Upward(q) /\ ToSet(q) \subseteq ToSet(p) /\ Len(q) \in Nat /\ Len(q) <= Len(p)
    /\ \A i \in ToSet(p) : Blank(t, i) \/ i \in ToSet(q)

LEMMA StripWell == ASSUME NEW t, NEW p \in Seq(Int), Upward(p) PROVE Trims(t, Strip(t, p), p)
<1> DEFINE inked == {i \in DOMAIN p : ~Blank(t, p[i])}
           L == Len(p)
<1>1. L \in Nat /\ DOMAIN p = 1..L /\ ToSet(p) = {p[x] : x \in 1..L}
  BY DEF ToSet
<1>2. inked \subseteq Nat /\ \A i \in inked : i \in 1..L /\ i <= L
  BY <1>1
<1>3. \A x \in 1..L : Blank(t, p[x]) \/ x \in inked
  BY <1>1
<1>4. Strip(t, p) = IF inked = {} THEN <<>> ELSE SubSeq(p, Min(inked), Max(inked))
  BY DEF Strip
<1> HIDE DEF inked
<1>5. CASE inked = {}
  <2> DEFINE q == <<>>
  <2>1. q \in Seq(Int) /\ Len(q) = 0 /\ DOMAIN q = {}
    OBVIOUS
  <2>2. Strip(t, p) = q
    BY <1>4, <1>5
  <2> HIDE DEF q
  <2>3. ToSet(q) = {} /\ Upward(q)
    BY <2>1 DEF ToSet, Upward
  <2>4. \A i \in ToSet(p) : Blank(t, i)
    BY <1>1, <1>3, <1>5
  <2>5. Trims(t, q, p)
    BY <1>1, <2>1, <2>3, <2>4 DEF Trims, L
  <2> QED BY <2>2, <2>5
<1>6. CASE inked # {}
  <2> DEFINE lo == Min(inked)
             hi == Max(inked)
             q == SubSeq(p, lo, hi)
  <2>1. lo \in inked /\ \A y \in inked : lo <= y
    BY <1>2, <1>6, LeastOf
  <2>2. hi \in inked /\ \A y \in inked : hi >= y
    BY <1>1, <1>2, <1>6, GreatestOf
  <2>3. Strip(t, p) = q
    BY <1>4, <1>6
  <2> HIDE DEF lo, hi
  <2>4. lo \in 1..L /\ hi \in 1..L
    BY <1>2, <2>1, <2>2
  <2>5. Stretch(q, p, lo, hi)
    <3>1. lo \in Int /\ hi \in Int /\ 1 <= lo /\ hi <= L
      BY <2>4
    <3> QED BY <3>1, StretchWell DEF L
  <2> HIDE DEF q
  <2>6. q \in Seq(Int) /\ Upward(q) /\ ToSet(q) = {p[x] : x \in lo..hi} /\ Len(q) \in Nat /\ Len(q) <= L
    <3>1. q \in Seq(Int) /\ Upward(q) /\ ToSet(q) = {p[x] : x \in lo..hi}
      BY <2>5 DEF Stretch
    <3>2. Len(q) \in Nat /\ Len(q) = IF lo <= hi THEN hi - lo + 1 ELSE 0
      BY <2>5 DEF Stretch
    <3>3. Len(q) <= L
      BY <1>1, <2>4, <3>2
    <3> QED BY <3>1, <3>2, <3>3
  <2>7. ToSet(q) \subseteq ToSet(p)
    <3>1. \A x \in lo..hi : x \in 1..L
      BY <1>1, <2>4
    <3> QED BY <1>1, <2>6, <3>1
  <2>8. ASSUME NEW i \in ToSet(p), ~Blank(t, i) PROVE i \in ToSet(q)
    <3>1. PICK x \in 1..L : i = p[x]
      BY <1>1
    <3>2. x \in inked
      BY <1>3, <2>8, <3>1
    <3>3. x \in lo..hi
      BY <2>1, <2>2, <2>4, <3>1, <3>2
    <3> QED BY <2>6, <3>1, <3>3
  <2>9. Trims(t, q, p)
    BY <2>6, <2>7, <2>8 DEF Trims, L
  <2> QED BY <2>3, <2>9
<1> QED BY <1>5, <1>6

\* The pieces b are no longer than the pieces they come of.
NoLonger(a, b, at) == \A k \in DOMAIN b : Len(b[k]) <= Len(a[at[k]])

LEMMA InkedNested ==
    ASSUME NEW t, NEW a \in Seq(Seq(Int)), \A k \in DOMAIN a : Upward(a[k]), NEW ov
    PROVE  \E at : Nested(t, a, Inked(t, a), at, ov) /\ NoLonger(a, Inked(t, a), at)
<1> DEFINE s == [k \in DOMAIN a |-> Strip(t, a[k])]
           I == {k \in DOMAIN a : s[k] # <<>>}
           b == Inked(t, a)
           at == Sifted(s, I)
           n == Len(b)
<1>1. DOMAIN a = 1..Len(a) /\ Len(a) \in Nat /\ DOMAIN s = DOMAIN a
  OBVIOUS
<1>2. b = Sift(s, I)
  BY DEF Inked
<1>3. ASSUME NEW k \in DOMAIN a PROVE Trims(t, s[k], a[k])
  <2>1. a[k] \in Seq(Int) /\ Upward(a[k])
    OBVIOUS
  <2>2. Trims(t, Strip(t, a[k]), a[k])
    BY <2>1, StripWell
  <2> QED BY <2>2
<1>4. \A k \in DOMAIN a : k \notin I => s[k] = <<>>
  OBVIOUS
<1>5. s \in Seq(Seq(Int))
  <2>1. \A k \in DOMAIN a : s[k] \in Seq(Int)
    BY <1>3 DEF Trims
  <2> HIDE DEF s
  <2> DEFINE L == Len(a)
  <2>2. s \in [1..L -> Seq(Int)] /\ L \in Nat
    BY <1>1, <2>1 DEF s
  <2> HIDE DEF L
  <2> QED BY <2>2
<1>6. I \cap DOMAIN s = I /\ I \subseteq DOMAIN a
  BY <1>1
<1> HIDE DEF s, I
<1>7. /\ b \in Seq(Seq(Int)) /\ n \in Nat /\ DOMAIN b = 1..n
      /\ Places(at, n, I) /\ SiftedBy(s, I, b, at)
  <2>1. /\ Sift(s, I) \in Seq(Seq(Int)) /\ Len(Sift(s, I)) \in Nat /\ DOMAIN Sift(s, I) = 1..Len(Sift(s, I))
        /\ Places(Sifted(s, I), Len(Sift(s, I)), I \cap DOMAIN s) /\ SiftedBy(s, I, Sift(s, I), Sifted(s, I))
    BY <1>5, SiftWell
  <2> HIDE DEF b
  <2> QED BY <1>2, <1>6, <2>1
<1> HIDE DEF b, at
<1>8. /\ at \in [1..n -> I] /\ \A i, j \in 1..n : i < j => at[i] < at[j]
      /\ \A x \in I : \E i \in 1..n : at[i] = x
  BY <1>7 DEF Places
<1>9. \A k \in 1..n : at[k] \in DOMAIN a /\ at[k] \in Int /\ b[k] = s[at[k]]
  BY <1>1, <1>6, <1>7, <1>8 DEF SiftedBy
<1> HIDE DEF n
<1>10. ASSUME NEW k \in 1..n
       PROVE  /\ b[k] \in Seq(Int) /\ Upward(b[k]) /\ ToSet(b[k]) \subseteq ToSet(a[at[k]]) /\ Len(b[k]) <= Len(a[at[k]])
              /\ \A i \in ToSet(a[at[k]]) : Blank(t, i) \/ i \in ToSet(b[k])
  BY <1>3, <1>9 DEF Trims
<1>11. at \in [DOMAIN b -> DOMAIN a]
  BY <1>6, <1>7, <1>8
<1>12. ASSUME NEW k \in 1..n, NEW l \in 1..n, at[k] < at[l] PROVE k < l
  <2>1. k = l => at[k] = at[l]
    OBVIOUS
  <2>2. l < k => at[l] < at[k]
    BY <1>8
  <2> QED BY <1>7, <1>9, <1>12, <2>1, <2>2
<1>13. ASSUME NEW k \in 1..n, NEW l \in 1..n, k # l PROVE at[k] # at[l]
  <2>1. k < l \/ l < k
    BY <1>7, <1>13
  <2>2. at[k] < at[l] \/ at[l] < at[k]
    BY <1>8, <2>1
  <2> QED BY <1>9, <2>2
<1>14. ASSUME NEW m \in DOMAIN a, NEW i \in ToSet(a[m]), ~Blank(t, i)
       PROVE  \E k \in DOMAIN b : at[k] = m /\ i \in ToSet(b[k])
  <2>1. i \in ToSet(s[m])
    BY <1>3, <1>14 DEF Trims
  <2>2. m \in I
    <3>1. s[m] # <<>>
      BY <2>1 DEF ToSet
    <3> QED BY <1>4, <3>1
  <2>3. PICK k \in 1..n : at[k] = m
    BY <1>8, <2>2
  <2> QED BY <1>7, <1>9, <2>1, <2>3
<1>15. ASSUME NEW k \in DOMAIN b, NEW i \in ToSet(b[k]), NEW j \in ToSet(a[at[k]]), ~Blank(t, j)
       PROVE  \E l \in DOMAIN b : l <= k /\ j \in ToSet(b[l])
  <2>1. j \in ToSet(b[k]) /\ k <= k
    BY <1>7, <1>10, <1>15
  <2> QED BY <2>1
<1>16. Nested(t, a, b, at, ov)
  BY <1>7, <1>10, <1>11, <1>12, <1>13, <1>14, <1>15 DEF Nested
<1>17. NoLonger(a, b, at)
  BY <1>7, <1>10 DEF NoLonger
<1> QED BY <1>16, <1>17 DEF b

LEMMA ShorterNested ==
    ASSUME NEW a \in Seq(Seq(Int)), NEW b \in Seq(Seq(Int)), NEW at \in [DOMAIN b -> DOMAIN a], NoLonger(a, b, at),
           NEW m \in Int, Short(a, m)
    PROVE  Short(b, m)
<1> SUFFICES ASSUME NEW k \in DOMAIN b PROVE Len(b[k]) <= m
  BY DEF Short
<1>1. at[k] \in DOMAIN a /\ Len(b[k]) <= Len(a[at[k]])
  BY DEF NoLonger
<1>2. Len(a[at[k]]) <= m
  BY <1>1 DEF Short
<1>3. Len(b[k]) \in Int /\ Len(a[at[k]]) \in Int
  BY <1>1
<1> QED BY <1>1, <1>2, <1>3

LEMMA InkedCut ==
    ASSUME NEW t, NEW S, NEW a, NEW ov \in Int, Cutting(t, S, a, ov), NEW m \in Int, Short(a, m)
    PROVE  Cutting(t, S, Inked(t, a), ov) /\ Short(Inked(t, a), m)
<1>1. a \in Seq(Seq(Int)) /\ \A k \in DOMAIN a : Upward(a[k])
  BY DEF Cutting, Inside
<1>2. PICK at : Nested(t, a, Inked(t, a), at, ov) /\ NoLonger(a, Inked(t, a), at)
  BY <1>1, InkedNested
<1>3. Inked(t, a) \in Seq(Seq(Int)) /\ at \in [DOMAIN Inked(t, a) -> DOMAIN a]
  BY <1>2 DEF Nested
<1>4. Cutting(t, S, Inked(t, a), ov)
  BY <1>2, CutNested
<1>5. Short(Inked(t, a), m)
  BY <1>1, <1>2, <1>3, ShorterNested
<1> QED BY <1>4, <1>5

\* Two lists of pieces, each cut.
LEMMA NestedJoin ==
    ASSUME NEW t, NEW a \in Seq(Seq(Int)), NEW c_ \in Seq(Seq(Int)), NEW b, NEW d, NEW at, NEW bt, NEW ov,
           Nested(t, a, b, at, ov), Nested(t, c_, d, bt, ov), NoLonger(a, b, at), NoLonger(c_, d, bt)
    PROVE  \E et : Nested(t, a \o c_, b \o d, et, ov) /\ NoLonger(a \o c_, b \o d, et)
<1> DEFINE x == a \o c_
           y == b \o d
           n == Len(a)
           p == Len(c_)
           m == Len(b)
           q == Len(d)
           et == [k \in 1..(m + q) |-> IF k <= m THEN at[k] ELSE n + bt[k - m]]
<1>0. b \in Seq(Seq(Int)) /\ d \in Seq(Seq(Int)) /\ at \in [DOMAIN b -> DOMAIN a] /\ bt \in [DOMAIN d -> DOMAIN c_]
  BY DEF Nested
<1>1. /\ x \in Seq(Seq(Int)) /\ n \in Nat /\ p \in Nat /\ DOMAIN a = 1..n /\ DOMAIN c_ = 1..p /\ DOMAIN x = 1..(n + p)
      /\ \A k \in 1..(n + p) : x[k] = IF k <= n THEN a[k] ELSE c_[k - n]
  BY ConcatProperties
<1>2. /\ y \in Seq(Seq(Int)) /\ m \in Nat /\ q \in Nat /\ DOMAIN b = 1..m /\ DOMAIN d = 1..q /\ DOMAIN y = 1..(m + q)
      /\ \A k \in 1..(m + q) : y[k] = IF k <= m THEN b[k] ELSE d[k - m]
  BY <1>0, ConcatProperties
<1> HIDE DEF x, y, n, p, m, q
<1>3. \A k \in DOMAIN a : k \in DOMAIN x /\ x[k] = a[k] /\ k <= n
  BY <1>1
<1>4. \A k \in DOMAIN c_ : n + k \in DOMAIN x /\ x[n + k] = c_[k]
  <2> TAKE k \in DOMAIN c_
  <2>1. n + k \in 1..(n + p) /\ ~(n + k <= n) /\ (n + k) - n = k
    BY <1>1
  <2> QED BY <1>1, <2>1
<1>5. \A k \in DOMAIN b : k \in DOMAIN y /\ y[k] = b[k] /\ et[k] = at[k] /\ at[k] \in DOMAIN a /\ x[et[k]] = a[at[k]]
  <2> TAKE k \in DOMAIN b
  <2>1. k \in 1..(m + q) /\ k <= m
    BY <1>2
  <2> QED BY <1>0, <1>2, <1>3, <2>1
<1>6. \A k \in DOMAIN d : m + k \in DOMAIN y /\ y[m + k] = d[k] /\ et[m + k] = n + bt[k] /\ bt[k] \in DOMAIN c_
                          /\ x[et[m + k]] = c_[bt[k]]
  <2> TAKE k \in DOMAIN d
  <2>1. m + k \in 1..(m + q) /\ ~(m + k <= m) /\ (m + k) - m = k
    BY <1>2
  <2> QED BY <1>0, <1>2, <1>4, <2>1
<1> HIDE DEF et
<1>7. \A k \in DOMAIN y : \/ k \in DOMAIN b /\ k <= m
                          \/ \E l \in DOMAIN d : k = m + l
  <2> TAKE k \in DOMAIN y
  <2>1. CASE k <= m
    BY <1>2, <2>1
  <2>2. CASE ~(k <= m)
    <3>1. k - m \in DOMAIN d /\ k = m + (k - m)
      BY <1>2, <2>2
    <3> QED BY <3>1
  <2> QED BY <2>1, <2>2
<1>8. \A k \in DOMAIN x : \/ k \in DOMAIN a /\ k <= n
                          \/ \E l \in DOMAIN c_ : k = n + l
  <2> TAKE k \in DOMAIN x
  <2>1. CASE k <= n
    BY <1>1, <2>1
  <2>2. CASE ~(k <= n)
    <3>1. k - n \in DOMAIN c_ /\ k = n + (k - n)
      BY <1>1, <2>2
    <3> QED BY <3>1
  <2> QED BY <2>1, <2>2
<1>9. et \in [DOMAIN y -> DOMAIN x]
  <2>1. ASSUME NEW k \in DOMAIN y PROVE et[k] \in DOMAIN x
    <3>1. CASE k \in DOMAIN b
      BY <1>3, <1>5, <3>1
    <3>2. ASSUME NEW l \in DOMAIN d, k = m + l PROVE et[k] \in DOMAIN x
      BY <1>4, <1>6, <3>2
    <3> QED BY <1>7, <3>1, <3>2
  <2> QED BY <1>2, <2>1 DEF et
<1>10. ASSUME NEW k \in DOMAIN y, NEW l \in DOMAIN y, et[k] < et[l] PROVE k < l
  <2>1. CASE k \in DOMAIN b /\ l \in DOMAIN b
    BY <1>5, <1>10, <2>1 DEF Nested
  <2>2. ASSUME k \in DOMAIN b, NEW j \in DOMAIN d, l = m + j PROVE k < l
    BY <1>2, <2>2
  <2>3. ASSUME NEW i \in DOMAIN d, k = m + i, l \in DOMAIN b PROVE FALSE
    <3>1. et[k] = n + bt[i] /\ bt[i] \in 1..p /\ et[l] = at[l] /\ at[l] \in 1..n
      BY <1>1, <1>5, <1>6, <2>3
    <3> QED BY <1>1, <1>10, <3>1
  <2>4. ASSUME NEW i \in DOMAIN d, k = m + i, NEW j \in DOMAIN d, l = m + j PROVE k < l
    <3>1. et[k] = n + bt[i] /\ bt[i] \in 1..p /\ et[l] = n + bt[j] /\ bt[j] \in 1..p
      BY <1>1, <1>6, <2>4
    <3>2. bt[i] < bt[j]
      BY SMTT(30), <1>1, <1>10, <3>1
    <3>3. i < j
      BY <3>2 DEF Nested
    <3> QED BY <1>2, <2>4, <3>3
  <2> QED BY <1>7, <2>1, <2>2, <2>3, <2>4
<1>11. ASSUME NEW k \in DOMAIN y
       PROVE  Upward(y[k]) /\ ToSet(y[k]) \subseteq ToSet(x[et[k]]) /\ Len(y[k]) <= Len(x[et[k]])
  <2>1. CASE k \in DOMAIN b
    BY <1>5, <2>1 DEF Nested, NoLonger
  <2>2. ASSUME NEW l \in DOMAIN d, k = m + l
        PROVE  Upward(y[k]) /\ ToSet(y[k]) \subseteq ToSet(x[et[k]]) /\ Len(y[k]) <= Len(x[et[k]])
    BY <1>6, <2>2 DEF Nested, NoLonger
  <2> QED BY <1>7, <2>1, <2>2
<1>12. ASSUME NEW h \in DOMAIN x, NEW i \in ToSet(x[h]), ~Blank(t, i)
       PROVE  \E k \in DOMAIN y : et[k] = h /\ i \in ToSet(y[k])
  <2>1. CASE h \in DOMAIN a
    <3>1. i \in ToSet(a[h])
      BY <1>3, <2>1
    <3>2. PICK k \in DOMAIN b : at[k] = h /\ i \in ToSet(b[k])
      BY <1>12, <2>1, <3>1 DEF Nested
    <3> QED BY <1>5, <3>2
  <2>2. ASSUME NEW l \in DOMAIN c_, h = n + l PROVE \E k \in DOMAIN y : et[k] = h /\ i \in ToSet(y[k])
    <3>1. i \in ToSet(c_[l])
      BY <1>4, <2>2
    <3>2. PICK k \in DOMAIN d : bt[k] = l /\ i \in ToSet(d[k])
      BY <1>12, <3>1 DEF Nested
    <3> QED BY <1>6, <2>2, <3>2
  <2> QED BY <1>8, <2>1, <2>2
<1>13. ASSUME NEW k \in DOMAIN y, NEW i \in ToSet(y[k]), NEW j \in ToSet(x[et[k]]), j < i, ~Blank(t, j)
       PROVE  \E l \in DOMAIN y : l <= k /\ j \in ToSet(y[l])
  <2>1. CASE k \in DOMAIN b
    <3>1. i \in ToSet(b[k]) /\ j \in ToSet(a[at[k]])
      BY <1>5, <2>1
    <3>2. PICK l \in DOMAIN b : l <= k /\ j \in ToSet(b[l])
      BY <1>13, <2>1, <3>1 DEF Nested
    <3> QED BY <1>5, <3>2
  <2>2. ASSUME NEW h \in DOMAIN d, k = m + h PROVE \E l \in DOMAIN y : l <= k /\ j \in ToSet(y[l])
    <3>1. i \in ToSet(d[h]) /\ j \in ToSet(c_[bt[h]])
      BY <1>6, <2>2
    <3>2. PICK l \in DOMAIN d : l <= h /\ j \in ToSet(d[l])
      BY <1>13, <3>1 DEF Nested
    <3>3. m + l <= k
      BY <1>2, <2>2, <3>2
    <3> QED BY <1>6, <3>2, <3>3
  <2> QED BY <1>7, <2>1, <2>2
<1>14. ASSUME NEW k \in DOMAIN y, NEW l \in DOMAIN y, k # l, et[k] = et[l] PROVE Cardinality(Shared(y[k], y[l])) <= ov
  <2>1. CASE k \in DOMAIN b /\ l \in DOMAIN b
    BY <1>5, <1>14, <2>1 DEF Nested
  <2>2. ASSUME k \in DOMAIN b, NEW j \in DOMAIN d, l = m + j PROVE FALSE
    <3>1. et[l] = n + bt[j] /\ bt[j] \in 1..p /\ et[k] = at[k] /\ at[k] \in 1..n
      BY <1>1, <1>5, <1>6, <2>2
    <3>2. at[k] = n + bt[j]
      BY <1>14, <3>1
    <3> QED BY <1>1, <3>1, <3>2
  <2>3. ASSUME NEW i \in DOMAIN d, k = m + i, l \in DOMAIN b PROVE FALSE
    <3>1. et[k] = n + bt[i] /\ bt[i] \in 1..p /\ et[l] = at[l] /\ at[l] \in 1..n
      BY <1>1, <1>5, <1>6, <2>3
    <3>2. at[l] = n + bt[i]
      BY <1>14, <3>1
    <3> QED BY <1>1, <3>1, <3>2
  <2>4. ASSUME NEW i \in DOMAIN d, k = m + i, NEW j \in DOMAIN d, l = m + j PROVE Cardinality(Shared(y[k], y[l])) <= ov
    <3>1. et[k] = n + bt[i] /\ bt[i] \in 1..p /\ et[l] = n + bt[j] /\ bt[j] \in 1..p
      BY <1>1, <1>6, <2>4
    <3>2. bt[i] = bt[j]
      <4>1. n + bt[i] = n + bt[j]
        BY <1>14, <3>1
      <4> QED BY <1>1, <3>1, <4>1
    <3>3. i # j
      BY <1>14, <2>4
    <3>4. Cardinality(Shared(d[i], d[j])) <= ov
      BY <3>2, <3>3 DEF Nested
    <3> QED BY <1>6, <2>4, <3>4
  <2> QED BY <1>7, <2>1, <2>2, <2>3, <2>4
<1>15. Nested(t, x, y, et, ov)
  BY <1>2, <1>9, <1>10, <1>11, <1>12, <1>13, <1>14 DEF Nested
<1>16. NoLonger(x, y, et)
  BY <1>11 DEF NoLonger
<1> QED BY <1>15, <1>16 DEF x, y

LEMMA NestedSame ==
    ASSUME NEW t, NEW a \in Seq(Seq(Int)), \A k \in DOMAIN a : Upward(a[k]), NEW ov
    PROVE  \E at : Nested(t, a, a, at, ov) /\ NoLonger(a, a, at)
<1> DEFINE at == [k \in DOMAIN a |-> k]
<1>1. DOMAIN a = 1..Len(a) /\ Len(a) \in Nat /\ at \in [DOMAIN a -> DOMAIN a] /\ \A k \in DOMAIN a : at[k] = k /\ k \in Int
  OBVIOUS
<1> HIDE DEF at
<1>2. \A k \in DOMAIN a : k <= k /\ Len(a[k]) <= Len(a[k])
  <2> TAKE k \in DOMAIN a
  <2>1. Len(a[k]) \in Nat /\ k \in Int
    BY <1>1
  <2> QED BY <2>1
<1>3. Nested(t, a, a, at, ov)
  BY <1>1, <1>2 DEF Nested
<1>4. NoLonger(a, a, at)
  BY <1>1, <1>2 DEF NoLonger
<1> QED BY <1>3, <1>4


-----------------------------------------------------------------------------
(* Chunking: collecting units *)

\* What is collected goes out without the blank text at its ends.
LEMMA CutFlush ==
    ASSUME NEW t, NEW S, NEW out \in Seq(Seq(Int)), NEW buf \in Seq(Int), NEW ov \in Int, Cutting(t, S, Append(out, buf), ov),
           NEW m \in Int, Short(Append(out, buf), m)
    PROVE  Cutting(t, S, out \o Inked(t, <<buf>>), ov) /\ Short(out \o Inked(t, <<buf>>), m)
<1> DEFINE a == Append(out, buf)
           b == <<buf>>
           c_ == Inked(t, b)
           d == out \o c_
           n == Len(out)
<1>1. /\ a \in Seq(Seq(Int)) /\ n \in Nat /\ DOMAIN out = 1..n /\ DOMAIN a = 1..(n + 1)
      /\ (\A k \in 1..n : a[k] = out[k]) /\ a[n + 1] = buf
  BY AppendProperties
<1>2. b \in Seq(Seq(Int)) /\ Len(b) = 1 /\ DOMAIN b = {1} /\ b[1] = buf
  OBVIOUS
<1>3. a = out \o b
  <2>1. /\ out \o b \in Seq(Seq(Int)) /\ Len(out \o b) = n + 1 /\ Len(a) = n + 1
        /\ \A k \in 1..(n + 1) : (out \o b)[k] = IF k <= n THEN out[k] ELSE b[k - n]
    BY <1>1, <1>2, ConcatProperties, AppendProperties
  <2>2. \A k \in 1..(n + 1) : (out \o b)[k] = a[k]
    <3> TAKE k \in 1..(n + 1)
    <3>1. CASE k <= n
      BY <1>1, <2>1, <3>1
    <3>2. CASE ~(k <= n)
      <4>1. k = n + 1 /\ k - n = 1
        BY <1>1, <3>2
      <4> QED BY <1>1, <1>2, <2>1, <3>2, <4>1
    <3> QED BY <3>1, <3>2
  <2> QED BY <1>1, <2>1, <2>2, SeqEqual
<1>4. \A k \in DOMAIN a : Upward(a[k])
  BY DEF Cutting, Inside
<1> HIDE DEF a, b
<1>5. (\A k \in DOMAIN out : Upward(out[k])) /\ Upward(buf)
  <2>1. \A k \in DOMAIN out : k \in DOMAIN a /\ a[k] = out[k]
    BY <1>1
  <2>2. n + 1 \in DOMAIN a
    BY <1>1
  <2> QED BY <1>1, <1>4, <2>1, <2>2
<1>6. PICK at : Nested(t, out, out, at, ov) /\ NoLonger(out, out, at)
  BY <1>5, NestedSame
<1>7. PICK bt : Nested(t, b, c_, bt, ov) /\ NoLonger(b, c_, bt)
  BY <1>2, <1>5, InkedNested
<1>8. PICK et : Nested(t, out \o b, d, et, ov) /\ NoLonger(out \o b, d, et)
  BY <1>2, <1>6, <1>7, NestedJoin
<1>9. Nested(t, a, d, et, ov) /\ NoLonger(a, d, et)
  BY <1>3, <1>8
<1>10. d \in Seq(Seq(Int)) /\ et \in [DOMAIN d -> DOMAIN a]
  BY <1>9 DEF Nested
<1>11. Cutting(t, S, a, ov) /\ Short(a, m)
  BY DEF a
<1> HIDE DEF d
<1>12. Cutting(t, S, d, ov)
  BY <1>9, <1>11, CutNested
<1>13. Short(d, m)
  BY <1>1, <1>9, <1>10, <1>11, ShorterNested
<1> QED BY <1>12, <1>13 DEF d, b

\* The last piece grows by what comes next.
Grown(q, buf, u) == q \in Seq(Int) /\ Upward(q) /\ ToSet(q) = ToSet(buf) \cup ToSet(u) /\ Len(q) = Len(buf) + Len(u)

LEMMA GrowsWell ==
    ASSUME NEW buf \in Seq(Int), NEW u \in Seq(Int), Upward(buf), Upward(u), \A i \in ToSet(buf), j \in ToSet(u) : i < j
    PROVE  Grown(buf \o u, buf, u)
<1> DEFINE q == buf \o u
           n == Len(buf)
           m == Len(u)
<1>1. /\ q \in Seq(Int) /\ n \in Nat /\ m \in Nat /\ DOMAIN buf = 1..n /\ DOMAIN u = 1..m /\ DOMAIN q = 1..(n + m)
      /\ Len(q) = n + m
      /\ \A k \in 1..(n + m) : q[k] = IF k <= n THEN buf[k] ELSE u[k - n]
  BY ConcatProperties
<1> HIDE DEF q, n, m
<1>2. \A k \in DOMAIN q : (k <= n /\ k \in DOMAIN buf /\ q[k] = buf[k]) \/ (k > n /\ k - n \in DOMAIN u /\ q[k] = u[k - n])
  <2> TAKE k \in DOMAIN q
  <2>1. CASE k <= n
    <3>1. k \in DOMAIN buf /\ q[k] = buf[k]
      BY <1>1, <2>1
    <3> QED BY <2>1, <3>1
  <2>2. CASE ~(k <= n)
    <3>1. k > n /\ k - n \in DOMAIN u /\ q[k] = u[k - n]
      BY <1>1, <2>2
    <3> QED BY <3>1
  <2> QED BY <2>1, <2>2
<1>3. (\A k \in DOMAIN buf : buf[k] \in ToSet(buf)) /\ (\A k \in DOMAIN u : u[k] \in ToSet(u))
  BY DEF ToSet
<1>4. Upward(q)
  <2> SUFFICES ASSUME NEW k \in DOMAIN q, NEW l \in DOMAIN q, k < l PROVE q[k] < q[l]
    BY DEF Upward
  <2>1. CASE k <= n /\ l <= n
    <3>1. k \in DOMAIN buf /\ l \in DOMAIN buf /\ q[k] = buf[k] /\ q[l] = buf[l]
      BY <1>1, <1>2, <2>1
    <3> QED BY <3>1 DEF Upward
  <2>2. CASE k <= n /\ l > n
    <3>1. k \in DOMAIN buf /\ l - n \in DOMAIN u /\ q[k] = buf[k] /\ q[l] = u[l - n]
      BY <1>1, <1>2, <2>2
    <3> QED BY <1>3, <3>1
  <2>3. CASE k > n /\ l > n
    <3>1. k - n \in DOMAIN u /\ l - n \in DOMAIN u /\ q[k] = u[k - n] /\ q[l] = u[l - n] /\ k - n < l - n
      BY <1>1, <1>2, <2>3
    <3> QED BY <3>1 DEF Upward
  <2> QED BY SMTT(30), <1>1, <2>1, <2>2, <2>3
<1>5. ToSet(q) = ToSet(buf) \cup ToSet(u)
  <2>1. ASSUME NEW k \in DOMAIN q PROVE q[k] \in ToSet(buf) \cup ToSet(u)
    BY <1>2, <1>3
  <2>2. ASSUME NEW k \in DOMAIN buf PROVE \E l \in DOMAIN q : q[l] = buf[k]
    <3>1. k \in DOMAIN q /\ k <= n
      BY <1>1
    <3>2. q[k] = buf[k]
      BY <1>1, <3>1
    <3> QED BY <3>1, <3>2
  <2>3. ASSUME NEW k \in DOMAIN u PROVE \E l \in DOMAIN q : q[l] = u[k]
    <3>1. n + k \in DOMAIN q /\ ~(n + k <= n) /\ (n + k) - n = k
      BY SMTT(30), <1>1
    <3>2. q[n + k] = u[k]
      BY <1>1, <3>1
    <3> QED BY <3>1, <3>2
  <2>4. ToSet(q) \subseteq ToSet(buf) \cup ToSet(u)
    BY <2>1 DEF ToSet
  <2>5. ToSet(buf) \subseteq ToSet(q)
    BY <2>2 DEF ToSet
  <2>6. ToSet(u) \subseteq ToSet(q)
    BY <2>3 DEF ToSet
  <2> QED BY <2>4, <2>5, <2>6
<1> QED BY <1>1, <1>4, <1>5 DEF Grown, q, n, m

LEMMA CutExtend ==
    ASSUME NEW t, NEW S, S \subseteq Int, NEW out \in Seq(Seq(Int)), NEW buf \in Seq(Int), NEW ov \in Int,
           Cutting(t, S, Append(out, buf), ov), NEW u \in Seq(Int), Upward(u), \A i \in S, j \in ToSet(u) : i < j
    PROVE  Cutting(t, S \cup ToSet(u), Append(out, buf \o u), ov)
<1> DEFINE q == buf \o u
           a == Append(out, buf)
           b == Append(out, q)
           n == Len(out)
           U == ToSet(u)
<1>1. /\ a \in Seq(Seq(Int)) /\ n \in Nat /\ DOMAIN out = 1..n /\ DOMAIN a = 1..(n + 1)
      /\ (\A k \in 1..n : a[k] = out[k]) /\ a[n + 1] = buf
  BY AppendProperties
<1>2. Inside(S, a) /\ Reaches(t, S, a) /\ InTurn(t, S, a) /\ SharesLittle(a, ov)
  BY DEF Cutting
<1> HIDE DEF a
<1>3. n + 1 \in DOMAIN a /\ Upward(buf) /\ ToSet(buf) \subseteq S
  <2>1. n + 1 \in DOMAIN a
    BY <1>1
  <2> QED BY <1>1, <1>2, <2>1 DEF Inside
<1>4. Grown(q, buf, u)
  <2>1. \A i \in ToSet(buf), j \in U : i < j
    BY <1>3
  <2> QED BY <1>3, <2>1, GrowsWell
<1> HIDE DEF q
<1>5. q \in Seq(Int) /\ Upward(q) /\ ToSet(q) = ToSet(buf) \cup U
  BY <1>4 DEF Grown
<1>6. /\ b \in Seq(Seq(Int)) /\ DOMAIN b = 1..(n + 1)
      /\ (\A k \in 1..n : b[k] = out[k]) /\ b[n + 1] = q
  BY <1>5, AppendProperties
<1> HIDE DEF b, n
<1>7. \A k \in DOMAIN b : \/ k \in 1..n /\ b[k] = a[k] /\ a[k] = out[k]
                          \/ k = n + 1 /\ \A l \in DOMAIN b : l <= k
  <2> TAKE k \in DOMAIN b
  <2>1. CASE k = n + 1
    BY <1>1, <1>6, <2>1
  <2>2. CASE k # n + 1
    <3>1. k \in 1..n
      BY <1>1, <1>6, <2>2
    <3> QED BY <1>1, <1>6, <3>1
  <2> QED BY <2>1, <2>2
<1>8. DOMAIN b = DOMAIN a /\ \A k \in DOMAIN b : ToSet(a[k]) \subseteq ToSet(b[k]) /\ ToSet(b[k]) \subseteq ToSet(a[k]) \cup U
  <2>1. DOMAIN b = DOMAIN a
    BY <1>1, <1>6
  <2>2. ASSUME NEW k \in DOMAIN b PROVE ToSet(a[k]) \subseteq ToSet(b[k]) /\ ToSet(b[k]) \subseteq ToSet(a[k]) \cup U
    <3>1. CASE k = n + 1
      BY <1>1, <1>5, <1>6, <3>1
    <3>2. CASE b[k] = a[k]
      BY <3>2
    <3> QED BY <1>7, <3>1, <3>2
  <2> QED BY <2>1, <2>2
<1>9. \A k \in DOMAIN a : ToSet(a[k]) \subseteq S /\ Upward(a[k])
  BY <1>2 DEF Inside
<1>10. Inside(S \cup U, b)
  <2>1. ASSUME NEW k \in DOMAIN b PROVE Upward(b[k]) /\ ToSet(b[k]) \subseteq S \cup U
    <3>1. Upward(b[k])
      BY <1>5, <1>6, <1>7, <1>8, <1>9
    <3> QED BY <1>8, <1>9, <3>1
  <2> QED BY <1>6, <2>1 DEF Inside
<1>11. Reaches(t, S \cup U, b)
  <2> SUFFICES ASSUME NEW i \in S \cup U, ~Blank(t, i) PROVE \E k \in DOMAIN b : i \in ToSet(b[k])
    BY DEF Reaches
  <2>1. CASE i \in S
    <3>1. PICK k \in DOMAIN a : i \in ToSet(a[k])
      BY <1>2, <2>1 DEF Reaches
    <3> QED BY <1>8, <3>1
  <2>2. CASE i \in U
    <3>1. n + 1 \in DOMAIN b
      BY <1>3, <1>8
    <3> QED BY <1>5, <1>6, <2>2, <3>1
  <2> QED BY <2>1, <2>2
<1>12. InTurn(t, S \cup U, b)
  <2> SUFFICES ASSUME NEW k \in DOMAIN b, NEW i \in ToSet(b[k]), NEW j \in S \cup U, j < i, ~Blank(t, j)
               PROVE  \E l \in DOMAIN b : l <= k /\ j \in ToSet(b[l])
    BY DEF InTurn
  <2>1. CASE k \in 1..n /\ b[k] = a[k] /\ a[k] = out[k]
    <3>1. i \in S
      BY <1>8, <1>9, <2>1
    <3>2. j \in S
      <4>1. j \in U => i < j
        BY <3>1
      <4>2. i \in Int /\ (j \in U => j \in Int)
        <5>1. U \subseteq Int
          BY DEF ToSet
        <5> QED BY <3>1, <5>1
      <4> QED BY <4>1, <4>2
    <3>3. i \in ToSet(a[k]) /\ k \in DOMAIN a
      BY <1>8, <2>1
    <3>4. PICK l \in DOMAIN a : l <= k /\ j \in ToSet(a[l])
      BY <1>2, <3>2, <3>3 DEF InTurn
    <3> QED BY <1>8, <3>4
  <2>2. CASE k = n + 1 /\ \A l \in DOMAIN b : l <= k
    <3>1. PICK l \in DOMAIN b : j \in ToSet(b[l])
      BY <1>11 DEF Reaches
    <3> QED BY <2>2, <3>1
  <2> QED BY <1>7, <2>1, <2>2
<1>13. SharesLittle(b, ov)
  <2> SUFFICES ASSUME NEW k \in DOMAIN b, NEW l \in DOMAIN b, k # l PROVE Cardinality(Shared(b[k], b[l])) <= ov
    BY DEF SharesLittle
  <2>1. ToSet(b[k]) \cap ToSet(b[l]) \subseteq ToSet(a[k]) \cap ToSet(a[l])
    <3>1. ToSet(b[k]) \cap ToSet(b[l]) \cap U = {}
      <4> SUFFICES ASSUME NEW i \in U, i \in ToSet(b[k]), i \in ToSet(b[l]) PROVE FALSE
        OBVIOUS
      <4>1. b[k] = a[k] \/ b[l] = a[l]
        BY <1>7
      <4>2. i \in S
        BY <1>8, <1>9, <4>1
      <4>3. i < i
        BY <4>2
      <4> QED BY <4>2, <4>3
    <3> QED BY <1>8, <3>1
  <2>2. Shared(b[k], b[l]) \subseteq Shared(a[k], a[l])
    BY <2>1 DEF Shared
  <2>3. Cardinality(Shared(a[k], a[l])) <= ov
    BY <1>2, <1>8 DEF SharesLittle
  <2>4. IsFiniteSet(ToSet(a[k]))
    BY <1>2, <1>8, PiecesTyped
  <2>5. IsFiniteSet(Shared(a[k], a[l]))
    BY <2>4, FS_Subset DEF Shared
  <2> QED BY <2>2, <2>3, <2>5, SharesLess
<1> QED BY <1>10, <1>11, <1>12, <1>13 DEF Cutting, b, q


-----------------------------------------------------------------------------
(* Chunking: _split_fixed *)

LEMMA ShortAppend ==
    ASSUME NEW a \in Seq(Seq(Int)), NEW x \in Seq(Int), NEW m \in Int
    PROVE  Short(Append(a, x), m) <=> Short(a, m) /\ Len(x) <= m
<1> DEFINE b == Append(a, x)
           n == Len(a)
<1>1. /\ n \in Nat /\ DOMAIN a = 1..n /\ DOMAIN b = 1..(n + 1)
      /\ (\A k \in 1..n : b[k] = a[k]) /\ b[n + 1] = x
  BY AppendProperties
<1> HIDE DEF b, n
<1>2. ASSUME Short(b, m) PROVE Short(a, m) /\ Len(x) <= m
  <2>1. \A k \in DOMAIN a : k \in DOMAIN b /\ b[k] = a[k]
    BY <1>1
  <2>2. n + 1 \in DOMAIN b
    BY <1>1
  <2> QED BY <1>1, <1>2, <2>1, <2>2 DEF Short
<1>3. ASSUME Short(a, m), Len(x) <= m PROVE Short(b, m)
  <2> SUFFICES ASSUME NEW k \in DOMAIN b PROVE Len(b[k]) <= m
    BY DEF Short
  <2>1. CASE k = n + 1
    BY <1>1, <1>3, <2>1
  <2>2. CASE k # n + 1
    <3>1. k \in DOMAIN a /\ b[k] = a[k]
      BY <1>1, <2>2
    <3> QED BY <1>3, <3>1 DEF Short
  <2> QED BY <2>1, <2>2
<1> QED BY <1>2, <1>3 DEF b

LEMMA ShortJoin ==
    ASSUME NEW a \in Seq(Seq(Int)), NEW b \in Seq(Seq(Int)), NEW m, Short(a, m), Short(b, m)
    PROVE  Short(a \o b, m)
<1> DEFINE d == a \o b
           n == Len(a)
           p == Len(b)
<1>1. /\ n \in Nat /\ p \in Nat /\ DOMAIN a = 1..n /\ DOMAIN b = 1..p /\ DOMAIN d = 1..(n + p)
      /\ \A k \in 1..(n + p) : d[k] = IF k <= n THEN a[k] ELSE b[k - n]
  BY ConcatProperties
<1> HIDE DEF d, n, p
<1>2. ASSUME NEW k \in DOMAIN d PROVE Len(d[k]) <= m
  <2>1. CASE k <= n
    <3>1. k \in DOMAIN a /\ d[k] = a[k]
      BY <1>1, <2>1
    <3> QED BY <3>1 DEF Short
  <2>2. CASE ~(k <= n)
    <3>1. k - n \in DOMAIN b /\ d[k] = b[k - n]
      BY <1>1, <2>2
    <3> QED BY <3>1 DEF Short
  <2> QED BY <2>1, <2>2
<1> QED BY <1>2 DEF Short, d

LEMMA ShortMore ==
    ASSUME NEW a \in Seq(Seq(Int)), NEW m \in Int, NEW n \in Int, m <= n, Short(a, m)
    PROVE  Short(a, n)
<1> SUFFICES ASSUME NEW k \in DOMAIN a PROVE Len(a[k]) <= n
  BY DEF Short
<1>1. Len(a[k]) \in Int /\ Len(a[k]) <= m
  BY DEF Short
<1> QED BY <1>1

\* The end of a piece.
TailOf(q, p, n) == q \in Seq(Int) /\ Upward(q) /\ ToSet(q) \subseteq ToSet(p) /\ Len(q) \in Nat /\ Len(q) <= n
LEMMA TailWell == ASSUME NEW p \in Seq(Int), Upward(p), NEW n \in Nat PROVE TailOf(Tail_(p, n), p, n)
<1> DEFINE L == Len(p)
           m == Min({n, L})
           lo == L - m + 1
           q == SubSeq(p, lo, L)
<1>1. L \in Nat /\ DOMAIN p = 1..L
  OBVIOUS
<1>2. m = IF n <= L THEN n ELSE L
  <2> HIDE DEF L
  <2> QED BY <1>1, LesserOf
<1>3. Tail_(p, n) = q
  BY DEF Tail_
<1> HIDE DEF m
<1>4. m \in Nat /\ m <= n /\ m <= L /\ lo \in Int /\ 1 <= lo /\ L - lo + 1 = m
  <2> HIDE DEF L
  <2> QED BY <1>1, <1>2
<1>5. Stretch(q, p, lo, L)
  <2> HIDE DEF lo
  <2>1. L \in Int /\ L <= Len(p)
    BY <1>1
  <2> QED BY <1>4, <2>1, StretchWell
<1> HIDE DEF q, lo
<1>6. q \in Seq(Int) /\ Upward(q) /\ ToSet(q) = {p[x] : x \in lo..L} /\ Len(q) \in Nat
      /\ Len(q) = IF lo <= L THEN L - lo + 1 ELSE 0
  BY <1>5 DEF Stretch
<1> HIDE DEF L
<1>7. Len(q) <= n
  BY <1>1, <1>4, <1>6
<1>8. ToSet(q) \subseteq ToSet(p)
  <2>1. \A x \in lo..L : x \in DOMAIN p
    BY <1>1, <1>4
  <2> QED BY <1>6, <2>1 DEF ToSet
<1> QED BY <1>3, <1>6, <1>7, <1>8 DEF TailOf

\* What is collected of the places S of a text.
Accs == [out : Seq(Seq(Int)), buf : Seq(Int)]
AccWell(t, S, acc, size, ov) ==
    acc \in Accs /\ Cutting(t, S, Append(acc.out, acc.buf), ov) /\ Short(Append(acc.out, acc.buf), size + ov)

FlushedRight(t, S, acc, size, ov) ==
    Flushed(t, acc) \in Seq(Seq(Int)) /\ Cutting(t, S, Flushed(t, acc), ov) /\ Short(Flushed(t, acc), size + ov)

LEMMA FlushedWell ==
    ASSUME NEW t, NEW S, NEW acc, NEW size \in Nat, NEW ov \in Nat, AccWell(t, S, acc, size, ov)
    PROVE  FlushedRight(t, S, acc, size, ov)
<1> DEFINE out == acc.out
           buf == acc.buf
           m == size + ov
<1>1. out \in Seq(Seq(Int)) /\ buf \in Seq(Int) /\ m \in Int /\ ov \in Int
      /\ Cutting(t, S, Append(out, buf), ov) /\ Short(Append(out, buf), m)
  BY DEF AccWell, Accs
<1>2. Flushed(t, acc) = out \o Inked(t, <<buf>>)
  BY DEF Flushed
<1> HIDE DEF out, buf
<1>3. Cutting(t, S, out \o Inked(t, <<buf>>), ov) /\ Short(out \o Inked(t, <<buf>>), m)
  <2> HIDE DEF m
  <2> QED BY <1>1, CutFlush
<1>4. out \o Inked(t, <<buf>>) \in Seq(Seq(Int))
  BY <1>3 DEF Cutting, Inside
<1> QED BY <1>2, <1>3, <1>4 DEF FlushedRight

\* Nothing, once more.
LEMMA CutNothing ==
    ASSUME NEW t, NEW S, NEW a, NEW ov \in Nat, Cutting(t, S, a, ov), NEW m \in Nat, Short(a, m)
    PROVE  Cutting(t, S, Append(a, <<>>), ov) /\ Short(Append(a, <<>>), m)
<1> DEFINE x == <<>>
<1>1. x \in Seq(Int) /\ Len(x) = 0 /\ DOMAIN x = {} /\ ov \in Int
  OBVIOUS
<1> HIDE DEF x
<1>2. Upward(x) /\ ToSet(x) = {}
  BY <1>1 DEF Upward, ToSet
<1>3. a \in Seq(Seq(Int)) /\ Len(x) <= ov /\ ToSet(x) \subseteq S /\ Len(x) <= m
  BY <1>1, <1>2 DEF Cutting, Inside
<1>4. Cutting(t, S, Append(a, x), ov)
  BY <1>1, <1>2, <1>3, CutAgain
<1>5. Short(Append(a, x), m)
  <2>1. m \in Int /\ Short(a, m)
    OBVIOUS
  <2>2. Short(Append(a, x), m) <=> Short(a, m) /\ Len(x) <= m
    BY <1>1, <1>3, <2>1, ShortAppend
  <2> QED BY <1>3, <2>1, <2>2
<1> QED BY <1>4, <1>5 DEF x

LEMMA AddWell ==
    ASSUME NEW t, NEW S, S \subseteq Int, NEW acc, NEW size \in Nat \ {0}, NEW ov \in Nat, ov < size,
           AccWell(t, S, acc, size, ov),
           NEW u \in Seq(Int), Upward(u), \A i \in S, j \in ToSet(u) : i < j
    PROVE  AccWell(t, S \cup ToSet(u), Add(t, acc, u, size, ov), size, ov)
<1> DEFINE out == acc.out
           buf == acc.buf
           f == Flushed(t, acc)
           U == ToSet(u)
           r == Add(t, acc, u, size, ov)
           m == size + ov
<1>1. /\ acc \in Accs /\ acc = [out |-> out, buf |-> buf] /\ out \in Seq(Seq(Int)) /\ buf \in Seq(Int)
      /\ Cutting(t, S, Append(out, buf), ov) /\ Short(Append(out, buf), m)
  BY DEF AccWell, Accs
<1>2. f \in Seq(Seq(Int)) /\ Cutting(t, S, f, ov) /\ Short(f, m)
  BY FlushedWell DEF FlushedRight
<1>3. /\ Len(u) \in Nat /\ Len(buf) \in Nat /\ size \in Nat /\ size \in Int /\ ov \in Int /\ m \in Nat
      /\ size <= m /\ ov <= m /\ U \subseteq Int
  <2>1. U \subseteq Int
    BY DEF ToSet
  <2> QED BY <1>1, <2>1
<1> HIDE DEF U
<1>4. CASE Len(buf) + Len(u) <= size
  <2> DEFINE q == buf \o u
  <2>1. r = [out |-> out, buf |-> q]
    BY <1>1, <1>4 DEF Add
  <2>2. q \in Seq(Int) /\ Len(q) = Len(buf) + Len(u)
    BY <1>1, ConcatProperties
  <2> HIDE DEF out, buf
  <2>3. Cutting(t, S \cup U, Append(out, q), ov)
    BY <1>1, <1>3, CutExtend DEF U
  <2> HIDE DEF m, q
  <2>4. Short(out, m)
    BY <1>1, <1>3, ShortAppend
  <2>5. Len(q) <= m
    BY <1>3, <1>4, <2>2
  <2>6. Short(Append(out, q), m)
    BY <1>1, <1>3, <2>2, <2>4, <2>5, ShortAppend
  <2>7. r \in Accs /\ r.out = out /\ r.buf = q
    <3> HIDE DEF r
    <3> QED BY <1>1, <2>1, <2>2 DEF Accs
  <2> HIDE DEF r
  <2>8. AccWell(t, S \cup U, r, size, ov)
    BY <2>3, <2>6, <2>7 DEF AccWell, m
  <2> QED BY <2>8 DEF r, U
<1>5. CASE ~(Len(buf) + Len(u) <= size) /\ Len(u) > size
  <2> DEFINE v == Windows(u, size, ov)
             w == Inked(t, v)
             e == <<>>
             a == f \o w
  <2>1. r = [out |-> a, buf |-> e]
    BY <1>5 DEF Add
  <2>2. Cutting(t, U, v, ov) /\ Short(v, size)
    BY WindowsCut DEF U
  <2> HIDE DEF v
  <2>3. Cutting(t, U, w, ov) /\ Short(w, size)
    BY <1>3, <2>2, InkedCut
  <2>4. w \in Seq(Seq(Int))
    BY <2>3 DEF Cutting, Inside
  <2> HIDE DEF w, f, m
  <2>5. Short(w, m)
    BY <1>3, <2>3, <2>4, ShortMore
  <2>6. Cutting(t, S \cup U, a, ov)
    BY <1>2, <1>3, <2>3, CutJoin DEF U
  <2>7. Short(a, m)
    BY <1>2, <2>4, <2>5, ShortJoin
  <2> HIDE DEF a
  <2>8. Cutting(t, S \cup U, Append(a, e), ov) /\ Short(Append(a, e), m)
    BY <1>3, <2>6, <2>7, CutNothing
  <2>9. a \in Seq(Seq(Int)) /\ e \in Seq(Int)
    BY <2>6 DEF Cutting, Inside
  <2>10. r \in Accs /\ r.out = a /\ r.buf = e
    <3> HIDE DEF r, e
    <3> QED BY <2>1, <2>9 DEF Accs
  <2> HIDE DEF r, e
  <2>11. AccWell(t, S \cup U, r, size, ov)
    BY <2>8, <2>10 DEF AccWell, m
  <2> QED BY <2>11 DEF r, U
<1>6. CASE ~(Len(buf) + Len(u) <= size) /\ ~(Len(u) > size)
  <2> DEFINE q == Overlapping(f, u, ov)
  <2>1. r = [out |-> f, buf |-> q]
    BY <1>6 DEF Add
  <2> HIDE DEF f, m
  <2>2. ASSUME NEW x \in Seq(Int), Upward(x), ToSet(x) \subseteq S, Len(x) <= ov, q = x \o u
        PROVE  q \in Seq(Int) /\ Cutting(t, S \cup U, Append(f, q), ov) /\ Short(Append(f, q), m)
    <3>1. Cutting(t, S, Append(f, x), ov)
      BY <1>2, <1>3, <2>2, CutAgain
    <3>2. Cutting(t, S \cup U, Append(f, x \o u), ov)
      BY <1>2, <1>3, <2>2, <3>1, CutExtend DEF U
    <3>3. q \in Seq(Int) /\ Len(q) = Len(x) + Len(u)
      BY <2>2, ConcatProperties
    <3>4. Len(x) \in Nat
      BY <2>2
    <3>5. Len(q) <= m
      BY <1>3, <1>6, <2>2, <3>3, <3>4 DEF m
    <3>6. Short(Append(f, q), m)
      BY <1>2, <1>3, <3>3, <3>5, ShortAppend
    <3> QED BY <2>2, <3>2, <3>3, <3>6
  <2>3. q \in Seq(Int) /\ Cutting(t, S \cup U, Append(f, q), ov) /\ Short(Append(f, q), m)
    <3>1. CASE ov > 0 /\ f # <<>>
      <4> DEFINE last == Last(f)
                 x == Tail_(last, ov)
      <4>1. q = x \o u
        BY <3>1 DEF Overlapping
      <4>2. Len(f) \in DOMAIN f /\ last = f[Len(f)]
        BY <1>2, <3>1, EmptySeq DEF Last
      <4>3. last \in Seq(Int) /\ Upward(last) /\ ToSet(last) \subseteq S
        <5>1. Inside(S, f)
          BY <1>2 DEF Cutting
        <5> QED BY <4>2, <5>1 DEF Inside
      <4> HIDE DEF last
      <4>4. TailOf(x, last, ov)
        BY <4>3, TailWell
      <4> HIDE DEF x, q
      <4>5. x \in Seq(Int) /\ Upward(x) /\ ToSet(x) \subseteq S /\ Len(x) <= ov
        BY <4>3, <4>4 DEF TailOf
      <4> QED BY <2>2, <4>1, <4>5
    <3>2. CASE ~(ov > 0 /\ f # <<>>)
      <4> DEFINE x == <<>>
      <4>1. x \in Seq(Int) /\ Len(x) = 0 /\ DOMAIN x = {} /\ Len(x) <= ov
        OBVIOUS
      <4>2. q = u
        BY <3>2 DEF Overlapping
      <4>3. x \o u = u
        BY ConcatEmptySeq
      <4> HIDE DEF x, q
      <4>4. Upward(x) /\ ToSet(x) = {}
        BY <4>1 DEF Upward, ToSet
      <4>5. ToSet(x) \subseteq S /\ q = x \o u
        BY <4>2, <4>3, <4>4
      <4> QED BY <2>2, <4>1, <4>4, <4>5
    <3> QED BY <3>1, <3>2
  <2> HIDE DEF q
  <2>4. r \in Accs /\ r.out = f /\ r.buf = q
    <3> HIDE DEF r
    <3> QED BY <1>2, <2>1, <2>3 DEF Accs
  <2> HIDE DEF r
  <2>5. AccWell(t, S \cup U, r, size, ov)
    BY <2>3, <2>4 DEF AccWell, m
  <2> QED BY <2>5 DEF r, U
<1> QED BY <1>4, <1>5, <1>6


-----------------------------------------------------------------------------
(* Chunking: the units of a text, one by one *)

UpTo(p, e) == {p[x] : x \in 1..e}

LEMMA UpToMore ==
    ASSUME NEW p \in Seq(Int), Upward(p), NEW d \in 0..Len(p), NEW e \in 0..Len(p), d <= e, NEW u, Stretch(u, p, d + 1, e)
    PROVE  /\ UpTo(p, e) = UpTo(p, d) \cup ToSet(u) /\ UpTo(p, d) \subseteq Int
           /\ \A i \in UpTo(p, d), j \in ToSet(u) : i < j
<1>1. ToSet(u) = {p[x] : x \in (d + 1)..e} /\ Len(p) \in Nat /\ d \in Int /\ e \in Int
  BY DEF Stretch
<1>2. \A x \in 1..e : x \in 1..d \/ x \in (d + 1)..e
  BY <1>1
<1>3. (\A x \in 1..d : x \in 1..e) /\ (\A x \in (d + 1)..e : x \in 1..e)
  BY <1>1
<1>4. UpTo(p, e) = UpTo(p, d) \cup ToSet(u)
  BY <1>1, <1>2, <1>3 DEF UpTo
<1>5. ASSUME NEW x \in 1..d, NEW y \in (d + 1)..e PROVE p[x] < p[y]
  <2>1. x \in 1..Len(p) /\ y \in 1..Len(p) /\ x < y
    BY <1>1
  <2> QED BY <2>1, UpwardPlaces
<1>6. \A x \in 1..d : p[x] \in Int
  <2> TAKE x \in 1..d
  <2>1. x \in DOMAIN p
    BY <1>1
  <2> QED BY <2>1
<1> QED BY <1>1, <1>4, <1>5, <1>6 DEF UpTo

NoAcc == [out |-> <<>>, buf |-> <<>>]
LEMMA NoAccWell == ASSUME NEW t, NEW size \in Nat, NEW ov \in Nat PROVE AccWell(t, {}, NoAcc, size, ov)
<1> DEFINE a == <<>>
           m == size + ov
<1>1. a \in Seq(Seq(Int)) /\ a \in Seq(Int) /\ DOMAIN a = {} /\ m \in Nat
  OBVIOUS
<1>2. NoAcc \in Accs /\ NoAcc.out = a /\ NoAcc.buf = a
  BY <1>1 DEF NoAcc, Accs
<1> HIDE DEF a
<1>3. Cutting(t, {}, a, ov) /\ Short(a, m)
  BY <1>1 DEF Cutting, Inside, Reaches, InTurn, SharesLittle, Short
<1>4. Cutting(t, {}, Append(a, <<>>), ov) /\ Short(Append(a, <<>>), m)
  <2> HIDE DEF m
  <2> QED BY <1>1, <1>3, CutNothing
<1>5. Cutting(t, {}, Append(NoAcc.out, NoAcc.buf), ov) /\ Short(Append(NoAcc.out, NoAcc.buf), size + ov)
  BY <1>2, <1>4 DEF a
<1> QED BY <1>2, <1>5 DEF AccWell

\* The k-th unit of p is the places from d to e.
UnitWell(u, p, d, e) == u \in Seq(Int) /\ Upward(u) /\ d \in 0..Len(p) /\ e \in 0..Len(p) /\ d <= e /\ Stretch(u, p, d + 1, e)

LEMMA FixedCut ==
    ASSUME NEW t, NEW p \in Seq(Int), Upward(p), NEW size \in Nat \ {0}, NEW ov \in Nat, ov < size, NEW separators
    PROVE  /\ Cutting(t, ToSet(p), Fixed(t, p, size, ov, separators), ov)
           /\ Short(Fixed(t, p, size, ov, separators), size + ov)
<1> DEFINE units == Units(t, p, separators)
           n == Len(units)
           split[k \in 0..Len(units)] ==
               IF k = 0 THEN [out |-> <<>>, buf |-> <<>>] ELSE Add(t, split[k - 1], units[k], size, ov)
           step == [q \in (1..n) \X Accs |->
                      IF Add(t, q[2], units[q[1]], size, ov) \in Accs THEN Add(t, q[2], units[q[1]], size, ov) ELSE q[2]]
<1>1. PICK e : InARow(units, p, e)
  <2> DEFINE starts == {i \in 2..Len(p) : t[p[i - 1]] \in separators}
  <2>1. starts \subseteq 1..Len(p)
    OBVIOUS
  <2>2. units = CutAt(p, starts)
    BY DEF Units
  <2> HIDE DEF starts, units
  <2> QED BY <2>1, <2>2, CutAtRow
<1>2. Fixed(t, p, size, ov, separators) = Flushed(t, split[n])
  BY DEF Fixed
<1> HIDE DEF units
<1>3. n \in Nat /\ DOMAIN units = 1..n /\ units \in Seq(Seq(Int)) /\ e \in [0..n -> 0..Len(p)] /\ e[0] = 0 /\ e[n] = Len(p)
  <2>1. units \in Seq(Seq(Int)) /\ e \in [0..n -> 0..Len(p)] /\ e[0] = 0 /\ e[n] = Len(p)
    BY <1>1 DEF InARow
  <2> QED BY <2>1
<1>4. ASSUME NEW k \in 1..n PROVE UnitWell(units[k], p, e[k - 1], e[k])
  <2>1. k - 1 \in 0..n /\ k \in 0..n
    BY <1>3
  <2>2. e[k - 1] <= e[k] /\ Stretch(units[k], p, e[k - 1] + 1, e[k])
    BY <1>1 DEF InARow
  <2>3. units[k] \in Seq(Int) /\ Upward(units[k])
    BY <2>2 DEF Stretch
  <2>4. e[k - 1] \in 0..Len(p) /\ e[k] \in 0..Len(p)
    BY <1>3, <2>1
  <2> QED BY <2>2, <2>3, <2>4 DEF UnitWell
<1>5. NoAcc \in Accs
  BY DEF NoAcc, Accs
<1>6. step \in [(1..n) \X Accs -> Accs]
  OBVIOUS
<1>7. \E g \in [0..n -> Accs] : BuiltBy(g, NoAcc, step, n)
  <2> HIDE DEF step, split, n
  <2> QED BY <1>3, <1>5, <1>6, StepByStep
<1>8. PICK g \in [0..n -> Accs] : g[0] = NoAcc /\ \A i \in 1..n : g[i] = step[<<i, g[i - 1]>>]
  BY <1>7 DEF BuiltBy
<1> HIDE DEF n
<1>9. ASSUME NEW i \in 1..n, Add(t, g[i - 1], units[i], size, ov) \in Accs PROVE g[i] = Add(t, g[i - 1], units[i], size, ov)
  <2>1. i - 1 \in 0..n
    BY <1>3
  <2>2. g[i - 1] \in Accs
    BY <1>8, <2>1
  <2>3. step[<<i, g[i - 1]>>] = Add(t, g[i - 1], units[i], size, ov)
    BY <1>9, <2>2
  <2> QED BY <1>8, <2>3
<1> HIDE DEF step
<1> DEFINE T == {k \in Nat : AccWell(t, UpTo(p, e[k]), g[k], size, ov)
                             /\ (k # 0 => g[k] = Add(t, g[k - 1], units[k], size, ov))}
<1>10. 0 \in T
  <2>1. UpTo(p, e[0]) = {}
    BY <1>3 DEF UpTo
  <2>2. AccWell(t, UpTo(p, e[0]), g[0], size, ov)
    BY <1>8, <2>1, NoAccWell
  <2> QED BY <2>2
<1>11. ASSUME NEW k \in 0..n, k \in T, k + 1 <= n PROVE k + 1 \in T
  <2> DEFINE h == k + 1
             u == units[h]
             S == UpTo(p, e[k])
             a == Add(t, g[k], u, size, ov)
  <2>1. h \in 1..n /\ h - 1 = k /\ h \in Nat /\ h # 0
    BY <1>3, <1>11
  <2> HIDE DEF h
  <2>2. UnitWell(u, p, e[k], e[h])
    BY <1>4, <2>1
  <2>3. AccWell(t, S, g[k], size, ov)
    BY <1>11
  <2> HIDE DEF S, u, T
  <2>4. UpTo(p, e[h]) = S \cup ToSet(u) /\ S \subseteq Int /\ \A i \in S, j \in ToSet(u) : i < j
    BY <2>2, UpToMore DEF UnitWell, S
  <2>5. u \in Seq(Int) /\ Upward(u)
    BY <2>2 DEF UnitWell
  <2>6. AccWell(t, S \cup ToSet(u), a, size, ov)
    BY <2>3, <2>4, <2>5, AddWell
  <2>7. a \in Accs
    BY <2>6 DEF AccWell
  <2>8. g[h] = a
    BY <1>9, <2>1, <2>7 DEF u
  <2>9. AccWell(t, UpTo(p, e[h]), g[h], size, ov) /\ g[h] = Add(t, g[h - 1], units[h], size, ov)
    BY <2>1, <2>4, <2>6, <2>8 DEF u
  <2> QED BY <2>1, <2>9 DEF T, h
<1>12. \A k \in 0..n : k \in T
  <2> HIDE DEF T
  <2> QED BY <1>3, <1>10, <1>11, Along
<1>13. g = [k \in 0..n |-> IF k = 0 THEN NoAcc ELSE Add(t, g[k - 1], units[k], size, ov)]
  <2>1. \A k \in 0..n : g[k] = IF k = 0 THEN NoAcc ELSE Add(t, g[k - 1], units[k], size, ov)
    BY <1>8, <1>12
  <2> HIDE DEF T
  <2> QED BY <1>8, <2>1
<1>14. split = [k \in 0..n |-> IF k = 0 THEN NoAcc ELSE Add(t, split[k - 1], units[k], size, ov)]
  BY <1>13 DEF NoAcc, n
<1> HIDE DEF split
<1> DEFINE Y == {k \in Nat : split[k] = g[k]}
<1>15. 0 \in Y
  <2>1. 0 \in 0..n
    BY <1>3
  <2>2. split[0] = NoAcc
    BY <1>14, <2>1
  <2> QED BY <1>8, <2>2
<1>16. ASSUME NEW k \in 0..n, k \in Y, k + 1 <= n PROVE k + 1 \in Y
  <2> DEFINE h == k + 1
  <2>1. h \in 0..n /\ h # 0 /\ h - 1 = k /\ h \in Nat
    BY <1>3, <1>16
  <2> HIDE DEF h
  <2>2. split[h] = Add(t, split[k], units[h], size, ov)
    BY <1>14, <2>1
  <2>3. g[h] = Add(t, g[k], units[h], size, ov)
    BY <1>13, <2>1
  <2>4. split[h] = g[h]
    BY <1>16, <2>2, <2>3
  <2> QED BY <2>1, <2>4 DEF h
<1>17. \A k \in 0..n : k \in Y
  <2> HIDE DEF Y
  <2> QED BY <1>3, <1>15, <1>16, Along
<1>18. AccWell(t, UpTo(p, e[n]), split[n], size, ov)
  <2>1. n \in 0..n
    BY <1>3
  <2>2. n \in T /\ n \in Y
    BY <1>12, <1>17, <2>1
  <2> QED BY <2>2
<1>19. UpTo(p, e[n]) = ToSet(p)
  <2>1. DOMAIN p = 1..Len(p)
    OBVIOUS
  <2> QED BY <1>3, <2>1 DEF UpTo, ToSet
<1>20. FlushedRight(t, ToSet(p), split[n], size, ov)
  BY <1>18, <1>19, FlushedWell
<1> QED BY <1>2, <1>20 DEF FlushedRight, n


-----------------------------------------------------------------------------
(* Chunking: a text, split *)

LEMMA CutMore ==
    ASSUME NEW t, NEW S, NEW a, NEW ov \in Int, NEW more \in Int, ov <= more, Cutting(t, S, a, ov)
    PROVE  Cutting(t, S, a, more)
<1>1. Inside(S, a) /\ Reaches(t, S, a) /\ InTurn(t, S, a) /\ SharesLittle(a, ov)
  BY DEF Cutting
<1>2. ASSUME NEW k \in DOMAIN a, NEW l \in DOMAIN a, k # l PROVE Cardinality(Shared(a[k], a[l])) <= more
  <2>1. Cardinality(Shared(a[k], a[l])) <= ov
    BY <1>1, <1>2 DEF SharesLittle
  <2>2. IsFiniteSet(ToSet(a[k]))
    BY <1>1, PiecesTyped
  <2>3. IsFiniteSet(Shared(a[k], a[l]))
    BY <2>2, FS_Subset DEF Shared
  <2>4. Cardinality(Shared(a[k], a[l])) \in Nat
    BY <2>3, FS_CardinalityType
  <2> QED BY <2>1, <2>4
<1> QED BY <1>1, <1>2 DEF Cutting, SharesLittle

LEMMA InkedKeeps ==
    ASSUME NEW t, NEW S, NEW a, NEW ov \in Int, Cutting(t, S, a, ov)
    PROVE  Cutting(t, S, Inked(t, a), ov)
<1>1. a \in Seq(Seq(Int)) /\ \A k \in DOMAIN a : Upward(a[k])
  BY DEF Cutting, Inside
<1>2. PICK at : Nested(t, a, Inked(t, a), at, ov)
  BY <1>1, InkedNested
<1> QED BY <1>2, CutNested

\* A piece is cut into one.
LEMMA CutWhole ==
    ASSUME NEW t, NEW p \in Seq(Int), Upward(p), NEW ov \in Nat
    PROVE  Cutting(t, ToSet(p), <<p>>, ov)
<1> DEFINE a == <<p>>
<1>1. a \in Seq(Seq(Int)) /\ DOMAIN a = {1} /\ a[1] = p
  OBVIOUS
<1> HIDE DEF a
<1>2. Inside(ToSet(p), a)
  BY <1>1 DEF Inside
<1>3. Reaches(t, ToSet(p), a)
  BY <1>1 DEF Reaches
<1>4. InTurn(t, ToSet(p), a)
  BY <1>1 DEF InTurn
<1>5. SharesLittle(a, ov)
  BY <1>1 DEF SharesLittle
<1> QED BY <1>2, <1>3, <1>4, <1>5 DEF Cutting, a

LEMMA RefineCut ==
    ASSUME NEW t, NEW p \in Seq(Int), Upward(p), NEW size \in Nat \ {0}, NEW ov \in Nat, ov < size, NEW separators
    PROVE  /\ Cutting(t, ToSet(p), Refine(t, p, size, ov, separators), ov)
           /\ Short(Refine(t, p, size, ov, separators), size + ov)
<1>1. CASE Len(p) <= size
  <2> DEFINE a == <<p>>
             m == size + ov
  <2>1. m \in Int /\ ov \in Int /\ Len(p) <= m /\ DOMAIN a = {1} /\ a[1] = p
    BY <1>1
  <2>2. Cutting(t, ToSet(p), a, ov)
    BY CutWhole
  <2>3. Refine(t, p, size, ov, separators) = Inked(t, a)
    BY <1>1 DEF Refine
  <2> HIDE DEF a, m
  <2>4. Short(a, m)
    BY <2>1 DEF Short
  <2>5. Cutting(t, ToSet(p), Inked(t, a), ov) /\ Short(Inked(t, a), m)
    BY <2>1, <2>2, <2>4, InkedCut
  <2> QED BY <2>3, <2>5 DEF m
<1>2. CASE ~(Len(p) <= size)
  <2>1. Refine(t, p, size, ov, separators) = Fixed(t, p, size, ov, separators)
    BY <1>2 DEF Refine
  <2> QED BY <2>1, FixedCut
<1> QED BY <1>1, <1>2

\* Each piece cut again, and all of that in a row.
LEMMA FlattenNested ==
    ASSUME NEW t, NEW a, NEW ss \in Seq(Seq(Seq(Int))), DOMAIN ss = DOMAIN a, NEW ov, NEW m,
           \A k \in DOMAIN a : Cutting(t, ToSet(a[k]), ss[k], ov) /\ Short(ss[k], m)
    PROVE  (\E at : Nested(t, a, FlattenSeq(ss), at, ov)) /\ Short(FlattenSeq(ss), m)
<1> DEFINE b == FlattenSeq(ss)
           n == Len(b)
           h == Len(ss)
<1>1. b \in Seq(Seq(Int)) /\ \E row, col : FlatPlaces(ss, h, b, row, col)
  BY FlattenedWell
<1>2. PICK row, col : FlatPlaces(ss, h, b, row, col)
  BY <1>1
<1> HIDE DEF b
<1>3. n \in Nat /\ DOMAIN b = 1..n /\ h \in Nat /\ DOMAIN ss = 1..h /\ DOMAIN a = 1..h
  BY <1>1
<1> HIDE DEF n, h
<1>4. /\ row \in [1..n -> Nat] /\ col \in [1..n -> Nat]
      /\ \A k \in 1..n : row[k] \in 1..h /\ col[k] \in DOMAIN ss[row[k]] /\ b[k] = ss[row[k]][col[k]]
      /\ \A k, l \in 1..n : k < l => row[k] < row[l] \/ (row[k] = row[l] /\ col[k] < col[l])
      /\ \A i \in 1..h : \A j \in DOMAIN ss[i] : \E k \in 1..n : row[k] = i /\ col[k] = j
  BY <1>2 DEF FlatPlaces, n
<1>5. \A k \in 1..h : /\ Inside(ToSet(a[k]), ss[k]) /\ Reaches(t, ToSet(a[k]), ss[k])
                      /\ InTurn(t, ToSet(a[k]), ss[k]) /\ SharesLittle(ss[k], ov)
  BY <1>3 DEF Cutting
<1>6. ASSUME NEW k \in 1..n, NEW l \in 1..n PROVE row[k] \in Nat /\ col[k] \in Nat /\ row[l] \in Nat /\ col[l] \in Nat
  BY <1>4
<1>7. ASSUME NEW k \in 1..n, NEW l \in 1..n, row[k] < row[l] PROVE k < l
  <2>1. l < k => row[l] < row[k] \/ row[l] = row[k]
    BY <1>4
  <2>2. ~(l < k) /\ k # l
    BY <1>6, <1>7, <2>1
  <2> QED BY <1>3, <2>2
<1>8. ASSUME NEW k \in 1..n, NEW l \in 1..n, row[k] = row[l], col[l] <= col[k] PROVE l <= k
  <2>1. k < l => row[k] < row[l] \/ col[k] < col[l]
    BY <1>4
  <2>2. ~(k < l)
    BY <1>6, <1>8, <2>1
  <2> QED BY <1>3, <2>2
<1>9. ASSUME NEW k \in 1..n, NEW l \in 1..n, row[k] = row[l], k # l PROVE col[k] # col[l]
  <2>1. k < l \/ l < k
    BY <1>3, <1>9
  <2>2. (row[k] < row[l] \/ col[k] < col[l]) \/ (row[l] < row[k] \/ col[l] < col[k])
    BY <1>4, <2>1
  <2> QED BY <1>6, <1>9, <2>2
<1>10. ASSUME NEW k \in 1..n PROVE Upward(b[k]) /\ ToSet(b[k]) \subseteq ToSet(a[row[k]]) /\ Len(b[k]) <= m
  <2>1. row[k] \in 1..h /\ col[k] \in DOMAIN ss[row[k]] /\ b[k] = ss[row[k]][col[k]]
    BY <1>4
  <2>2. Inside(ToSet(a[row[k]]), ss[row[k]])
    BY <1>5, <2>1
  <2>3. Short(ss[row[k]], m)
    BY <1>3, <2>1
  <2>4. Upward(b[k]) /\ ToSet(b[k]) \subseteq ToSet(a[row[k]])
    BY <2>1, <2>2 DEF Inside
  <2> QED BY <2>1, <2>3, <2>4 DEF Short
<1>11. ASSUME NEW i \in 1..h, NEW x \in ToSet(a[i]), ~Blank(t, x) PROVE \E k \in 1..n : row[k] = i /\ x \in ToSet(b[k])
  <2>1. PICK j \in DOMAIN ss[i] : x \in ToSet(ss[i][j])
    BY <1>5, <1>11 DEF Reaches
  <2>2. PICK k \in 1..n : row[k] = i /\ col[k] = j
    BY <1>4, <2>1
  <2> QED BY <1>4, <2>1, <2>2
<1>12. ASSUME NEW k \in 1..n, NEW i \in ToSet(b[k]), NEW j \in ToSet(a[row[k]]), j < i, ~Blank(t, j)
       PROVE  \E l \in 1..n : l <= k /\ j \in ToSet(b[l])
  <2> DEFINE s == ss[row[k]]
  <2>1. row[k] \in 1..h /\ col[k] \in DOMAIN s /\ b[k] = s[col[k]]
    BY <1>4
  <2>2. InTurn(t, ToSet(a[row[k]]), s)
    BY <1>5, <2>1
  <2> HIDE DEF s
  <2>3. PICK g \in DOMAIN s : g <= col[k] /\ j \in ToSet(s[g])
    BY <1>12, <2>1, <2>2 DEF InTurn
  <2>4. PICK l \in 1..n : row[l] = row[k] /\ col[l] = g
    BY <1>4, <2>1, <2>3 DEF s
  <2>5. b[l] = s[g]
    BY <1>4, <2>4 DEF s
  <2>6. l <= k
    BY <1>8, <2>3, <2>4
  <2> QED BY <2>3, <2>5, <2>6
<1>13. ASSUME NEW k \in 1..n, NEW l \in 1..n, k # l, row[k] = row[l] PROVE Cardinality(Shared(b[k], b[l])) <= ov
  <2>1. row[k] \in 1..h /\ col[k] \in DOMAIN ss[row[k]] /\ col[l] \in DOMAIN ss[row[k]]
        /\ b[k] = ss[row[k]][col[k]] /\ b[l] = ss[row[k]][col[l]]
    BY <1>4, <1>13
  <2>2. SharesLittle(ss[row[k]], ov)
    BY <1>5, <2>1
  <2>3. col[k] # col[l]
    BY <1>9, <1>13
  <2> QED BY <2>1, <2>2, <2>3 DEF SharesLittle
<1>14. row \in [DOMAIN b -> DOMAIN a]
  BY <1>3, <1>4
<1>15. Nested(t, a, b, row, ov)
  <2>1. \A k, l \in DOMAIN b : row[k] < row[l] => k < l
    BY <1>3, <1>7
  <2>2. \A k \in DOMAIN b : Upward(b[k]) /\ ToSet(b[k]) \subseteq ToSet(a[row[k]])
    BY <1>3, <1>10
  <2>3. \A i \in DOMAIN a : \A x \in ToSet(a[i]) : Blank(t, x) \/ \E k \in DOMAIN b : row[k] = i /\ x \in ToSet(b[k])
    BY <1>3, <1>11
  <2>4. \A k \in DOMAIN b : \A i \in ToSet(b[k]), j \in ToSet(a[row[k]]) :
          j < i => Blank(t, j) \/ \E l \in DOMAIN b : l <= k /\ j \in ToSet(b[l])
    BY <1>3, <1>12
  <2>5. \A k, l \in DOMAIN b : k # l /\ row[k] = row[l] => Cardinality(Shared(b[k], b[l])) <= ov
    BY <1>3, <1>13
  <2> QED BY <1>1, <1>14, <2>1, <2>2, <2>3, <2>4, <2>5 DEF Nested
<1>16. Short(b, m)
  BY <1>3, <1>10 DEF Short
<1> QED BY <1>15, <1>16 DEF b

\* Characters and texts.
Chars == {"x", " ", "newline", "#"}

LEMMA PositionsWell ==
    ASSUME NEW t \in Seq(Chars)
    PROVE  Positions(t) \in Seq(Int) /\ Upward(Positions(t)) /\ ToSet(Positions(t)) = DOMAIN t
           /\ Len(Positions(t)) = Len(t)
<1> DEFINE p == Positions(t)
           n == Len(t)
<1>1. n \in Nat /\ DOMAIN t = 1..n
  OBVIOUS
<1>2. p = [i \in 1..n |-> i]
  BY <1>1 DEF Positions
<1> HIDE DEF p, n
<1>3. p \in [1..n -> Int] /\ DOMAIN p = 1..n /\ \A i \in 1..n : p[i] = i
  BY <1>1, <1>2
<1>4. p \in Seq(Int) /\ Len(p) = n
  BY <1>1, <1>3
<1>5. Upward(p)
  BY <1>3 DEF Upward
<1>6. ToSet(p) = DOMAIN t
  BY <1>1, <1>3 DEF ToSet
<1> QED BY <1>4, <1>5, <1>6 DEF p, n

LEMMA SplitCut ==
    ASSUME NEW t \in Seq(Chars), NEW mode, NEW size \in Nat \ {0}, NEW ov \in Nat, ov < size, NEW separators
    PROVE  /\ Cutting(t, DOMAIN t, Split(t, mode, size, ov, separators), ov)
           /\ Short(Split(t, mode, size, ov, separators), size + ov)
<1> DEFINE all == Positions(t)
           parts == CASE mode = "heading" -> Inked(t, HeadingParts(t))
                      [] mode = "paragraph" -> Inked(t, ParagraphParts(t))
                      [] mode = "sliding" -> Windows(all, size, ov)
                      [] OTHER -> Fixed(t, all, size, ov, separators)
           ss == [k \in DOMAIN parts |-> Refine(t, parts[k], size, ov, separators)]
<1>1. all \in Seq(Int) /\ Upward(all) /\ ToSet(all) = DOMAIN t /\ Len(all) = Len(t)
  BY PositionsWell
<1>2. Split(t, mode, size, ov, separators) = FlattenSeq(ss)
  BY DEF Split
<1>3. ASSUME NEW starts, starts \subseteq DOMAIN t PROVE Cutting(t, DOMAIN t, Inked(t, CutAt(all, starts)), ov)
  <2>1. starts \subseteq 1..Len(all)
    BY <1>1, <1>3
  <2> HIDE DEF all
  <2>2. Cutting(t, DOMAIN t, CutAt(all, starts), 0)
    BY <1>1, <2>1, CutAtCut
  <2>3. Cutting(t, DOMAIN t, CutAt(all, starts), ov)
    BY <2>2, CutMore
  <2> QED BY <2>3, InkedKeeps
<1>4. Cutting(t, DOMAIN t, Inked(t, HeadingParts(t)), ov)
  <2> DEFINE starts == {i \in DOMAIN t : t[i] = "#" /\ (i = 1 \/ t[i - 1] = "newline")}
  <2>1. HeadingParts(t) = CutAt(all, starts) /\ starts \subseteq DOMAIN t
    BY DEF HeadingParts
  <2> HIDE DEF starts, all
  <2> QED BY <1>3, <2>1
<1>5. Cutting(t, DOMAIN t, Inked(t, ParagraphParts(t)), ov)
  <2> DEFINE starts == {i \in 2..Len(t) : ~Blank(t, i) /\
                          \E j \in 1..i : /\ \A k \in j..(i - 1) : Blank(t, k)
                                          /\ Cardinality({k \in j..(i - 1) : t[k] = "newline"}) >= 2}
  <2>1. ParagraphParts(t) = CutAt(all, starts)
    BY DEF ParagraphParts
  <2>2. starts \subseteq DOMAIN t
    OBVIOUS
  <2> HIDE DEF starts, all
  <2> QED BY <1>3, <2>1, <2>2
<1> HIDE DEF all
<1>6. Cutting(t, DOMAIN t, Windows(all, size, ov), ov)
  BY <1>1, WindowsCut
<1>7. Cutting(t, DOMAIN t, Fixed(t, all, size, ov, separators), ov)
  BY <1>1, FixedCut
<1>8. Cutting(t, DOMAIN t, parts, ov)
  BY <1>4, <1>5, <1>6, <1>7
<1> HIDE DEF parts
<1>9. parts \in Seq(Seq(Int)) /\ \A k \in DOMAIN parts : parts[k] \in Seq(Int) /\ Upward(parts[k])
  BY <1>8 DEF Cutting, Inside
<1>10. ASSUME NEW k \in DOMAIN parts
       PROVE  Cutting(t, ToSet(parts[k]), ss[k], ov) /\ Short(ss[k], size + ov) /\ ss[k] \in Seq(Seq(Int))
  <2>1. Cutting(t, ToSet(parts[k]), ss[k], ov) /\ Short(ss[k], size + ov)
    BY <1>9, RefineCut
  <2> QED BY <2>1 DEF Cutting, Inside
<1>11. DOMAIN ss = DOMAIN parts
  OBVIOUS
<1>12. ss \in Seq(Seq(Seq(Int)))
  <2> DEFINE n == Len(parts)
  <2>1. n \in Nat /\ DOMAIN parts = 1..n
    BY <1>9
  <2> HIDE DEF n
  <2>2. \A k \in 1..n : ss[k] \in Seq(Seq(Int))
    BY <1>10, <2>1
  <2>3. ss = [k \in 1..n |-> ss[k]]
    BY <2>1
  <2> HIDE DEF ss
  <2>4. ss \in [1..n -> Seq(Seq(Int))]
    BY <2>2, <2>3
  <2> QED BY <2>1, <2>4
<1> HIDE DEF ss
<1>13. (\E at : Nested(t, parts, FlattenSeq(ss), at, ov)) /\ Short(FlattenSeq(ss), size + ov)
  BY <1>10, <1>11, <1>12, FlattenNested
<1>14. Cutting(t, DOMAIN t, FlattenSeq(ss), ov)
  BY <1>8, <1>13, CutNested
<1> QED BY <1>2, <1>13, <1>14


-----------------------------------------------------------------------------
(* Chunking: text *)

\* Pieces that reach all that can be seen have all characters in them.
Holders(t, held, ch) == {i \in DOMAIN held : t[held[i]] = ch}
Sources(t, ch) == {i \in DOMAIN t : t[i] = ch}

LEMMA HoldersMany ==
    ASSUME NEW t \in Seq(Chars), NEW a, Inside(DOMAIN t, a), Reaches(t, DOMAIN t, a), NEW ch \in {"x", "#"}
    PROVE  /\ Cardinality(Sources(t, ch)) \in Nat /\ Cardinality(Holders(t, FlattenSeq(a), ch)) \in Nat
           /\ Cardinality(Sources(t, ch)) <= Cardinality(Holders(t, FlattenSeq(a), ch))
<1> DEFINE held == FlattenSeq(a)
           H == Holders(t, held, ch)
           S == Sources(t, ch)
           n == Len(held)
           h == Len(a)
           f == [i \in H |-> held[i]]
<1>1. a \in Seq(Seq(Int))
  BY DEF Inside
<1>2. held \in Seq(Int) /\ \E row, col : FlatPlaces(a, h, held, row, col)
  BY <1>1, FlattenedWell
<1>3. PICK row, col : FlatPlaces(a, h, held, row, col)
  BY <1>2
<1> HIDE DEF held
<1>4. n \in Nat /\ DOMAIN held = 1..n /\ h \in Nat /\ DOMAIN a = 1..h
  BY <1>1, <1>2
<1> HIDE DEF n, h
<1>5. /\ \A k \in 1..n : row[k] \in 1..h /\ col[k] \in DOMAIN a[row[k]] /\ held[k] = a[row[k]][col[k]]
      /\ \A i \in 1..h : \A j \in DOMAIN a[i] : \E k \in 1..n : row[k] = i /\ col[k] = j
  BY <1>3 DEF FlatPlaces, n
<1>6. IsFiniteSet(H) /\ Cardinality(H) \in Nat
  <2>1. IsFiniteSet(1..n)
    BY <1>4, FS_Interval
  <2>2. H \subseteq 1..n
    BY <1>4 DEF Holders
  <2> QED BY <2>1, <2>2, FS_Subset, FS_CardinalityType
<1>7. \A i \in H : held[i] \in S
  <2> TAKE i \in H
  <2>1. i \in 1..n /\ t[held[i]] = ch
    BY <1>4 DEF Holders
  <2>2. held[i] = a[row[i]][col[i]] /\ row[i] \in DOMAIN a /\ col[i] \in DOMAIN a[row[i]]
    BY <1>4, <1>5, <2>1
  <2>3. ToSet(a[row[i]]) \subseteq DOMAIN t
    BY <2>2 DEF Inside
  <2>4. held[i] \in ToSet(a[row[i]])
    BY <2>2 DEF ToSet
  <2> QED BY <2>1, <2>3, <2>4 DEF Sources
<1>8. \A x \in S : \E i \in H : held[i] = x
  <2> TAKE x \in S
  <2>1. x \in DOMAIN t /\ t[x] = ch /\ ~Blank(t, x)
    BY DEF Sources, Blank
  <2>2. PICK i \in DOMAIN a : x \in ToSet(a[i])
    BY <2>1 DEF Reaches
  <2>3. PICK j \in DOMAIN a[i] : x = a[i][j]
    BY <2>2 DEF ToSet
  <2>4. PICK k \in 1..n : row[k] = i /\ col[k] = j
    BY <1>4, <1>5, <2>2
  <2>5. held[k] = x
    BY <1>5, <2>3, <2>4
  <2>6. k \in H
    BY <1>4, <2>1, <2>4, <2>5 DEF Holders
  <2> QED BY <2>5, <2>6
<1> HIDE DEF H, S
<1>9. f \in Surjection(H, S)
  <2>1. f \in [H -> S] /\ \A x \in S : \E i \in H : f[i] = x
    BY <1>7, <1>8
  <2> QED BY <2>1 DEF Surjection
<1>10. IsFiniteSet(S) /\ Cardinality(S) <= Cardinality(H)
  BY <1>6, <1>9, FS_Surjection
<1>11. Cardinality(S) \in Nat
  BY <1>10, FS_CardinalityType
<1> QED BY <1>6, <1>10, <1>11 DEF H, S, held

LEMMA ReachesCovers ==
    ASSUME NEW t \in Seq(Chars), NEW a, Inside(DOMAIN t, a), Reaches(t, DOMAIN t, a)
    PROVE  Covered(t, a)
<1> DEFINE S(ch) == Cardinality(Sources(t, ch))
           H(ch) == Cardinality(Holders(t, FlattenSeq(a), ch))
<1>1. ASSUME NEW ch \in {"x", "#"} PROVE S(ch) \in Nat /\ Min({S(ch), H(ch)}) = S(ch)
  <2>1. S(ch) \in Nat /\ H(ch) \in Nat /\ S(ch) <= H(ch)
    BY HoldersMany
  <2> HIDE DEF S, H
  <2>2. S(ch) \in Int /\ H(ch) \in Int
    BY <2>1
  <2>3. Min({S(ch), H(ch)}) = IF S(ch) <= H(ch) THEN S(ch) ELSE H(ch)
    BY <2>2, LesserOf
  <2> QED BY <2>1, <2>3
<1>2. Covered(t, a) <=>
        100 * (Min({S("x"), H("x")}) + Min({S("#"), H("#")})) >= 95 * (S("x") + S("#"))
  BY DEF Covered, Sources, Holders
<1> HIDE DEF S, H
<1>3. S("x") \in Nat /\ S("#") \in Nat /\ Min({S("x"), H("x")}) = S("x") /\ Min({S("#"), H("#")}) = S("#")
  BY <1>1
<1> DEFINE s == S("x") + S("#")
<1>4. s \in Nat /\ (Covered(t, a) <=> 100 * s >= 95 * s)
  BY <1>2, <1>3
<1> HIDE DEF s
<1> QED BY <1>4

\* The size and the overlap a text is cut with.
LEMMA ClampWell ==
    ASSUME NEW s \in Nat \ {0}, NEW o \in Nat
    PROVE  Clamp(s, o)[1] = s /\ Clamp(s, o)[2] = (IF o >= s THEN s - 1 ELSE o)
           /\ Clamp(s, o)[2] \in Nat /\ Clamp(s, o)[2] < s
BY DEF Clamp

TextWell(t, r, cs) ==
    /\ Cutting(t, DOMAIN t, cs, EffectiveOverlap(r)) /\ Short(cs, r.size + EffectiveOverlap(r))
RuleWell(r) ==
    /\ r.size \in Nat \ {0} /\ EffectiveOverlap(r) \in Nat
    /\ EffectiveOverlap(r) = Min({r.size - 1, IF r.overlap = 0 THEN DefaultOverlap ELSE r.overlap})

LEMMA RulesWell == ASSUME NEW r \in Rules PROVE RuleWell(r) /\ EffectiveOverlap(r) < r.size /\ Clamp(r.size, r.overlap)[1] = r.size
<1> DEFINE s == r.size
           o == IF r.overlap = 0 THEN DefaultOverlap ELSE r.overlap
<1>1. s \in Nat \ {0} /\ o \in Nat /\ r.overlap \in Nat
  BY ChunkingAssumption DEF Rules
<1>2. EffectiveOverlap(r) = Clamp(s, o)[2]
  BY DEF EffectiveOverlap
<1>3. Clamp(r.size, r.overlap)[1] = r.size
  BY <1>1, ClampWell
<1> HIDE DEF s, o
<1>4. Clamp(s, o)[2] = (IF o >= s THEN s - 1 ELSE o) /\ Clamp(s, o)[2] \in Nat /\ Clamp(s, o)[2] < s
  BY <1>1, ClampWell
<1>5. Min({s - 1, o}) = IF s - 1 <= o THEN s - 1 ELSE o
  <2>1. s - 1 \in Int /\ o \in Int
    BY <1>1
  <2> QED BY <2>1, LesserOf
<1>6. Clamp(s, o)[2] = Min({s - 1, o})
  BY <1>1, <1>4, <1>5
<1> QED BY <1>1, <1>2, <1>3, <1>4, <1>6 DEF RuleWell, s, o

LEMMA ByRulesWell ==
    ASSUME NEW t \in Seq(Chars), NEW r \in Rules
    PROVE  TextWell(t, r, SplitByRules(t, r)) /\ Covered(t, SplitByRules(t, r))
<1> DEFINE ov == EffectiveOverlap(r)
           size == r.size
           cs == SplitByRules(t, r)
<1>1. size \in Nat \ {0} /\ ov \in Nat /\ ov < size /\ Clamp(r.size, r.overlap)[1] = size
  BY RulesWell DEF RuleWell
<1>2. cs = Split(t, r.mode, size, ov, r.separators)
  BY <1>1 DEF SplitByRules
<1> HIDE DEF cs, size, ov
<1>3. Cutting(t, DOMAIN t, cs, ov) /\ Short(cs, size + ov)
  BY <1>1, <1>2, SplitCut
<1>4. Covered(t, cs)
  BY <1>3, ReachesCovers DEF Cutting
<1> QED BY <1>3, <1>4 DEF TextWell, cs, size, ov

\* What is cut, and what comes of it.
TextIn == \E t \in Texts, r \in Rules : input = [kind |-> "text", text |-> t, rules |-> r]
MarkdownIn == \E p \in Pages, n \in PageSizes : input = [kind |-> "markdown", page |-> p, size |-> n]
TableIn == \E n \in 2..6, size \in TableSizes : input = [kind |-> "table", rows |-> n, size |-> size]
LayoutIn == \E blocks \in Layouts, r \in Rules, size \in TableSizes :
               input = [kind |-> "layout", blocks |-> blocks, rules |-> r, size |-> size]
TextOut == chunks = SplitText(input.text, input.rules)
MarkdownOut == chunks = SplitMarkdown(input.page, input.size)
TableOut == chunks = TablePieces(input.rows, input.size)
LayoutOut == chunks = SplitLayout(input.blocks, input.rules, input.size)

ChunkInv ==
    \/ TextIn /\ (is_cut => TextOut)
    \/ MarkdownIn /\ (is_cut => MarkdownOut)
    \/ TableIn /\ (is_cut => TableOut)
    \/ LayoutIn /\ (is_cut => LayoutOut)

LEMMA ChunkStarts == ChunkInit => ChunkInv
BY DEF ChunkInit, ChunkInv, TextIn, MarkdownIn, TableIn, LayoutIn

LEMMA KindIs ==
    /\ TextIn => input.kind = "text"
    /\ MarkdownIn => input.kind = "markdown"
    /\ TableIn => input.kind = "table"
    /\ LayoutIn => input.kind = "layout"
BY DEF TextIn, MarkdownIn, TableIn, LayoutIn

LEMMA ChunkGoesOn == ChunkInv /\ [ChunkNext]_chunk_vars => ChunkInv'
<1> SUFFICES ASSUME ChunkInv, [ChunkNext]_chunk_vars PROVE ChunkInv'
  OBVIOUS
<1>1. input' = input
  BY DEF ChunkNext, chunk_vars
<1>2. TextIn' = TextIn /\ MarkdownIn' = MarkdownIn /\ TableIn' = TableIn /\ LayoutIn' = LayoutIn
  BY <1>1 DEF TextIn, MarkdownIn, TableIn, LayoutIn
<1>3. CASE UNCHANGED chunk_vars
  <2>1. is_cut' = is_cut /\ chunks' = chunks
    BY <1>3 DEF chunk_vars
  <2> QED BY <1>1, <1>2, <2>1 DEF ChunkInv, TextOut, MarkdownOut, TableOut, LayoutOut
<1>4. CASE ChunkNext
  <2>1. CutText => input.kind = "text" /\ TextOut'
    BY <1>1 DEF CutText, TextOut
  <2>2. CutMarkdown => input.kind = "markdown" /\ MarkdownOut'
    BY <1>1 DEF CutMarkdown, MarkdownOut
  <2>3. CutTable => input.kind = "table" /\ TableOut'
    BY <1>1 DEF CutTable, TableOut
  <2>4. CutLayout => input.kind = "layout" /\ LayoutOut'
    BY <1>1 DEF CutLayout, LayoutOut
  <2>5. CutText \/ CutMarkdown \/ CutTable \/ CutLayout
    BY <1>4 DEF ChunkNext
  <2>6. TextIn \/ MarkdownIn \/ TableIn \/ LayoutIn
    BY DEF ChunkInv
  <2> QED BY <1>2, <2>1, <2>2, <2>3, <2>4, <2>5, <2>6, KindIs DEF ChunkInv
<1> QED BY <1>3, <1>4

LEMMA TextIsKept == ChunkInv => TextKept
<1> SUFFICES ASSUME ChunkInv, Cut("text") PROVE TextKept
  BY DEF TextKept, NothingLost, ChunkBounds
<1>1. TextIn /\ is_cut /\ TextOut
  BY KindIs DEF ChunkInv, Cut
<1>2. PICK t \in Texts, r \in Rules : input.text = t /\ input.rules = r
  BY <1>1 DEF TextIn
<1>3. t \in Seq(Chars)
  BY ChunkingAssumption DEF Chars
<1> DEFINE ov == EffectiveOverlap(r)
           size == r.size
           cs == SplitByRules(t, r)
<1>4. TextWell(t, r, cs) /\ Covered(t, cs)
  BY <1>3, ByRulesWell
<1>5. chunks = IF IsBlank(t, Positions(t)) THEN <<>> ELSE cs
  BY <1>1, <1>2, <1>4 DEF TextOut, SplitText
<1>6. size \in Nat \ {0} /\ ov \in Nat /\ ov = Min({size - 1, IF r.overlap = 0 THEN DefaultOverlap ELSE r.overlap})
  BY RulesWell DEF RuleWell
<1> HIDE DEF cs
<1>7. DOMAIN t = 1..Len(t) /\ Len(t) \in Nat
  BY <1>3
<1>8. Cutting(t, DOMAIN t, chunks, ov) /\ Short(chunks, size + ov)
  <2>1. CASE ~IsBlank(t, Positions(t))
    BY <1>4, <1>5, <2>1 DEF TextWell
  <2>2. CASE IsBlank(t, Positions(t))
    <3>1. chunks \in Seq(Seq(Int)) /\ DOMAIN chunks = {}
      BY <1>5, <2>2
    <3>2. \A i \in DOMAIN t : Blank(t, i)
      <4> TAKE i \in DOMAIN t
      <4>1. i \in DOMAIN Positions(t) /\ Positions(t)[i] = i
        BY DEF Positions
      <4> QED BY <2>2, <4>1 DEF IsBlank
    <3> QED BY <3>1, <3>2 DEF Cutting, Inside, Reaches, InTurn, SharesLittle, Short
  <2> QED BY <2>1, <2>2
<1>9. Inside(DOMAIN t, chunks) /\ Reaches(t, DOMAIN t, chunks) /\ InTurn(t, DOMAIN t, chunks) /\ SharesLittle(chunks, ov)
  BY <1>8 DEF Cutting
<1>10. NothingLost
  <2>1. {i \in DOMAIN t : ~Blank(t, i)} \subseteq UNION {ToSet(chunks[k]) : k \in DOMAIN chunks}
    BY <1>9 DEF Reaches
  <2>2. \A k \in DOMAIN chunks : Increasing(chunks[k])
    <3> TAKE k \in DOMAIN chunks
    <3>1. Upward(chunks[k]) /\ chunks[k] \in Seq(Int)
      BY <1>9 DEF Inside
    <3>2. \A i \in 2..Len(chunks[k]) : i - 1 \in DOMAIN chunks[k] /\ i \in DOMAIN chunks[k] /\ i - 1 < i
      BY <3>1
    <3> QED BY <3>1, <3>2 DEF Increasing, Upward
  <2>3. ASSUME NEW k \in DOMAIN chunks, NEW i \in ToSet(chunks[k]), NEW j \in 1..(i - 1)
        PROVE  Blank(t, j) \/ \E l \in 1..k : j \in ToSet(chunks[l])
    <3>1. i \in DOMAIN t
      BY <1>9 DEF Inside
    <3>2. j \in DOMAIN t /\ j < i
      BY <1>7, <3>1
    <3>3. Blank(t, j) \/ \E l \in DOMAIN chunks : l <= k /\ j \in ToSet(chunks[l])
      BY <1>9, <3>2 DEF InTurn
    <3>4. \A l \in DOMAIN chunks : l <= k => l \in 1..k
      <4>1. chunks \in Seq(Seq(Int))
        BY <1>9 DEF Inside
      <4> QED BY <4>1
    <3> QED BY <3>3, <3>4
  <2>4. IsBlank(t, Positions(t)) \/ Covered(t, SplitByRules(t, r))
    BY <1>4 DEF cs
  <2> QED BY <1>2, <2>1, <2>2, <2>3, <2>4 DEF NothingLost
<1>11. ChunkBounds
  <2>1. Max({1, size}) = size
    <3>1. size \in Int /\ 1 \in Int /\ size >= 1
      BY <1>6
    <3> HIDE DEF size
    <3> QED BY <3>1, GreaterOf
  <2>2. \A k \in DOMAIN chunks : Len(chunks[k]) <= size + ov
    BY <1>8 DEF Short
  <2>3. \A k, l \in DOMAIN chunks : k # l => Cardinality(Shared(chunks[k], chunks[l])) <= ov
    BY <1>9 DEF SharesLittle
  <2> QED BY <1>2, <1>6, <2>1, <2>2, <2>3 DEF ChunkBounds
<1> QED BY <1>10, <1>11 DEF TextKept


-----------------------------------------------------------------------------
(* Chunking: tables *)

LEMMA WindowsTyped ==
    ASSUME NEW p \in Seq(Int), Upward(p), NEW size \in Nat \ {0}
    PROVE  Windows(p, size, 0) \in Seq(Seq(Int)) /\ Short(Windows(p, size, 0), size)
<1>1. PICK lo, hi : Spans(Windows(p, size, 0), p, lo, hi, 0) /\ Short(Windows(p, size, 0), size)
  <2>1. 0 < size
    OBVIOUS
  <2> QED BY <2>1, WindowsSpan
<1> QED BY <1>1 DEF Spans

\* Windows that share nothing are the whole, in its order.
LEMMA WindowsFlat ==
    ASSUME NEW p \in Seq(Int), Upward(p), NEW size \in Nat \ {0}
    PROVE  FlattenSeq(Windows(p, size, 0)) = p
<1> DEFINE w == Windows(p, size, 0)
           L == Len(p)
<1>1. L \in Nat /\ size \in Nat /\ size - 0 = size /\ 0 < size
  OBVIOUS
<1>2. \E n, off : /\ Offsets(off, n, size, size, L)
                  /\ w = [k \in 1..n |-> SubSeq(p, off[k] + 1, IF off[k] + size <= L THEN off[k] + size ELSE L)]
  <2> DEFINE none == 0
  <2>1. none \in Nat /\ none < size /\ size - none = size
    OBVIOUS
  <2>2. w = Windows(p, size, none)
    OBVIOUS
  <2> HIDE DEF none, w
  <2>3. PICK n, off : /\ Offsets(off, n, size - none, size, Len(p))
                      /\ Windows(p, size, none) =
                           [k \in 1..n |-> SubSeq(p, off[k] + 1, IF off[k] + size <= Len(p) THEN off[k] + size ELSE Len(p))]
    BY <2>1, WindowsAre
  <2>4. Offsets(off, n, size, size, L)
    BY <2>1, <2>3
  <2>5. w = [k \in 1..n |-> SubSeq(p, off[k] + 1, IF off[k] + size <= L THEN off[k] + size ELSE L)]
    BY <2>2, <2>3
  <2> QED BY <2>4, <2>5
<1>3. PICK n, off : /\ Offsets(off, n, size, size, L)
                    /\ w = [k \in 1..n |-> SubSeq(p, off[k] + 1, IF off[k] + size <= L THEN off[k] + size ELSE L)]
  BY <1>2
<1>4. w \in Seq(Seq(Int))
  BY WindowsTyped
<1> HIDE DEF w
<1> DEFINE hi(k) == IF off[k] + size <= L THEN off[k] + size ELSE L
           e == [k \in 0..n |-> IF k = 0 THEN 0 ELSE hi(k)]
           f == [k \in 0..n |-> SubSeq(p, 1, e[k])]
<1>5. n \in Nat \ {0} /\ (\A k \in 1..n : off[k] \in Nat) /\ off[1] = 0 /\ off[n] + size >= L
  BY <1>3 DEF Offsets
<1>6. \A k \in 1..n : k < n => off[k + 1] = off[k] + size
  BY <1>3 DEF Offsets
<1>7. DOMAIN w = 1..n /\ Len(w) = n /\ \A k \in 1..n : w[k] = SubSeq(p, off[k] + 1, hi(k))
  <2>1. DOMAIN w = 1..n
    BY <1>3
  <2>2. Len(w) = n
    BY <1>4, <1>5, <2>1
  <2>3. \A k \in 1..n : w[k] = SubSeq(p, off[k] + 1, hi(k))
    BY <1>3
  <2> HIDE DEF hi
  <2> QED BY <2>1, <2>2, <2>3
<1>8. ASSUME NEW k \in 1..n PROVE hi(k) \in 0..L
  <2>1. off[k] \in Nat
    BY <1>5
  <2> QED BY <1>1, <2>1
<1>9. ASSUME NEW k \in 0..n PROVE e[k] \in 0..L /\ (k # 0 => e[k] = hi(k)) /\ (k = 0 => e[k] = 0)
  <2>1. k # 0 => k \in 1..n
    BY <1>5
  <2> HIDE DEF hi
  <2> QED BY <1>1, <1>8, <2>1
<1>10. ASSUME NEW k \in 1..n PROVE k - 1 \in 0..n /\ k \in 0..n /\ e[k - 1] = IF off[k] <= L THEN off[k] ELSE L
  <2>1. k - 1 \in 0..n /\ k \in 0..n
    BY <1>5
  <2>2. CASE k = 1
    <3>1. e[k - 1] = 0 /\ off[k] = 0
      BY <1>5, <1>9, <2>1, <2>2
    <3> QED BY <1>1, <2>1, <3>1
  <2>3. CASE k # 1
    <3>1. k - 1 \in 1..n /\ k - 1 < n /\ (k - 1) + 1 = k /\ k - 1 # 0
      BY <1>5, <2>3
    <3>2. off[k] = off[k - 1] + size
      BY <1>6, <3>1
    <3>3. e[k - 1] = hi(k - 1)
      BY <1>9, <2>1, <3>1
    <3> QED BY <2>1, <3>2, <3>3
  <2> QED BY <2>2, <2>3
<1> HIDE DEF e
<1>11. ASSUME NEW k \in 1..n PROVE SubSeq(p, 1, e[k - 1]) \o w[k] = SubSeq(p, 1, e[k])
  <2>1. k - 1 \in 0..n /\ k \in 0..n /\ off[k] \in Nat /\ k # 0 /\ e[k] = hi(k) /\ w[k] = SubSeq(p, off[k] + 1, hi(k))
    BY <1>5, <1>7, <1>9, <1>10
  <2>2. CASE off[k] <= L
    <3>1. e[k - 1] = off[k] /\ hi(k) \in off[k]..L /\ off[k] \in 0..L
      <4>1. e[k - 1] = off[k]
        BY <1>10, <2>2
      <4>2. off[k] <= off[k] + size
        BY <1>1, <2>1
      <4> QED BY <1>1, <2>1, <2>2, <4>1, <4>2
    <3> HIDE DEF hi
    <3> DEFINE m == 1
               j == off[k]
               i == hi(k)
    <3>2. m \in 1..(L + 1) /\ j \in (m - 1)..L /\ i \in j..L
      BY <1>1, <3>1
    <3> HIDE DEF m, j, i
    <3>3. SubSeq(p, m, j) \o SubSeq(p, j + 1, i) = SubSeq(p, m, i)
      BY <3>2, ConcatAdjacentSubSeq DEF L
    <3> QED BY <2>1, <3>1, <3>3 DEF m, j, i
  <2>3. CASE ~(off[k] <= L)
    <3>1. e[k - 1] = L /\ hi(k) = L
      BY <1>1, <1>10, <2>1, <2>3
    <3>2. w[k] = <<>>
      <4>1. off[k] + 1 \in Int /\ L \in Int /\ L < off[k] + 1
        BY <1>1, <2>1, <2>3
      <4>2. w[k] = SubSeq(p, off[k] + 1, L)
        BY <2>1, <3>1
      <4> QED BY <4>1, <4>2, SubSeqEmpty
    <3>3. SubSeq(p, 1, L) = p
      BY SubSeqFull
    <3>4. p \o <<>> = p
      BY ConcatEmptySeq
    <3> HIDE DEF L, hi
    <3> QED BY <2>1, <3>1, <3>2, <3>3, <3>4
  <2> QED BY <2>2, <2>3
<1> HIDE DEF hi
<1>12. ASSUME NEW k \in 0..n PROVE f[k] = SubSeq(p, 1, e[k]) /\ f[k] \in Seq(Int)
  <2>1. e[k] \in 0..L
    BY <1>9
  <2>2. \A i \in 1..e[k] : p[i] \in Int
    BY <1>1, <2>1
  <2>3. 1 \in Int /\ e[k] \in Int
    BY <2>1
  <2>4. SubSeq(p, 1, e[k]) \in Seq(Int)
    BY <2>2, <2>3, SubSeqProperties
  <2> QED BY <2>4
<1>13. f[0] = <<>> /\ f[n] = p
  <2>1. 0 \in 0..n /\ n \in 0..n /\ n \in 1..n /\ n # 0
    BY <1>5
  <2>2. e[0] = 0 /\ e[n] = L
    BY <1>1, <1>5, <1>9, <2>1 DEF hi
  <2>3. SubSeq(p, 1, L) = p /\ SubSeq(p, 1, 0) = <<>>
    BY SubSeqFull, SubSeqEmpty
  <2> QED BY <1>12, <2>1, <2>2, <2>3
<1>14. \A i \in 1..n : f[i] = f[i - 1] \o w[i]
  <2> TAKE i \in 1..n
  <2>1. f[i] = SubSeq(p, 1, e[i]) /\ f[i - 1] = SubSeq(p, 1, e[i - 1])
    BY <1>10, <1>12
  <2> QED BY <1>11, <2>1
<1>15. f \in [0..n -> Seq(Int)]
  BY <1>12
<1> HIDE DEF f
<1>16. FlattenSeq(w) = f[n]
  <2>1. f \in [0..Len(w) -> Seq(Int)] /\ Flattens(f, w)
    BY <1>7, <1>13, <1>14, <1>15 DEF Flattens
  <2>2. FlattenSeq(w) = f[Len(w)]
    BY <1>4, <2>1, FlattensIs
  <2> QED BY <1>7, <2>2
<1> QED BY <1>13, <1>16 DEF w

RowsWell(rows, p, n, w) ==
    /\ p \in Seq(Int) /\ Upward(p) /\ ToSet(p) = 2..n /\ p = [k \in 1..(n - 1) |-> k + 1]
    /\ rows \in Seq(Seq(Int)) /\ Short(rows, w) /\ FlattenSeq(rows) = p
    /\ UNION {ToSet(rows[k]) : k \in DOMAIN rows} = 2..n

LEMMA RowsCut ==
    ASSUME NEW n \in Nat \ {0}, NEW w \in Nat \ {0}, NEW p, p = [k \in 1..(n - 1) |-> k + 1]
    PROVE  RowsWell(Windows(p, w, 0), p, n, w)
<1> DEFINE rows == Windows(p, w, 0)
           m == n - 1
<1>1. m \in Nat /\ p = [k \in 1..m |-> k + 1]
  OBVIOUS
<1>2. p \in Seq(Int) /\ DOMAIN p = 1..m /\ Len(p) = m /\ \A k \in 1..m : p[k] = k + 1
  <2> HIDE DEF m
  <2>1. p \in [1..m -> Int] /\ DOMAIN p = 1..m /\ \A k \in 1..m : p[k] = k + 1
    BY <1>1
  <2> QED BY <1>1, <2>1
<1>3. Upward(p)
  BY <1>2 DEF Upward
<1>4. ToSet(p) = 2..n
  <2>1. \A x \in 2..n : x - 1 \in 1..m /\ (x - 1) + 1 = x
    OBVIOUS
  <2>2. \A k \in 1..m : k + 1 \in 2..n
    OBVIOUS
  <2> HIDE DEF m
  <2>3. \A x \in 2..n : p[x - 1] = x
    BY <1>2, <2>1
  <2>4. \A k \in 1..m : p[k] \in 2..n
    BY <1>2, <2>2
  <2>5. ToSet(p) = {p[k] : k \in 1..m}
    BY <1>2 DEF ToSet
  <2>6. ToSet(p) \subseteq 2..n
    BY <2>4, <2>5
  <2>7. ASSUME NEW x \in 2..n
        PROVE  x \in ToSet(p)
    <3>1. x - 1 \in 1..m /\ p[x - 1] = x
      BY <2>1, <2>3
    <3> QED BY <2>5, <3>1
  <2> QED BY <2>6, <2>7
<1>5. rows \in Seq(Seq(Int)) /\ Short(rows, w)
  BY <1>2, <1>3, WindowsTyped
<1>6. FlattenSeq(rows) = p
  BY <1>2, <1>3, WindowsFlat
<1>7. UNION {ToSet(rows[k]) : k \in DOMAIN rows} = 2..n
  <2>1. PICK lo, hi : Spans(rows, p, lo, hi, 0)
    <3>1. 0 < w
      OBVIOUS
    <3> QED BY <1>2, <1>3, <3>1, WindowsSpan
  <2> HIDE DEF rows
  <2>2. ASSUME NEW k \in DOMAIN rows PROVE ToSet(rows[k]) = {p[x] : x \in lo[k]..hi[k]} /\ ToSet(rows[k]) \subseteq ToSet(p)
    <3>1. /\ lo[k] \in Int /\ hi[k] \in Int /\ 1 <= lo[k] /\ hi[k] <= Len(p)
          /\ ToSet(rows[k]) = {p[x] : x \in lo[k]..hi[k]}
      BY <2>1 DEF Spans, Stretch
    <3>2. \A x \in lo[k]..hi[k] : x \in DOMAIN p
      BY <1>1, <1>2, <3>1
    <3> QED BY <3>1, <3>2 DEF ToSet
  <2>3. \A x \in 1..Len(p) : \E k \in DOMAIN rows : x \in lo[k]..hi[k]
    BY <2>1 DEF Spans
  <2>4. ASSUME NEW i \in ToSet(p) PROVE \E k \in DOMAIN rows : i \in ToSet(rows[k])
    <3>1. PICK x \in 1..Len(p) : i = p[x]
      BY <1>2 DEF ToSet
    <3>2. PICK k \in DOMAIN rows : x \in lo[k]..hi[k]
      BY <2>3
    <3> QED BY <2>2, <3>1, <3>2
  <2> QED BY ZenonT(30), <1>4, <2>2, <2>4
<1> QED BY <1>2, <1>3, <1>4, <1>5, <1>6, <1>7 DEF RowsWell

\* The pieces c of a table of n rows.
TableWell(c_, n, size) ==
    /\ c_ \in Seq(Seq(Int)) /\ UNION {ToSet(c_[k]) : k \in DOMAIN c_} = 1..n
    /\ n >= 2 => /\ \A k \in DOMAIN c_ : c_[k][1] = 1 /\ (Len(c_[k]) > 2 => Len(c_[k]) <= size)
                 /\ FlattenSeq([k \in DOMAIN c_ |-> Tail(c_[k])]) = [k \in 1..(n - 1) |-> k + 1]

\* A row ahead of others.
Headed(q, r) == q = <<1>> \o r
LEMMA HeadedWell ==
    ASSUME NEW r \in Seq(Int), NEW q, Headed(q, r)
    PROVE  q \in Seq(Int) /\ q[1] = 1 /\ Tail(q) = r /\ Len(q) = Len(r) + 1 /\ ToSet(q) = {1} \cup ToSet(r) /\ Len(r) \in Nat
<1> DEFINE a == <<1>>
           n == Len(r)
<1>1. a \in Seq(Int) /\ Len(a) = 1 /\ a[1] = 1
  OBVIOUS
<1>2. q = a \o r
  BY DEF Headed
<1> HIDE DEF a
<1>3. q \in Seq(Int) /\ Len(q) = 1 + n /\ n \in Nat /\ \A i \in 1..(1 + n) : q[i] = IF i <= 1 THEN a[i] ELSE r[i - 1]
  <2>1. q \in Seq(Int) /\ Len(q) = Len(a) + n /\ \A i \in 1..(Len(a) + n) : q[i] = IF i <= Len(a) THEN a[i] ELSE r[i - Len(a)]
    BY <1>1, <1>2, ConcatProperties
  <2> QED BY <1>1, <2>1
<1>4. DOMAIN q = 1..(1 + n) /\ DOMAIN r = 1..n
  BY <1>3
<1> HIDE DEF n
<1>5. q[1] = 1
  BY <1>1, <1>3
<1>6. \A i \in 1..n : i + 1 \in 1..(1 + n) /\ q[i + 1] = r[i]
  <2> TAKE i \in 1..n
  <2>1. i + 1 \in 1..(1 + n) /\ ~(i + 1 <= 1) /\ (i + 1) - 1 = i
    BY <1>3
  <2> QED BY <1>3, <2>1
<1>7. Tail(q) = r
  <2>1. q # <<>>
    BY <1>3
  <2>2. Tail(q) \in Seq(Int) /\ Len(Tail(q)) = n /\ \A i \in 1..Len(Tail(q)) : Tail(q)[i] = q[i + 1]
    <3>1. Tail(q) \in Seq(Int) /\ Len(Tail(q)) = Len(q) - 1 /\ \A i \in 1..Len(Tail(q)) : Tail(q)[i] = q[i + 1]
      BY <1>3, <2>1, HeadTailProperties
    <3> QED BY <1>3, <3>1
  <2>3. \A i \in 1..Len(Tail(q)) : Tail(q)[i] = r[i]
    BY <1>6, <2>2
  <2> QED BY <2>2, <2>3, SeqEqual DEF n
<1>8. ToSet(q) = {1} \cup ToSet(r)
  <2>1. \A i \in 1..(1 + n) : i = 1 \/ (i - 1 \in 1..n /\ (i - 1) + 1 = i)
    BY <1>3
  <2>2. \A i \in 1..(1 + n) : q[i] = 1 \/ \E j \in 1..n : q[i] = r[j]
    BY <1>5, <1>6, <2>1
  <2>3. 1 \in 1..(1 + n)
    BY <1>3
  <2>4. ToSet(q) = {q[i] : i \in 1..(1 + n)} /\ ToSet(r) = {r[i] : i \in 1..n}
    BY <1>4 DEF ToSet
  <2>5. \A j \in 1..n : r[j] \in ToSet(q)
    BY <1>6, <2>4
  <2>6. 1 \in ToSet(q)
    BY <1>5, <2>3, <2>4
  <2>7. \A i \in 1..(1 + n) : q[i] \in {1} \cup ToSet(r)
    BY <2>2, <2>4
  <2> QED BY <2>4, <2>5, <2>6, <2>7
<1> QED BY <1>3, <1>5, <1>7, <1>8 DEF n

LEMMA TableIsWell ==
    ASSUME NEW n \in Nat, NEW size \in Nat \ {0}
    PROVE  TableWell(TablePieces(n, size), n, size)
<1>1. CASE n <= size
  <2> DEFINE p == [k \in 1..n |-> k]
             c_ == <<p>>
  <2>1. p \in Seq(Int) /\ DOMAIN p = 1..n /\ Len(p) = n /\ \A k \in 1..n : p[k] = k
    <3>1. p \in [1..n -> Int] /\ DOMAIN p = 1..n /\ \A k \in 1..n : p[k] = k
      OBVIOUS
    <3> QED BY <3>1
  <2>2. TablePieces(n, size) = c_
    BY <1>1 DEF TablePieces
  <2> HIDE DEF p
  <2>3. c_ \in Seq(Seq(Int)) /\ DOMAIN c_ = {1} /\ c_[1] = p
    BY <2>1
  <2>4. UNION {ToSet(c_[k]) : k \in DOMAIN c_} = 1..n
    <3>1. ToSet(p) = 1..n
      BY <2>1 DEF ToSet
    <3> HIDE DEF c_
    <3> QED BY <2>3, <3>1
  <2>5. ASSUME n >= 2
        PROVE  /\ \A k \in DOMAIN c_ : c_[k][1] = 1 /\ (Len(c_[k]) > 2 => Len(c_[k]) <= size)
               /\ FlattenSeq([k \in DOMAIN c_ |-> Tail(c_[k])]) = [k \in 1..(n - 1) |-> k + 1]
    <3> DEFINE q == [k \in 1..(n - 1) |-> k + 1]
    <3>1. p[1] = 1 /\ Len(p) <= size /\ p # <<>>
      BY <1>1, <2>1, <2>5
    <3>2. Tail(p) = q
      <4>1. q \in Seq(Int) /\ Len(q) = n - 1 /\ \A k \in 1..(n - 1) : q[k] = k + 1
        <5> DEFINE m == n - 1
        <5>1. m \in Nat /\ q = [k \in 1..m |-> k + 1]
          BY <2>5
        <5> HIDE DEF m, q
        <5>2. q \in [1..m -> Int] /\ DOMAIN q = 1..m
          BY <5>1
        <5> QED BY <5>1, <5>2 DEF m
      <4>2. Tail(p) \in Seq(Int) /\ Len(Tail(p)) = n - 1 /\ \A i \in 1..Len(Tail(p)) : Tail(p)[i] = p[i + 1]
        <5>1. Tail(p) \in Seq(Int) /\ Len(Tail(p)) = Len(p) - 1 /\ \A i \in 1..Len(Tail(p)) : Tail(p)[i] = p[i + 1]
          BY <2>1, <3>1, HeadTailProperties
        <5> QED BY <2>1, <5>1
      <4> HIDE DEF q
      <4>3. \A i \in 1..Len(Tail(p)) : Tail(p)[i] = q[i]
        <5> TAKE i \in 1..Len(Tail(p))
        <5>1. i \in 1..(n - 1) /\ i + 1 \in 1..n
          BY <2>5, <4>2
        <5> QED BY <2>1, <4>1, <4>2, <5>1
      <4>4. Len(Tail(p)) = Len(q)
        BY <4>1, <4>2
      <4> QED BY <4>1, <4>2, <4>3, <4>4, SeqEqual
    <3> DEFINE s == [k \in DOMAIN c_ |-> Tail(c_[k])]
               g == [k \in 0..1 |-> IF k = 0 THEN <<>> ELSE q]
    <3>3. s = <<q>> /\ q \in Seq(Int)
      <4>1. q \in Seq(Int)
        <5> DEFINE m == n - 1
        <5>1. m \in Nat /\ q = [k \in 1..m |-> k + 1]
          BY <2>5
        <5> HIDE DEF m, q
        <5>2. q \in [1..m -> Int]
          BY <5>1
        <5> QED BY <5>1, <5>2
      <4> HIDE DEF q, c_
      <4>2. s = [k \in {1} |-> q]
        BY <2>3, <3>2
      <4> HIDE DEF s
      <4>3. <<q>> = [k \in {1} |-> q]
        OBVIOUS
      <4> QED BY <4>1, <4>2, <4>3
    <3> HIDE DEF q, s
    <3>4. FlattenSeq(s) = q
      <4>1. s \in Seq(Seq(Int)) /\ Len(s) = 1 /\ s[1] = q
        BY <3>3
      <4>2. g \in [0..1 -> Seq(Int)] /\ g[0] = <<>> /\ g[1] = q
        BY <3>3
      <4> HIDE DEF g
      <4>3. <<>> \o q = q
        BY <3>3, ConcatEmptySeq
      <4>4. Flattens(g, s)
        <5> SUFFICES ASSUME NEW i \in 1..Len(s) PROVE g[i] = g[i - 1] \o s[i]
          BY <4>2 DEF Flattens
        <5>1. i = 1 /\ i - 1 = 0
          BY <4>1
        <5> QED BY <4>1, <4>2, <4>3, <5>1
      <4> QED BY <4>1, <4>2, <4>4, FlattensIs
    <3> QED BY <2>3, <3>1, <3>4 DEF q, s
  <2>6. TableWell(c_, n, size)
    BY <2>3, <2>4, <2>5 DEF TableWell
  <2> QED BY <2>2, <2>6
<1>2. CASE ~(n <= size)
  <2> DEFINE p == [k \in 1..(n - 1) |-> k + 1]
             w == IF size > 1 THEN size - 1 ELSE 1
             rows == Windows(p, w, 0)
             c_ == [k \in DOMAIN rows |-> <<1>> \o rows[k]]
             s == [k \in DOMAIN c_ |-> Tail(c_[k])]
  <2>1. n \in Nat \ {0} /\ w \in Nat \ {0} /\ n >= 1 /\ (w + 1 > 2 => w + 1 <= size)
    BY <1>2
  <2>2. TablePieces(n, size) = c_
    BY <1>2 DEF TablePieces
  <2> HIDE DEF w
  <2>3. RowsWell(rows, p, n, w)
    BY <2>1, RowsCut
  <2> HIDE DEF rows
  <2>4. rows \in Seq(Seq(Int)) /\ Short(rows, w) /\ FlattenSeq(rows) = p /\ UNION {ToSet(rows[k]) : k \in DOMAIN rows} = 2..n
    BY <2>3 DEF RowsWell
  <2>5. DOMAIN c_ = DOMAIN rows /\ \A k \in DOMAIN rows : Headed(c_[k], rows[k])
    BY DEF Headed
  <2> HIDE DEF c_
  <2>6. ASSUME NEW k \in DOMAIN rows
        PROVE  /\ c_[k] \in Seq(Int) /\ c_[k][1] = 1 /\ Tail(c_[k]) = rows[k] /\ ToSet(c_[k]) = {1} \cup ToSet(rows[k])
               /\ (Len(c_[k]) > 2 => Len(c_[k]) <= size)
    <3>1. rows[k] \in Seq(Int) /\ Len(rows[k]) <= w
      BY <2>4 DEF Short
    <3>2. /\ c_[k] \in Seq(Int) /\ c_[k][1] = 1 /\ Tail(c_[k]) = rows[k] /\ ToSet(c_[k]) = {1} \cup ToSet(rows[k])
          /\ Len(c_[k]) = Len(rows[k]) + 1 /\ Len(rows[k]) \in Nat
      BY <2>5, <3>1, HeadedWell
    <3>3. Len(c_[k]) > 2 => Len(c_[k]) <= size
      <4> DEFINE x == Len(rows[k])
      <4>1. x \in Nat /\ x <= w /\ Len(c_[k]) = x + 1
        BY <3>1, <3>2
      <4> HIDE DEF x
      <4> QED BY <2>1, <4>1
    <3> QED BY <3>2, <3>3
  <2>7. c_ \in Seq(Seq(Int))
    <3> DEFINE m == Len(rows)
    <3>1. m \in Nat /\ DOMAIN rows = 1..m
      BY <2>4
    <3> HIDE DEF m
    <3>2. c_ = [k \in 1..m |-> c_[k]]
      BY <2>5, <3>1 DEF c_
    <3>3. c_ \in [1..m -> Seq(Int)]
      BY <2>6, <3>1, <3>2
    <3> QED BY <3>1, <3>3
  <2>8. s = rows
    <3> DEFINE m == Len(rows)
    <3>1. m \in Nat /\ DOMAIN rows = 1..m /\ rows \in [1..m -> Seq(Int)]
      BY <2>4
    <3> HIDE DEF m
    <3> QED BY <2>5, <2>6, <3>1
  <2>9. DOMAIN rows # {}
    <3>1. 2 \in 2..n
      BY <1>2, <2>1
    <3>2. 2 \in UNION {ToSet(rows[k]) : k \in DOMAIN rows}
      BY <2>4, <3>1
    <3>3. PICK k \in DOMAIN rows : 2 \in ToSet(rows[k])
      BY <3>2
    <3> QED BY <3>3
  <2>10. UNION {ToSet(c_[k]) : k \in DOMAIN c_} = 1..n
    <3>1. UNION {ToSet(c_[k]) : k \in DOMAIN c_} = {1} \cup UNION {ToSet(rows[k]) : k \in DOMAIN rows}
      BY <2>1, <2>5, <2>6, <2>9
    <3>2. 1..n = {1} \cup 2..n
      BY <2>1
    <3> QED BY <2>4, <3>1, <3>2
  <2> HIDE DEF p, s
  <2>11. TableWell(c_, n, size)
    BY <2>4, <2>5, <2>6, <2>7, <2>8, <2>10 DEF TableWell, p, s
  <2> QED BY <2>2, <2>11
<1> QED BY <1>1, <1>2

LEMMA TableIsKept == ChunkInv => TableKept
<1> SUFFICES ASSUME ChunkInv, Cut("table")
             PROVE  /\ \A k \in DOMAIN chunks : chunks[k][1] = 1 /\ (Len(chunks[k]) > 2 => Len(chunks[k]) <= input.size)
                    /\ FlattenSeq([k \in DOMAIN chunks |-> Tail(chunks[k])]) = [k \in 1..(input.rows - 1) |-> k + 1]
  BY DEF TableKept
<1>1. TableIn /\ TableOut
  BY KindIs DEF ChunkInv, Cut
<1>2. PICK n \in 2..6, size \in TableSizes : input.rows = n /\ input.size = size
  BY <1>1 DEF TableIn
<1>3. n \in Nat /\ n >= 2 /\ size \in Nat \ {0}
  <2>1. TableSizes \subseteq Nat \ {0}
    BY ChunkingAssumption
  <2> QED BY <2>1
<1>4. TableWell(chunks, n, size)
  BY <1>1, <1>2, <1>3, TableIsWell DEF TableOut
<1> QED BY <1>2, <1>3, <1>4 DEF TableWell


-----------------------------------------------------------------------------
(* Chunking: the blocks of a parsed page *)

LayoutBlocks ==
    [type : {"text"}, text : Seq(Chars)] \cup [type : {"table"}, rows : Nat] \cup [type : {"image"}]

\* The pieces c of a block hold what is in it.
HeldBy(c_) == UNION {ToSet(c_[k]) : k \in DOMAIN c_}
BlockHeld(block, held) ==
    CASE block.type = "table" -> held = 1..block.rows
      [] block.type = "image" -> held = {1}
      [] OTHER -> {i \in DOMAIN block.text : ~Blank(block.text, i)} \subseteq held

LEMMA BlockWell ==
    ASSUME NEW block \in LayoutBlocks, NEW r \in Rules, NEW size \in Nat \ {0}
    PROVE  BlockPieces(block, r, size) \in Seq(Seq(Int)) /\ BlockHeld(block, HeldBy(BlockPieces(block, r, size)))
<1> DEFINE c_ == BlockPieces(block, r, size)
<1>1. CASE block \in [type : {"table"}, rows : Nat]
  <2>1. block.type = "table" /\ block.rows \in Nat
    BY <1>1
  <2>2. c_ = TablePieces(block.rows, size)
    BY <2>1 DEF BlockPieces
  <2>3. TableWell(c_, block.rows, size)
    BY <2>1, <2>2, TableIsWell
  <2> HIDE DEF c_
  <2>4. c_ \in Seq(Seq(Int)) /\ HeldBy(c_) = 1..block.rows
    BY <2>3 DEF TableWell, HeldBy
  <2> QED BY <2>1, <2>4 DEF BlockHeld, c_
<1>2. CASE block \in [type : {"image"}]
  <2>1. block.type = "image"
    BY <1>2
  <2> DEFINE one == <<1>>
  <2>2. c_ = <<one>>
    BY <2>1 DEF BlockPieces
  <2>3. one \in Seq(Int) /\ ToSet(one) = {1}
    BY DEF ToSet
  <2> HIDE DEF c_, one
  <2>4. c_ \in Seq(Seq(Int)) /\ DOMAIN c_ = {1} /\ c_[1] = one
    BY <2>2, <2>3
  <2>5. HeldBy(c_) = {1}
    BY <2>3, <2>4 DEF HeldBy
  <2> QED BY <2>1, <2>4, <2>5 DEF BlockHeld, c_
<1>3. CASE block \in [type : {"text"}, text : Seq(Chars)]
  <2> DEFINE t == block.text
  <2>1. block.type = "text" /\ t \in Seq(Chars)
    BY <1>3
  <2>2. c_ = IF t = <<>> THEN <<>> ELSE SplitByRules(t, r)
    BY <2>1 DEF BlockPieces
  <2> HIDE DEF c_, t
  <2>3. CASE t = <<>>
    <3>1. c_ = <<>> /\ DOMAIN t = {}
      BY <2>2, <2>3
    <3>2. c_ \in Seq(Seq(Int)) /\ {i \in DOMAIN t : ~Blank(t, i)} \subseteq HeldBy(c_)
      BY <3>1
    <3> QED BY <2>1, <3>2 DEF BlockHeld, t, c_
  <2>4. CASE t # <<>>
    <3>1. TextWell(t, r, c_)
      BY <2>1, <2>2, <2>4, ByRulesWell
    <3>2. Inside(DOMAIN t, c_) /\ Reaches(t, DOMAIN t, c_)
      BY <3>1 DEF TextWell, Cutting
    <3>3. c_ \in Seq(Seq(Int))
      BY <3>2 DEF Inside
    <3>4. {i \in DOMAIN t : ~Blank(t, i)} \subseteq HeldBy(c_)
      BY <3>2 DEF Reaches, HeldBy
    <3> QED BY <2>1, <3>3, <3>4 DEF BlockHeld, t, c_
  <2> QED BY <2>3, <2>4
<1> QED BY <1>1, <1>2, <1>3 DEF LayoutBlocks

\* What is cut of each block, one block after the other.
Tagged == [block : Nat, piece : Seq(Int)]
TaggedAs(s, n, c_) ==
    /\ s \in Seq(Tagged) /\ DOMAIN s = DOMAIN c_
    /\ \A j \in DOMAIN s : s[j].block = n /\ s[j].piece = c_[j]

LEMMA TaggedWell ==
    ASSUME NEW n \in Nat, NEW c_ \in Seq(Seq(Int))
    PROVE  TaggedAs([j \in DOMAIN c_ |-> [block |-> n, piece |-> c_[j]]], n, c_)
<1> DEFINE s == [j \in DOMAIN c_ |-> [block |-> n, piece |-> c_[j]]]
           m == Len(c_)
<1>1. m \in Nat /\ DOMAIN c_ = 1..m /\ \A j \in 1..m : c_[j] \in Seq(Int)
  OBVIOUS
<1> HIDE DEF m
<1>2. s \in [1..m -> Tagged]
  BY <1>1 DEF Tagged
<1>3. s \in Seq(Tagged)
  BY <1>1, <1>2
<1> QED BY <1>3 DEF TaggedAs

\* The pieces of the blocks, in the order of the blocks.
InBlocks(s, N, held) ==
    /\ \A k \in 2..Len(s) : s[k - 1].block <= s[k].block
    /\ \A n \in 1..N : UNION {ToSet(s[k].piece) : k \in {j \in DOMAIN s : s[j].block = n}} = held[n]

LEMMA BlocksFlat ==
    ASSUME NEW N \in Nat, NEW cs, NEW ss, DOMAIN cs = 1..N, ss \in Seq(Seq(Tagged)), Len(ss) = N,
           \A n \in 1..N : cs[n] \in Seq(Seq(Int)) /\ TaggedAs(ss[n], n, cs[n])
    PROVE  InBlocks(FlattenSeq(ss), N, [n \in 1..N |-> HeldBy(cs[n])])
<1> DEFINE b == FlattenSeq(ss)
           n == Len(b)
<1>1. b \in Seq(Tagged) /\ \E row, col : FlatPlaces(ss, N, b, row, col)
  BY FlattenedWell
<1>2. PICK row, col : FlatPlaces(ss, N, b, row, col)
  BY <1>1
<1> HIDE DEF b
<1>3. n \in Nat /\ DOMAIN b = 1..n
  BY <1>1
<1>4. /\ row \in [1..n -> Nat] /\ col \in [1..n -> Nat]
      /\ \A k \in 1..n : row[k] \in 1..N /\ col[k] \in DOMAIN ss[row[k]] /\ b[k] = ss[row[k]][col[k]]
      /\ \A k, l \in 1..n : k < l => row[k] < row[l] \/ (row[k] = row[l] /\ col[k] < col[l])
      /\ \A i \in 1..N : \A j \in DOMAIN ss[i] : \E k \in 1..n : row[k] = i /\ col[k] = j
  BY <1>2 DEF FlatPlaces
<1> HIDE DEF n
<1>5. ASSUME NEW k \in 1..n PROVE b[k].block = row[k] /\ row[k] \in 1..N /\ row[k] \in Nat
                                  /\ col[k] \in DOMAIN cs[row[k]] /\ b[k].piece = cs[row[k]][col[k]]
  <2>1. row[k] \in 1..N /\ col[k] \in DOMAIN ss[row[k]] /\ b[k] = ss[row[k]][col[k]] /\ row[k] \in Nat
    BY <1>4
  <2>2. TaggedAs(ss[row[k]], row[k], cs[row[k]])
    BY <2>1
  <2> QED BY <2>1, <2>2 DEF TaggedAs
<1>6. ASSUME NEW k \in 2..n PROVE b[k - 1].block <= b[k].block
  <2>1. k - 1 \in 1..n /\ k \in 1..n /\ k - 1 < k
    BY <1>3
  <2> DEFINE j == k - 1
  <2> HIDE DEF j
  <2>2. j \in 1..n /\ k \in 1..n /\ j < k
    BY <2>1 DEF j
  <2>3. row[j] < row[k] \/ row[j] = row[k]
    BY <1>4, <2>2
  <2>4. b[j].block = row[j] /\ b[k].block = row[k] /\ row[j] \in Nat /\ row[k] \in Nat
    BY <1>5, <2>2
  <2>5. b[j].block <= b[k].block
    BY <2>3, <2>4
  <2> QED BY <2>5 DEF j
<1>7. ASSUME NEW m \in 1..N PROVE UNION {ToSet(b[k].piece) : k \in {j \in DOMAIN b : b[j].block = m}} = HeldBy(cs[m])
  <2>1. ASSUME NEW k \in 1..n, b[k].block = m PROVE ToSet(b[k].piece) \subseteq HeldBy(cs[m])
    BY <1>5, <2>1 DEF HeldBy
  <2>2. ASSUME NEW j \in DOMAIN cs[m] PROVE \E k \in 1..n : b[k].block = m /\ b[k].piece = cs[m][j]
    <3>1. DOMAIN ss[m] = DOMAIN cs[m]
      BY DEF TaggedAs
    <3>2. PICK k \in 1..n : row[k] = m /\ col[k] = j
      BY <1>4, <2>2, <3>1
    <3> QED BY <1>5, <3>2
  <2>3. HeldBy(cs[m]) \subseteq UNION {ToSet(b[k].piece) : k \in {j \in DOMAIN b : b[j].block = m}}
    <3> SUFFICES ASSUME NEW x \in HeldBy(cs[m])
                 PROVE  \E k \in DOMAIN b : b[k].block = m /\ x \in ToSet(b[k].piece)
      OBVIOUS
    <3>1. PICK j \in DOMAIN cs[m] : x \in ToSet(cs[m][j])
      BY DEF HeldBy
    <3>2. PICK k \in 1..n : b[k].block = m /\ b[k].piece = cs[m][j]
      BY <2>2
    <3> QED BY <1>3, <3>1, <3>2
  <2>4. UNION {ToSet(b[k].piece) : k \in {j \in DOMAIN b : b[j].block = m}} \subseteq HeldBy(cs[m])
    BY <1>3, <2>1
  <2> QED BY <2>3, <2>4
<1>8. \A k \in 2..Len(b) : b[k - 1].block <= b[k].block
  BY <1>6 DEF n
<1> QED BY <1>7, <1>8 DEF InBlocks, b

LEMMA LayoutsTyped ==
    ASSUME NEW blocks \in Layouts
    PROVE  Len(blocks) \in Nat /\ DOMAIN blocks = 1..Len(blocks) /\ \A n \in 1..Len(blocks) : blocks[n] \in LayoutBlocks
<1>1. Layouts \subseteq Seq(LayoutBlocks)
  BY ChunkingAssumption DEF LayoutBlocks, Chars
<1>2. blocks \in Seq(LayoutBlocks)
  BY <1>1
<1> QED BY <1>2

LEMMA BlocksAreKept == ChunkInv => BlocksKept
<1> SUFFICES ASSUME ChunkInv, Cut("layout") PROVE BlocksKept
  BY DEF BlocksKept
<1>1. LayoutIn /\ LayoutOut
  BY KindIs DEF ChunkInv, Cut
<1>2. PICK blocks \in Layouts, r \in Rules, size \in TableSizes :
         input = [kind |-> "layout", blocks |-> blocks, rules |-> r, size |-> size]
  BY <1>1 DEF LayoutIn
<1>3. size \in Nat \ {0}
  <2>1. TableSizes \subseteq Nat \ {0}
    BY ChunkingAssumption
  <2> QED BY <2>1
<1> DEFINE N == Len(blocks)
           cs == [n \in 1..N |-> BlockPieces(blocks[n], r, size)]
           tag(n) == [j \in DOMAIN cs[n] |-> [block |-> n, piece |-> cs[n][j]]]
           ss == [n \in 1..N |-> tag(n)]
           held == [n \in 1..N |-> HeldBy(cs[n])]
<1>4. N \in Nat /\ DOMAIN blocks = 1..N /\ \A n \in 1..N : blocks[n] \in LayoutBlocks
  BY LayoutsTyped
<1>5. input.blocks = blocks /\ chunks = SplitLayout(blocks, r, size)
  BY <1>1, <1>2 DEF LayoutOut
<1>6. chunks = FlattenSeq(ss)
  BY <1>4, <1>5 DEF SplitLayout
<1> HIDE DEF N
<1>7. ASSUME NEW n \in 1..N PROVE cs[n] \in Seq(Seq(Int)) /\ BlockHeld(blocks[n], HeldBy(cs[n]))
  BY <1>3, <1>4, BlockWell
<1>8. ASSUME NEW n \in 1..N PROVE TaggedAs(ss[n], n, cs[n])
  <2>1. n \in Nat /\ ss[n] = tag(n)
    BY <1>4
  <2>2. cs[n] \in Seq(Seq(Int))
    BY <1>7
  <2> HIDE DEF cs
  <2> QED BY <2>1, <2>2, TaggedWell
<1>9. ss \in Seq(Seq(Tagged)) /\ Len(ss) = N
  <2>1. \A n \in 1..N : ss[n] \in Seq(Tagged)
    BY <1>8 DEF TaggedAs
  <2>2. DOMAIN ss = 1..N /\ ss = [n \in 1..N |-> ss[n]]
    OBVIOUS
  <2> HIDE DEF ss
  <2>3. ss \in [1..N -> Seq(Tagged)]
    BY <2>1, <2>2
  <2> QED BY <1>4, <2>3
<1>10. DOMAIN cs = 1..N
  OBVIOUS
<1> HIDE DEF cs, ss
<1>11. InBlocks(chunks, N, held)
  BY <1>4, <1>6, <1>7, <1>8, <1>9, <1>10, BlocksFlat
<1>12. \A k \in 2..Len(chunks) : chunks[k - 1].block <= chunks[k].block
  BY <1>11 DEF InBlocks
<1>13. ASSUME NEW n \in DOMAIN blocks
       PROVE  BlockHeld(blocks[n], UNION {ToSet(chunks[k].piece) : k \in {j \in DOMAIN chunks : chunks[j].block = n}})
  <2>1. n \in 1..N /\ held[n] = HeldBy(cs[n])
    BY <1>4
  <2>2. UNION {ToSet(chunks[k].piece) : k \in {j \in DOMAIN chunks : chunks[j].block = n}} = held[n]
    BY <1>11, <2>1 DEF InBlocks
  <2> QED BY <1>7, <2>1, <2>2
<1> QED BY <1>5, <1>12, <1>13 DEF BlocksKept, BlockHeld

-----------------------------------------------------------------------------
(* Markdown: lists of lines, in order *)

\* The pieces a hold the numbers S, each once, in order.
Ranked(S, a) ==
    /\ a \in Seq(Seq(Int)) /\ S \subseteq Int /\ S = HeldBy(a)
    /\ \A k \in DOMAIN a : Upward(a[k])
    /\ \A k, l \in DOMAIN a : k < l => \A i \in ToSet(a[k]), j \in ToSet(a[l]) : i < j

LEMMA HeldIn == ASSUME NEW a, NEW k \in DOMAIN a PROVE ToSet(a[k]) \subseteq HeldBy(a)
BY DEF HeldBy

\* That is a cutting of a text without blanks.
Ink == [i \in Int |-> "x"]
LEMMA InkShows == \A i \in Int : ~Blank(Ink, i)
BY DEF Ink, Blank

LEMMA RankedIsCut == ASSUME NEW S, NEW a, Ranked(S, a) PROVE Cutting(Ink, S, a, 0)
<1>1. /\ a \in Seq(Seq(Int)) /\ S \subseteq Int /\ S = HeldBy(a)
      /\ \A k \in DOMAIN a : Upward(a[k])
      /\ \A k, l \in DOMAIN a : k < l => \A i \in ToSet(a[k]), j \in ToSet(a[l]) : i < j
  BY DEF Ranked
<1>2. DOMAIN a \subseteq Nat /\ HeldBy(a) \subseteq Int
  BY <1>1
<1>3. Inside(S, a)
  BY <1>1, HeldIn DEF Inside
<1>4. Reaches(Ink, S, a)
  BY <1>1 DEF Reaches, HeldBy
<1>5. InTurn(Ink, S, a)
  <2> SUFFICES ASSUME NEW k \in DOMAIN a, NEW i \in ToSet(a[k]), NEW j \in S, j < i
               PROVE  \E l \in DOMAIN a : l <= k /\ j \in ToSet(a[l])
    BY DEF InTurn
  <2>1. PICK l \in DOMAIN a : j \in ToSet(a[l])
    BY <1>1 DEF HeldBy
  <2>2. i \in Int /\ j \in Int /\ k \in Nat /\ l \in Nat
    BY <1>1, <1>2, HeldIn
  <2>3. k < l => i < j
    BY <1>1, <2>1
  <2>4. l <= k
    BY <2>2, <2>3
  <2> QED BY <2>1, <2>4
<1>6. SharesLittle(a, 0)
  <2> SUFFICES ASSUME NEW k \in DOMAIN a, NEW l \in DOMAIN a, k # l PROVE Cardinality(Shared(a[k], a[l])) <= 0
    BY DEF SharesLittle
  <2>1. ASSUME NEW i \in ToSet(a[k]), i \in ToSet(a[l]) PROVE FALSE
    <3>1. i \in Int /\ k \in Nat /\ l \in Nat
      BY <1>1, <1>2, HeldIn
    <3>2. k < l \/ l < k
      BY <3>1
    <3>3. i < i
      BY <1>1, <2>1, <3>2
    <3> QED BY <3>1, <3>3
  <2>2. Shared(a[k], a[l]) = {}
    BY <2>1 DEF Shared
  <2> QED BY <2>2, SharesNothing
<1> QED BY <1>3, <1>4, <1>5, <1>6 DEF Cutting

LEMMA CutIsRanked == ASSUME NEW S, S \subseteq Int, NEW a, Cutting(Ink, S, a, 0) PROVE Ranked(S, a)
<1>1. Inside(S, a) /\ Reaches(Ink, S, a) /\ InTurn(Ink, S, a) /\ SharesLittle(a, 0)
  BY DEF Cutting
<1>2. a \in Seq(Seq(Int)) /\ \A k \in DOMAIN a : Upward(a[k]) /\ ToSet(a[k]) \subseteq S
  BY <1>1 DEF Inside
<1>3. S = HeldBy(a)
  <2>1. HeldBy(a) \subseteq S
    BY <1>2 DEF HeldBy
  <2>2. S \subseteq HeldBy(a)
    BY <1>1, InkShows DEF Reaches, HeldBy
  <2> QED BY <2>1, <2>2
<1>4. ASSUME NEW k \in DOMAIN a, NEW l \in DOMAIN a, k < l, NEW i \in ToSet(a[k]), NEW j \in ToSet(a[l]) PROVE i < j
  <2>1. i \in S /\ j \in S /\ i \in Int /\ j \in Int
    BY <1>2
  <2>2. k \in Nat /\ l \in Nat
    BY <1>2
  <2>3. ASSUME j <= i PROVE FALSE
    <3>1. PICK m \in DOMAIN a : m <= k /\ j \in ToSet(a[m])
      <4>1. CASE j < i
        BY <1>1, <2>1, <4>1, InkShows DEF InTurn
      <4>2. CASE j = i
        BY <2>2, <4>2
      <4> QED BY <2>1, <2>3, <4>1, <4>2
    <3>2. m # l
      BY <1>4, <1>2, <2>2, <3>1
    <3>3. Cardinality(Shared(a[m], a[l])) <= 0
      BY <1>1, <3>2 DEF SharesLittle
    <3>4. j \in Shared(a[m], a[l])
      BY <3>1 DEF Shared
    <3>5. IsFiniteSet(ToSet(a[m]))
      BY <1>1, PiecesTyped
    <3>6. IsFiniteSet(Shared(a[m], a[l]))
      BY <3>5, FS_Subset DEF Shared
    <3>7. Cardinality(Shared(a[m], a[l])) \in Nat
      BY <3>6, FS_CardinalityType
    <3>8. Cardinality(Shared(a[m], a[l])) = 0
      BY <3>3, <3>7
    <3> QED BY <3>4, <3>6, <3>8, FS_EmptySet
  <2> QED BY <2>1, <2>3
<1> QED BY <1>2, <1>3, <1>4 DEF Ranked

LEMMA RankedJoin ==
    ASSUME NEW S, NEW U, NEW a, NEW b, Ranked(S, a), Ranked(U, b), \A i \in S, j \in U : i < j
    PROVE  Ranked(S \cup U, a \o b)
<1> DEFINE none == 0
<1>1. S \subseteq Int /\ U \subseteq Int /\ none \in Nat
  BY DEF Ranked
<1>2. Cutting(Ink, S, a, none) /\ Cutting(Ink, U, b, none)
  BY RankedIsCut
<1> HIDE DEF none
<1>3. Cutting(Ink, S \cup U, a \o b, none)
  BY <1>1, <1>2, CutJoin
<1> QED BY <1>1, <1>3, CutIsRanked DEF none

LEMMA RankedOne == ASSUME NEW p \in Seq(Int), Upward(p) PROVE Ranked(ToSet(p), <<p>>)
<1> DEFINE none == 0
<1>1. none \in Nat /\ ToSet(p) \subseteq Int
  BY DEF ToSet
<1> HIDE DEF none
<1>2. Cutting(Ink, ToSet(p), <<p>>, none)
  BY <1>1, CutWhole
<1> QED BY <1>1, <1>2, CutIsRanked DEF none

LEMMA RankedMore ==
    ASSUME NEW S, NEW a, Ranked(S, a), NEW p \in Seq(Int), Upward(p), \A i \in S, j \in ToSet(p) : i < j
    PROVE  Ranked(S \cup ToSet(p), Append(a, p))
<1>1. Ranked(ToSet(p), <<p>>)
  BY RankedOne
<1>2. Ranked(S \cup ToSet(p), a \o <<p>>)
  BY <1>1, RankedJoin
<1>3. a \in Seq(Seq(Int))
  BY DEF Ranked
<1>4. a \o <<p>> = Append(a, p)
  BY <1>3
<1> QED BY <1>2, <1>4

LEMMA RankedExtend ==
    ASSUME NEW S, NEW out \in Seq(Seq(Int)), NEW buf \in Seq(Int), Ranked(S, Append(out, buf)),
           NEW u \in Seq(Int), Upward(u), \A i \in S, j \in ToSet(u) : i < j
    PROVE  Ranked(S \cup ToSet(u), Append(out, buf \o u))
<1> DEFINE none == 0
<1>1. S \subseteq Int /\ none \in Int /\ ToSet(u) \subseteq Int
  BY DEF Ranked, ToSet
<1>2. Cutting(Ink, S, Append(out, buf), none)
  BY RankedIsCut
<1> HIDE DEF none
<1>3. Cutting(Ink, S \cup ToSet(u), Append(out, buf \o u), none)
  BY <1>1, <1>2, CutExtend
<1> QED BY <1>1, <1>3, CutIsRanked DEF none

LEMMA RankedWindows ==
    ASSUME NEW p \in Seq(Int), Upward(p), NEW size \in Nat \ {0}
    PROVE  Ranked(ToSet(p), Windows(p, size, 0))
<1> DEFINE none == 0
<1>1. none \in Nat /\ none < size /\ ToSet(p) \subseteq Int
  BY DEF ToSet
<1> HIDE DEF none
<1>2. Cutting(Ink, ToSet(p), Windows(p, size, none), none)
  BY <1>1, WindowsCut
<1> QED BY <1>1, <1>2, CutIsRanked DEF none

\* Empty pieces can come and go.
LEMMA RankedNone == ASSUME NEW S, NEW a, Ranked(S, a) PROVE Ranked(S, Append(a, <<>>))
<1> DEFINE e == <<>>
<1>1. e \in Seq(Int) /\ Upward(e) /\ ToSet(e) = {}
  BY DEF Upward, ToSet
<1> HIDE DEF e
<1>2. Ranked(S \cup ToSet(e), Append(a, e))
  BY <1>1, RankedMore
<1> QED BY <1>1, <1>2 DEF e

LEMMA RankedParts ==
    ASSUME NEW S, NEW a \in Seq(Seq(Int)), NEW x \in Seq(Int), Ranked(S, Append(a, x))
    PROVE  /\ Ranked(HeldBy(a), a) /\ Upward(x) /\ S = HeldBy(a) \cup ToSet(x) /\ S \subseteq Int
           /\ \A i \in HeldBy(a), j \in ToSet(x) : i < j
<1> DEFINE b == Append(a, x)
           n == Len(a)
           h == n + 1
<1>1. n \in Nat /\ DOMAIN a = 1..n /\ DOMAIN b = 1..h /\ b[h] = x /\ h \in DOMAIN b
      /\ \A k \in 1..n : k \in DOMAIN b /\ b[k] = a[k] /\ k < h
  OBVIOUS
<1>2. \A k \in 1..h : k \in 1..n \/ k = h
  BY <1>1
<1> HIDE DEF b, h, n
<1>3. /\ S \subseteq Int /\ S = HeldBy(b) /\ \A k \in DOMAIN b : Upward(b[k])
      /\ \A k, l \in DOMAIN b : k < l => \A i \in ToSet(b[k]), j \in ToSet(b[l]) : i < j
  BY DEF Ranked, b
<1>4. S = HeldBy(a) \cup ToSet(x)
  <2>1. \A k \in 1..n : ToSet(a[k]) \subseteq HeldBy(b)
    BY <1>1, HeldIn
  <2>2. HeldBy(a) \subseteq S /\ ToSet(x) \subseteq S
    BY <1>1, <1>3, <2>1, HeldIn DEF HeldBy
  <2>3. ASSUME NEW i \in S PROVE i \in HeldBy(a) \cup ToSet(x)
    <3>1. PICK k \in DOMAIN b : i \in ToSet(b[k])
      BY <1>3 DEF HeldBy
    <3>2. CASE k = h
      BY <1>1, <3>1, <3>2
    <3>3. CASE k \in 1..n
      BY <1>1, <3>1, <3>3, HeldIn
    <3> QED BY <1>1, <1>2, <3>2, <3>3
  <2> QED BY <2>2, <2>3
<1>5. Ranked(HeldBy(a), a)
  <2>1. \A k \in DOMAIN a : Upward(a[k])
    BY <1>1, <1>3
  <2>2. \A k, l \in DOMAIN a : k < l => \A i \in ToSet(a[k]), j \in ToSet(a[l]) : i < j
    BY <1>1, <1>3
  <2>3. HeldBy(a) \subseteq Int
    BY <1>3, <1>4
  <2> QED BY <2>1, <2>2, <2>3 DEF Ranked
<1>6. ASSUME NEW i \in HeldBy(a), NEW j \in ToSet(x) PROVE i < j
  <2>1. PICK k \in 1..n : i \in ToSet(a[k])
    BY <1>1 DEF HeldBy
  <2> QED BY <1>1, <1>3, <2>1
<1> QED BY <1>1, <1>3, <1>4, <1>5, <1>6

LEMMA RankedWithout ==
    ASSUME NEW S, NEW a \in Seq(Seq(Int)), Ranked(S, Append(a, <<>>))
    PROVE  Ranked(S, a)
<1> DEFINE e == <<>>
<1>1. e \in Seq(Int) /\ ToSet(e) = {}
  BY DEF ToSet
<1> HIDE DEF e
<1>2. Ranked(S, Append(a, e))
  BY DEF e
<1>3. \A x \in Seq(Int) : Ranked(S, Append(a, x)) => Ranked(HeldBy(a), a) /\ S = HeldBy(a) \cup ToSet(x)
  BY RankedParts
<1> QED BY <1>1, <1>2, <1>3

LEMMA RankedMerge ==
    ASSUME NEW S, NEW a \in Seq(Seq(Int)), NEW x \in Seq(Int), NEW y \in Seq(Int), Ranked(S, Append(Append(a, x), y))
    PROVE  Ranked(S, Append(a, x \o y))
<1> DEFINE b == Append(a, x)
<1>1. b \in Seq(Seq(Int))
  OBVIOUS
<1>2. Ranked(HeldBy(b), b) /\ Upward(y) /\ S = HeldBy(b) \cup ToSet(y) /\ \A i \in HeldBy(b), j \in ToSet(y) : i < j
  <2>1. Ranked(S, Append(b, y))
    OBVIOUS
  <2> HIDE DEF b
  <2> QED BY <1>1, <2>1, RankedParts
<1> QED BY <1>2, RankedExtend

NotEmpty(a, I) == I = {k \in DOMAIN a : a[k] # <<>>}
Picked(b, a) == \A k \in DOMAIN b : b[k] # <<>> /\ \E l \in DOMAIN a : b[k] = a[l]
LEMMA RankedFull ==
    ASSUME NEW S, NEW a, Ranked(S, a), NEW I, NotEmpty(a, I)
    PROVE  Ranked(S, Sift(a, I)) /\ Picked(Sift(a, I), a)
<1> DEFINE b == Sift(a, I)
           at == Sifted(a, I)
           n == Len(b)
<1>1. /\ a \in Seq(Seq(Int)) /\ S \subseteq Int /\ S = HeldBy(a)
      /\ \A k \in DOMAIN a : Upward(a[k])
      /\ \A k, l \in DOMAIN a : k < l => \A i \in ToSet(a[k]), j \in ToSet(a[l]) : i < j
  BY DEF Ranked
<1>2. b \in Seq(Seq(Int)) /\ n \in Nat /\ DOMAIN b = 1..n /\ Places(at, n, I \cap DOMAIN a) /\ SiftedBy(a, I, b, at)
  BY <1>1, SiftWell
<1>3. /\ \A i, j \in 1..n : i < j => at[i] < at[j]
      /\ \A x \in I \cap DOMAIN a : \E i \in 1..n : at[i] = x
      /\ \A k \in 1..n : at[k] \in DOMAIN a /\ at[k] \in I /\ b[k] = a[at[k]]
  BY <1>2 DEF Places, SiftedBy
<1> HIDE DEF b, at, n
<1>0. I = {k \in DOMAIN a : a[k] # <<>>}
  BY DEF NotEmpty
<1>4. \A k \in DOMAIN b : Upward(b[k]) /\ b[k] # <<>> /\ \E l \in DOMAIN a : b[k] = a[l]
  BY <1>0, <1>1, <1>2, <1>3
<1>5. \A k, l \in DOMAIN b : k < l => \A i \in ToSet(b[k]), j \in ToSet(b[l]) : i < j
  <2> TAKE k, l \in DOMAIN b
  <2> HAVE k < l
  <2>1. at[k] < at[l] /\ at[k] \in DOMAIN a /\ at[l] \in DOMAIN a /\ b[k] = a[at[k]] /\ b[l] = a[at[l]]
    BY <1>2, <1>3
  <2> QED BY <1>1, <2>1
<1>6. S = HeldBy(b)
  <2>1. \A k \in DOMAIN b : ToSet(b[k]) \subseteq S
    BY <1>1, <1>2, <1>3, HeldIn
  <2>2. ASSUME NEW i \in S PROVE i \in HeldBy(b)
    <3>1. PICK l \in DOMAIN a : i \in ToSet(a[l])
      BY <1>1 DEF HeldBy
    <3>2. a[l] # <<>>
      BY <3>1 DEF ToSet
    <3>3. PICK k \in 1..n : at[k] = l
      BY <1>0, <1>3, <3>2
    <3>4. k \in DOMAIN b /\ i \in ToSet(b[k])
      BY <1>2, <1>3, <3>1, <3>3
    <3> QED BY <3>4, HeldIn
  <2>3. HeldBy(b) \subseteq S
    BY <2>1 DEF HeldBy
  <2> QED BY <2>2, <2>3
<1>7. Ranked(S, b)
  BY <1>1, <1>2, <1>4, <1>5, <1>6 DEF Ranked
<1>8. Picked(b, a)
  BY <1>4 DEF Picked
<1> QED BY <1>7, <1>8 DEF b

\* Put together, they are in order.
LEMMA RankedFlat ==
    ASSUME NEW S, NEW a, Ranked(S, a)
    PROVE  FlattenSeq(a) \in Seq(Int) /\ Upward(FlattenSeq(a)) /\ ToSet(FlattenSeq(a)) = S
<1> DEFINE b == FlattenSeq(a)
           n == Len(b)
           h == Len(a)
<1>1. /\ a \in Seq(Seq(Int)) /\ S \subseteq Int /\ S = HeldBy(a)
      /\ \A k \in DOMAIN a : Upward(a[k])
      /\ \A k, l \in DOMAIN a : k < l => \A i \in ToSet(a[k]), j \in ToSet(a[l]) : i < j
  BY DEF Ranked
<1>2. b \in Seq(Int) /\ \E row, col : FlatPlaces(a, h, b, row, col)
  BY <1>1, FlattenedWell
<1>3. PICK row, col : FlatPlaces(a, h, b, row, col)
  BY <1>2
<1> HIDE DEF b
<1>4. n \in Nat /\ DOMAIN b = 1..n /\ h \in Nat /\ DOMAIN a = 1..h
  BY <1>1, <1>2
<1> HIDE DEF n, h
<1>5. /\ row \in [1..n -> Nat] /\ col \in [1..n -> Nat]
      /\ \A k \in 1..n : row[k] \in 1..h /\ col[k] \in DOMAIN a[row[k]] /\ b[k] = a[row[k]][col[k]]
      /\ \A k, l \in 1..n : k < l => row[k] < row[l] \/ (row[k] = row[l] /\ col[k] < col[l])
      /\ \A i \in 1..h : \A j \in DOMAIN a[i] : \E k \in 1..n : row[k] = i /\ col[k] = j
  BY <1>3 DEF FlatPlaces, n
<1>6. \A k \in 1..n : b[k] \in ToSet(a[row[k]])
  BY <1>5 DEF ToSet
<1>7. Upward(b)
  <2> SUFFICES ASSUME NEW k \in 1..n, NEW l \in 1..n, k < l PROVE b[k] < b[l]
    BY <1>4 DEF Upward
  <2>1. CASE row[k] < row[l]
    <3>1. row[k] \in DOMAIN a /\ row[l] \in DOMAIN a
      BY <1>4, <1>5
    <3> QED BY <1>1, <1>6, <2>1, <3>1
  <2>2. CASE row[k] = row[l] /\ col[k] < col[l]
    <3>1. row[k] \in DOMAIN a /\ col[k] \in DOMAIN a[row[k]] /\ col[l] \in DOMAIN a[row[k]]
          /\ b[k] = a[row[k]][col[k]] /\ b[l] = a[row[k]][col[l]]
      BY <1>4, <1>5, <2>2
    <3>2. Upward(a[row[k]])
      BY <1>1, <3>1
    <3> QED BY <2>2, <3>1, <3>2 DEF Upward
  <2> QED BY <1>5, <2>1, <2>2
<1>8. ToSet(b) = S
  <2>1. ToSet(b) \subseteq S
    <3>1. \A k \in 1..n : b[k] \in S
      BY <1>1, <1>4, <1>5, <1>6, HeldIn
    <3> QED BY <1>4, <3>1 DEF ToSet
  <2>2. ASSUME NEW i \in S PROVE i \in ToSet(b)
    <3>1. PICK l \in DOMAIN a : i \in ToSet(a[l])
      BY <1>1 DEF HeldBy
    <3>2. PICK j \in DOMAIN a[l] : i = a[l][j]
      BY <3>1 DEF ToSet
    <3>3. PICK k \in 1..n : row[k] = l /\ col[k] = j
      BY <1>4, <1>5, <3>2
    <3>4. b[k] = i
      BY <1>5, <3>2, <3>3
    <3> QED BY <1>4, <3>4 DEF ToSet
  <2> QED BY <2>1, <2>2
<1> QED BY <1>2, <1>7, <1>8 DEF b

\* What is done step by step keeps what each step keeps.
LEMMA StepsKeep ==
    ASSUME NEW V, NEW n \in Nat, NEW v \in V, NEW step \in [(1..n) \X V -> V], NEW I, v \in I[0],
           \A h \in 0..(n - 1) : \A x \in V : x \in I[h] => step[<<h + 1, x>>] \in I[h + 1]
    PROVE  \E f \in [0..n -> V] : BuiltBy(f, v, step, n) /\ \A k \in 0..n : f[k] \in I[k]
<1>1. PICK f \in [0..n -> V] : BuiltBy(f, v, step, n)
  BY StepByStep
<1> DEFINE T == {k \in Nat : f[k] \in I[k]}
<1>2. 0 \in T
  BY <1>1 DEF BuiltBy
<1>3. ASSUME NEW k \in 0..n, k \in T, k + 1 <= n PROVE k + 1 \in T
  <2>1. k \in 0..(n - 1) /\ k + 1 \in 1..n /\ (k + 1) - 1 = k /\ f[k] \in V
    BY <1>3
  <2> DEFINE h == k + 1
  <2>2. step[<<h, f[k]>>] \in I[h]
    BY <1>3, <2>1
  <2> HIDE DEF h
  <2>3. f[h] = step[<<h, f[h - 1]>>]
    BY <1>1, <2>1 DEF BuiltBy, h
  <2>4. f[h] \in I[h] /\ h \in Nat
    BY <2>1, <2>2, <2>3 DEF h
  <2> QED BY <2>4 DEF h
<1>4. \A k \in 0..n : k \in T
  <2> HIDE DEF T
  <2> QED BY <1>2, <1>3, Along
<1> QED BY <1>1, <1>4

-----------------------------------------------------------------------------
(* Markdown: fences and heading paths *)

Lines == {"h1", "h2", "line", "blank", "fence"}

\* Whether a line is followed by an open fence.
Odd(page, i) == Cardinality({j \in 1..i : page[j] = "fence"}) % 2 = 1

LEMMA OddNone == ASSUME NEW page PROVE ~Odd(page, 0)
<1> DEFINE F == {j \in 1..0 : page[j] = "fence"}
<1>1. F = {}
  OBVIOUS
<1>2. Cardinality(F) = 0
  BY <1>1, FS_EmptySet
<1> HIDE DEF F
<1>3. Cardinality(F) % 2 = 0
  BY <1>2
<1> QED BY <1>3 DEF Odd, F

LEMMA OddStep ==
    ASSUME NEW page, NEW h \in Nat, NEW i, i = h + 1
    PROVE  Odd(page, i) <=> IF page[i] = "fence" THEN ~Odd(page, h) ELSE Odd(page, h)
<1> DEFINE G == {j \in 1..h : page[j] = "fence"}
           F == {j \in 1..i : page[j] = "fence"}
           g == Cardinality(G)
           f == Cardinality(F)
<1>1. 1..i = (1..h) \cup {i} /\ i \notin 1..h
  OBVIOUS
<1>2. IsFiniteSet(G) /\ i \notin G
  <2>1. IsFiniteSet(1..h) /\ G \subseteq 1..h
    BY FS_Interval
  <2> QED BY <1>1, <2>1, FS_Subset
<1>3. F = IF page[i] = "fence" THEN G \cup {i} ELSE G
  BY <1>1
<1> HIDE DEF F, G
<1>4. g \in Nat
  BY <1>2, FS_CardinalityType
<1>5. f = IF page[i] = "fence" THEN g + 1 ELSE g
  BY <1>2, <1>3, FS_AddElement
<1> HIDE DEF f, g
<1>6. (g + 1) % 2 = 1 <=> ~(g % 2 = 1)
  BY <1>4
<1> QED BY <1>5, <1>6 DEF Odd, F, G, f, g

LEMMA HeadingOutside ==
    ASSUME NEW page, NEW h \in Nat, NEW i, i = h + 1, Heading(page, i)
    PROVE  page[i] \in {"h1", "h2"} /\ ~Odd(page, i) /\ ~Odd(page, h)
<1>1. page[i] \in {"h1", "h2"} /\ ~Odd(page, i)
  BY DEF Heading, IsHeading, InFence, Odd
<1> QED BY <1>1, OddStep

\* The headings that a line after line i is under.
Upper(page, i) ==
    {h \in 1..i : Heading(page, h) /\ \A j \in (h + 1)..i : Heading(page, j) => LevelOfLine(page[j]) > LevelOfLine(page[h])}

LEMMA UpperSome == ASSUME NEW page, NEW i \in Nat PROVE Upper(page, i) \subseteq Int /\ IsFiniteSet(Upper(page, i)) /\ Upper(page, i) \subseteq 1..i
<1>1. Upper(page, i) \subseteq 1..i /\ IsFiniteSet(1..i)
  BY FS_Interval DEF Upper
<1>2. 1..i \subseteq Int
  OBVIOUS
<1> QED BY <1>1, <1>2, FS_Subset

LEMMA InOrderListed ==
    ASSUME NEW S, S \subseteq Int, IsFiniteSet(S)
    PROVE  Listed(S, Cardinality(S), InOrder(S)) /\ Cardinality(S) \in Nat /\ InOrder(S) \in Seq(Int) /\ Len(InOrder(S)) = Cardinality(S)
           /\ DOMAIN InOrder(S) = 1..Cardinality(S)
<1> DEFINE n == Cardinality(S)
           s == InOrder(S)
<1>1. s \in [1..n -> S] /\ n \in Nat
  BY InOrderWell
<1> HIDE DEF n, s
<1>2. s \in [1..n -> Int]
  BY <1>1
<1>3. s \in Seq(Int)
  BY <1>1, <1>2
<1>4. InOrder(S) \in Seq(Int) /\ DOMAIN InOrder(S) = 1..Cardinality(S)
  BY <1>1, <1>3 DEF n, s
<1> QED BY <1>4, InOrderWell DEF Listed

LEMMA PathNone == ASSUME NEW page PROVE InOrder(Upper(page, 0)) = <<>>
<1> DEFINE S == Upper(page, 0)
           s == InOrder(S)
<1>1. S = {}
  BY DEF Upper
<1>2. IsFiniteSet(S) /\ S \subseteq Int /\ Cardinality(S) = 0
  BY <1>1, FS_EmptySet
<1> HIDE DEF S
<1>3. s \in Seq(Int) /\ Len(s) = 0
  BY <1>2, InOrderListed
<1> HIDE DEF s
<1>4. s = <<>>
  BY <1>3
<1> QED BY <1>4 DEF s, S

LEMMA PathStays ==
    ASSUME NEW page, NEW h \in Nat, NEW i, i = h + 1, ~Heading(page, i)
    PROVE  Upper(page, i) = Upper(page, h) /\ Above(page, i) = InOrder(Upper(page, h))
<1>1. 1..i = (1..h) \cup {i} /\ i - 1 = h
  OBVIOUS
<1>2. \A x \in 1..h : (x + 1)..i = ((x + 1)..h) \cup {i}
  OBVIOUS
<1> DEFINE U == {x \in 1..h : Heading(page, x) /\ \A j \in (x + 1)..i : Heading(page, j) => LevelOfLine(page[j]) > LevelOfLine(page[x])}
<1>3. U = Upper(page, h)
  BY <1>2 DEF Upper
<1>4. Upper(page, i) = U
  BY <1>1 DEF Upper
<1>5. Above(page, i) = InOrder(U)
  BY <1>1 DEF Above
<1> QED BY <1>3, <1>4, <1>5

LEMMA PathGoes ==
    ASSUME NEW page, NEW h \in Nat, NEW i, i = h + 1, Heading(page, i)
    PROVE  PathTo(page, InOrder(Upper(page, h)), i) = InOrder(Upper(page, i))
<1> DEFINE U == Upper(page, h)
           W == Upper(page, i)
           p == InOrder(U)
           lower(x) == LevelOfLine(page[x]) < LevelOfLine(page[i])
           I == {k \in DOMAIN p : lower(p[k])}
           s == Sift(p, I)
           at == Sifted(p, I)
           n == Len(s)
           q == Append(s, i)
           m == n + 1
<1>1. W = {x \in U : lower(x)} \cup {i}
  <2>1. 1..i = (1..h) \cup {i} /\ \A x \in 1..h : (x + 1)..i = ((x + 1)..h) \cup {i}
    OBVIOUS
  <2>2. i \in 1..i /\ (i + 1)..i = {}
    OBVIOUS
  <2>3. i \in W
    BY <2>2 DEF Upper
  <2>4. LevelOfLine(page[i]) \in Int /\ \A x : LevelOfLine(page[x]) \in Int
    BY DEF LevelOfLine
  <2>5. \A x \in 1..h : x \in W <=> x \in U /\ lower(x)
    <3> TAKE x \in 1..h
    <3>1. lower(x) <=> LevelOfLine(page[i]) > LevelOfLine(page[x])
      BY <2>4
    <3>2. x \in 1..i
      BY <2>1
    <3> QED BY <2>1, <3>1, <3>2 DEF Upper
  <2>6. W \subseteq 1..i /\ U \subseteq 1..h
    BY DEF Upper
  <2> HIDE DEF W, U
  <2> QED BY <2>1, <2>3, <2>5, <2>6
<1>2. U \subseteq Int /\ IsFiniteSet(U) /\ U \subseteq 1..h
  BY UpperSome
<1>3. W \subseteq Int /\ IsFiniteSet(W)
  <2>1. i \in Nat
    OBVIOUS
  <2> QED BY <2>1, UpperSome
<1>4. p \in Seq(Int) /\ DOMAIN p = 1..Cardinality(U) /\ Listed(U, Cardinality(U), p)
  BY <1>2, InOrderListed
<1>5. PathTo(page, p, i) = s \o <<i>>
  BY DEF PathTo
<1> HIDE DEF W, U, p
<1>6. s \in Seq(Int) /\ n \in Nat /\ DOMAIN s = 1..n /\ Places(at, n, I \cap DOMAIN p) /\ SiftedBy(p, I, s, at)
  <2> HIDE DEF I
  <2> QED BY <1>4, SiftWell
<1>7. q = s \o <<i>> /\ q \in Seq(Int) /\ DOMAIN q = 1..m /\ m \in Nat /\ Len(q) = m
      /\ q[m] = i /\ \A k \in 1..n : k \in 1..m /\ q[k] = s[k]
  <2> HIDE DEF s
  <2> QED BY <1>6
<1>8. \A k \in 1..n : /\ at[k] \in DOMAIN p /\ at[k] \in I /\ s[k] = p[at[k]]
  BY <1>6 DEF SiftedBy
<1>9. (\A k, l \in 1..n : k < l => at[k] < at[l]) /\ \A x \in I : \E k \in 1..n : at[k] = x
  BY <1>6 DEF Places
<1>10. (\A k \in DOMAIN p : p[k] \in U) /\ (\A k, l \in DOMAIN p : k < l => p[k] < p[l]) /\ \A x \in U : \E k \in DOMAIN p : p[k] = x
  BY <1>4 DEF Listed
<1> HIDE DEF s, at, n
<1>11. \A k \in 1..n : s[k] \in U /\ lower(s[k])
  BY <1>8, <1>10
<1>12. \A k, l \in 1..n : k < l => s[k] < s[l]
  BY <1>8, <1>9, <1>10
<1>13. \A x \in U : lower(x) => \E k \in 1..n : s[k] = x
  <2> TAKE x \in U
  <2> HAVE lower(x)
  <2>1. PICK k \in DOMAIN p : p[k] = x
    BY <1>10
  <2>2. PICK l \in 1..n : at[l] = k
    BY <1>9, <2>1
  <2> QED BY <1>8, <2>1, <2>2
<1> HIDE DEF I, lower, q
<1>14. \A k \in 1..m : k \in 1..n \/ k = m
  BY <1>6
<1>15. m \in 1..m /\ \A k \in 1..n : k < m
  BY <1>6
<1> HIDE DEF m
<1>16. Listed(W, m, q)
  <2>1. \A k \in 1..m : q[k] \in W
    BY <1>1, <1>7, <1>11, <1>14
  <2>2. q \in [1..m -> W]
    <3>1. q = [k \in 1..m |-> q[k]]
      BY <1>7
    <3> QED BY <2>1, <3>1
  <2>3. \A k, l \in 1..m : k < l => q[k] < q[l]
    <3> TAKE k, l \in 1..m
    <3> HAVE k < l
    <3>1. k \in 1..n
      BY <1>7, <1>14, <1>15
    <3>2. CASE l \in 1..n
      BY <1>7, <1>12, <3>1, <3>2
    <3>3. CASE l = m
      <4>1. q[k] \in 1..h
        BY <1>2, <1>7, <1>11, <3>1
      <4>2. q[k] < i
        BY <4>1
      <4> QED BY <1>7, <3>3, <4>2
    <3> QED BY <1>14, <3>2, <3>3
  <2>4. \A x \in W : \E k \in 1..m : q[k] = x
    <3> TAKE x \in W
    <3>1. CASE x = i
      BY <1>7, <1>15, <3>1
    <3>2. CASE x # i
      <4>1. x \in U /\ lower(x)
        BY <1>1, <3>2
      <4>2. PICK k \in 1..n : s[k] = x
        BY <1>13, <4>1
      <4> QED BY <1>7, <4>2
    <3> QED BY <3>1, <3>2
  <2> QED BY <2>2, <2>3, <2>4 DEF Listed
<1>17. Listed(W, Cardinality(W), InOrder(W)) /\ Cardinality(W) \in Nat
  BY <1>3, InOrderListed
<1>18. q = InOrder(W)
  BY <1>3, <1>7, <1>16, <1>17, ListedOnce
<1> QED BY <1>5, <1>7, <1>18 DEF W, p, U

-----------------------------------------------------------------------------
(* Markdown: sections *)

\* Lines that begin outside fences, and do not leave one in the middle.
Joined(page, x, y) == (Odd(page, x) <=> Odd(page, y - 1)) /\ (Odd(page, x) => y = x + 1)
Fenced(page, lines) ==
    /\ lines # <<>> => ~Odd(page, lines[1] - 1)
    /\ \A k, l \in DOMAIN lines : l = k + 1 => Joined(page, lines[k], lines[l])
Shut(page, lines) == lines # <<>> => ~Odd(page, lines[Len(lines)])

LEMMA FencedJoin ==
    ASSUME NEW page, NEW a \in Seq(Int), NEW b \in Seq(Int), Fenced(page, a), Fenced(page, b), Shut(page, a)
    PROVE  Fenced(page, a \o b) /\ (Shut(page, b) => Shut(page, a \o b))
<1> DEFINE c_ == a \o b
           m == Len(a)
           n == Len(b)
           h == m + n
<1>1. /\ m \in Nat /\ n \in Nat /\ DOMAIN a = 1..m /\ DOMAIN b = 1..n /\ DOMAIN c_ = 1..h /\ c_ \in Seq(Int) /\ Len(c_) = h
      /\ (\A k \in 1..m : c_[k] = a[k]) /\ (\A k \in 1..h : k > m => c_[k] = b[k - m])
  OBVIOUS
<1>2. (a = <<>> <=> m = 0) /\ (b = <<>> <=> n = 0) /\ (c_ = <<>> <=> h = 0)
  BY <1>1
<1> HIDE DEF c_, m, n
<1>3. h \in Nat /\ (m > 0 => 1 \in 1..m /\ m \in 1..m) /\ (n > 0 => 1 \in 1..n /\ n \in 1..n)
  BY <1>1
<1>4. c_ # <<>> => ~Odd(page, c_[1] - 1)
  <2>1. CASE m > 0
    BY <1>1, <1>2, <1>3, <2>1 DEF Fenced
  <2>2. CASE m = 0 /\ n > 0
    <3>1. 1 \in 1..h /\ 1 > m /\ 1 - m = 1
      BY <1>1, <2>2
    <3>2. c_[1] = b[1]
      BY <1>1, <3>1
    <3> QED BY <1>2, <2>2, <3>2 DEF Fenced
  <2> QED BY <1>1, <1>2, <2>1, <2>2
<1>5. ASSUME NEW k \in 1..h, NEW l \in 1..h, l = k + 1 PROVE Joined(page, c_[k], c_[l])
  <2>1. CASE l \in 1..m
    <3>1. k \in 1..m
      BY <1>1, <1>5, <2>1
    <3> QED BY <1>1, <1>5, <2>1, <3>1 DEF Fenced
  <2>2. CASE k > m
    <3>1. k - m \in 1..n /\ l - m \in 1..n /\ l - m = (k - m) + 1 /\ l > m
      BY <1>1, <1>5, <2>2
    <3>2. c_[k] = b[k - m] /\ c_[l] = b[l - m]
      BY <1>1, <2>2, <3>1
    <3> DEFINE x == k - m
               y == l - m
    <3> HIDE DEF x, y
    <3>3. x \in DOMAIN b /\ y \in DOMAIN b /\ y = x + 1
      BY <1>1, <3>1 DEF x, y
    <3>4. Joined(page, b[x], b[y])
      BY <3>3 DEF Fenced
    <3> QED BY <3>2, <3>4 DEF x, y
  <2>3. CASE k = m /\ l = m + 1
    <3>1. m > 0 /\ n > 0 /\ l > m /\ l - m = 1 /\ k \in 1..m
      BY <1>1, <1>5, <2>3
    <3>2. c_[k] = a[m] /\ c_[l] = b[1]
      BY <1>1, <2>3, <3>1
    <3>3. ~Odd(page, a[m]) /\ ~Odd(page, b[1] - 1)
      BY <1>2, <3>1 DEF Shut, Fenced, m
    <3> QED BY <3>2, <3>3 DEF Joined
  <2> QED BY <1>1, <1>5, <2>1, <2>2, <2>3
<1>6. Shut(page, b) => Shut(page, c_)
  <2>1. CASE n = 0
    <3>1. b = <<>>
      BY <1>2, <2>1
    <3>2. c_ = a
      BY <3>1 DEF c_
    <3> QED BY <3>2
  <2>2. CASE n > 0
    <3>1. h \in 1..h /\ h > m /\ h - m = n
      BY <1>1, <2>2
    <3>2. c_[h] = b[n] /\ Len(c_) = h
      BY <1>1, <3>1
    <3>3. b # <<>>
      BY <1>2, <2>2
    <3> QED BY <3>2, <3>3 DEF Shut, n
  <2> QED BY <1>1, <2>1, <2>2
<1>7. Fenced(page, c_)
  BY <1>1, <1>4, <1>5 DEF Fenced
<1> QED BY <1>6, <1>7 DEF c_

LEMMA FencedOne == ASSUME NEW page, NEW h \in Nat, NEW i, i = h + 1, ~Odd(page, h) PROVE Fenced(page, <<i>>)
<1> DEFINE a == <<i>>
<1>1. DOMAIN a = {1} /\ a[1] = i /\ i - 1 = h
  OBVIOUS
<1>2. \A k, l \in DOMAIN a : l # k + 1
  BY <1>1
<1> HIDE DEF a
<1>3. Fenced(page, a)
  BY <1>1, <1>2 DEF Fenced
<1> QED BY <1>3 DEF a

\* The next line.
LEMMA FencedOn ==
    ASSUME NEW page, NEW a \in Seq(Int), Fenced(page, a), NEW h \in Nat, NEW i, i = h + 1,
           a = <<>> => ~Odd(page, h), a # <<>> => a[Len(a)] = h
    PROVE  Fenced(page, Append(a, i))
<1> DEFINE c_ == Append(a, i)
           m == Len(a)
           g == m + 1
<1>1. /\ m \in Nat /\ DOMAIN a = 1..m /\ DOMAIN c_ = 1..g /\ c_[g] = i /\ g \in 1..g /\ i - 1 = h
      /\ (\A k \in 1..m : c_[k] = a[k]) /\ (a = <<>> <=> m = 0)
  OBVIOUS
<1> HIDE DEF c_, m
<1>2. ~Odd(page, c_[1] - 1)
  <2>1. CASE m = 0
    BY <1>1, <2>1
  <2>2. CASE m # 0
    <3>1. 1 \in 1..m
      BY <1>1, <2>2
    <3> QED BY <1>1, <2>2, <3>1 DEF Fenced
  <2> QED BY <2>1, <2>2
<1>3. ASSUME NEW k \in 1..g, NEW l \in 1..g, l = k + 1 PROVE Joined(page, c_[k], c_[l])
  <2>1. CASE l \in 1..m
    <3>1. k \in 1..m
      BY <1>1, <1>3, <2>1
    <3> QED BY <1>1, <1>3, <2>1, <3>1 DEF Fenced
  <2>2. CASE l \notin 1..m
    <3>1. l = g /\ k = m /\ k \in 1..m /\ m # 0
      BY <1>1, <1>3, <2>2
    <3>2. c_[k] = h /\ c_[l] = i
      BY <1>1, <3>1 DEF m
    <3> QED BY <1>1, <3>2 DEF Joined
  <2> QED BY <2>1, <2>2
<1>4. Fenced(page, c_)
  BY <1>1, <1>2, <1>3 DEF Fenced
<1> QED BY <1>4 DEF c_

\* Each line is a heading, under the headings of path, or blank.
Section == [lines : Seq(Int), path : Seq(Int)]
PathWell(page, lines, path) ==
    \A j \in ToSet(lines) : Heading(page, j) \/ (page[j] = "blank" /\ ~Odd(page, j)) \/ path = Above(page, j)
SectionWell(page, s) == s \in Section /\ Fenced(page, s.lines) /\ PathWell(page, s.lines, s.path)
LinesOf(secs) == [k \in DOMAIN secs |-> secs[k].lines]

LEMMA LinesTyped == ASSUME NEW secs \in Seq(Section) PROVE LinesOf(secs) \in Seq(Seq(Int)) /\ DOMAIN LinesOf(secs) = DOMAIN secs
<1> DEFINE n == Len(secs)
<1>1. n \in Nat /\ DOMAIN secs = 1..n /\ \A k \in 1..n : secs[k] \in Section
  OBVIOUS
<1> HIDE DEF n
<1>2. LinesOf(secs) \in [1..n -> Seq(Int)]
  BY <1>1 DEF LinesOf, Section
<1> QED BY <1>1, <1>2

LEMMA LinesAppend ==
    ASSUME NEW secs \in Seq(Section), NEW s \in Section
    PROVE  LinesOf(Append(secs, s)) = Append(LinesOf(secs), s.lines) /\ Append(secs, s) \in Seq(Section)
<1> DEFINE n == Len(secs)
           b == Append(secs, s)
           a == LinesOf(secs)
           h == n + 1
<1>1. n \in Nat /\ DOMAIN secs = 1..n /\ b \in Seq(Section) /\ DOMAIN b = 1..h /\ b[h] = s /\ \A k \in 1..n : b[k] = secs[k]
  OBVIOUS
<1>2. a \in Seq(Seq(Int)) /\ DOMAIN a = 1..n /\ \A k \in 1..n : a[k] = secs[k].lines
  BY <1>1, LinesTyped DEF LinesOf
<1> HIDE DEF a, b, n
<1>3. Len(a) = n
  BY <1>1, <1>2
<1>4. DOMAIN Append(a, s.lines) = 1..h /\ Append(a, s.lines)[h] = s.lines
      /\ \A k \in 1..n : Append(a, s.lines)[k] = a[k]
  BY <1>2, <1>3
<1>5. \A k \in 1..h : k \in 1..n \/ k = h
  BY <1>1
<1>6. \A k \in 1..h : b[k].lines = Append(a, s.lines)[k]
  BY <1>1, <1>2, <1>4, <1>5
<1>7. Append(a, s.lines) = [k \in 1..h |-> Append(a, s.lines)[k]]
  BY <1>1, <1>2, <1>3, <1>4
<1>8. LinesOf(b) = [k \in 1..h |-> b[k].lines]
  BY <1>1 DEF LinesOf
<1> HIDE DEF h
<1>9. LinesOf(b) = Append(a, s.lines)
  BY <1>6, <1>7, <1>8
<1> QED BY <1>1, <1>9 DEF a, b

\* What has been read up to line i, and what the sections are at its end.
Reads == [done : Seq(Section), lines : Seq(Int), path : Seq(Int)]
Placed(page, i, S) == S \subseteq 1..i /\ \A j \in 1..i : page[j] = "blank" \/ j \in S
ReadLines(page, i, lines, path) ==
    /\ Upward(lines) /\ ToSet(lines) \subseteq 1..i /\ (i # 0 => lines # <<>>) /\ (lines # <<>> => lines[Len(lines)] = i)
    /\ Fenced(page, lines) /\ PathWell(page, lines, path) /\ path = InOrder(Upper(page, i))
ReadDone(page, i, done, lines) ==
    /\ Ranked(HeldBy(LinesOf(done)), LinesOf(done))
    /\ \A x \in HeldBy(LinesOf(done)), y \in ToSet(lines) : x < y
    /\ Placed(page, i, HeldBy(LinesOf(done)) \cup ToSet(lines))
    /\ \A k \in DOMAIN done : SectionWell(page, done[k]) /\ Shut(page, done[k].lines)
Reading(page, i, acc) ==
    acc \in Reads /\ ReadLines(page, i, acc.lines, acc.path) /\ ReadDone(page, i, acc.done, acc.lines)

Ended(page, i, e) ==
    /\ e \in Seq(Section) /\ Ranked(HeldBy(LinesOf(e)), LinesOf(e)) /\ Placed(page, i, HeldBy(LinesOf(e)))
    /\ \A k \in DOMAIN e : SectionWell(page, e[k]) /\ (k # Len(e) \/ ~Odd(page, i) => Shut(page, e[k].lines))

LEMMA NoInk == ASSUME NEW page, NEW lines \in Seq(Int), InkedLines(page, lines) = <<>> PROVE \A j \in ToSet(lines) : page[j] = "blank"
<1> DEFINE I == {k \in DOMAIN lines : page[lines[k]] # "blank"}
           t == Sift(lines, I)
<1>1. t = <<>>
  BY DEF InkedLines
<1>2. Len(t) = 0
  BY <1>1
<1>3. Places(Sifted(lines, I), Len(t), I \cap DOMAIN lines)
  <2> HIDE DEF I
  <2> QED BY SiftWell
<1> HIDE DEF t
<1>4. \A x \in I \cap DOMAIN lines : FALSE
  BY <1>2, <1>3 DEF Places
<1> QED BY <1>4 DEF ToSet

LEMMA EndWell ==
    ASSUME NEW page, NEW i \in Nat, NEW acc, Reading(page, i, acc)
    PROVE  Ended(page, i, EndSection(page, acc))
<1> DEFINE e == EndSection(page, acc)
           done == acc.done
           lines == acc.lines
           s == [lines |-> acc.lines, path |-> acc.path]
           S == HeldBy(LinesOf(done))
<1>1. done \in Seq(Section) /\ lines \in Seq(Int) /\ s \in Section
  BY DEF Reading, Reads, Section
<1>2. /\ Upward(lines) /\ ToSet(lines) \subseteq 1..i /\ (lines # <<>> => lines[Len(lines)] = i)
      /\ Fenced(page, lines) /\ PathWell(page, lines, s.path) /\ s.lines = lines
  BY DEF Reading, ReadLines
<1>3. /\ Ranked(S, LinesOf(done)) /\ \A x \in S, y \in ToSet(lines) : x < y
      /\ Placed(page, i, S \cup ToSet(lines))
      /\ \A k \in DOMAIN done : SectionWell(page, done[k]) /\ Shut(page, done[k].lines)
  BY DEF Reading, ReadDone
<1>4. e = IF InkedLines(page, lines) = <<>> THEN done ELSE Append(done, s)
  BY DEF EndSection
<1> HIDE DEF e, done, lines, s
<1>5. CASE InkedLines(page, lines) = <<>>
  <2>1. \A j \in ToSet(lines) : page[j] = "blank"
    BY <1>1, <1>5, NoInk
  <2>2. Placed(page, i, S)
    BY <1>3, <2>1 DEF Placed
  <2> QED BY <1>1, <1>3, <1>4, <1>5, <2>2 DEF Ended, e
<1>6. CASE InkedLines(page, lines) # <<>>
  <2>1. e = Append(done, s) /\ e \in Seq(Section) /\ LinesOf(e) = Append(LinesOf(done), lines)
    BY <1>1, <1>2, <1>4, <1>6, LinesAppend
  <2> DEFINE U == S \cup ToSet(lines)
  <2> HIDE DEF S
  <2>2. Ranked(U, LinesOf(e))
    BY <1>1, <1>2, <1>3, <2>1, RankedMore
  <2>3. U = HeldBy(LinesOf(e))
    BY <2>2 DEF Ranked
  <2>4. SectionWell(page, s)
    BY <1>1, <1>2 DEF SectionWell
  <2>5. ~Odd(page, i) => Shut(page, lines)
    BY <1>2 DEF Shut
  <2> DEFINE n == Len(done)
             h == n + 1
  <2>6. n \in Nat /\ DOMAIN done = 1..n /\ DOMAIN e = 1..h /\ Len(e) = h /\ e[h] = s /\ \A k \in 1..n : e[k] = done[k]
    BY <1>1, <2>1
  <2>7. \A k \in 1..h : k \in 1..n \/ k = h
    BY <2>6
  <2> HIDE DEF n, h
  <2>8. \A k \in DOMAIN e : SectionWell(page, e[k]) /\ (k # Len(e) \/ ~Odd(page, i) => Shut(page, e[k].lines))
    BY <1>2, <1>3, <2>4, <2>5, <2>6, <2>7
  <2> QED BY <1>3, <2>1, <2>2, <2>3, <2>8 DEF Ended, e
<1> QED BY <1>5, <1>6

LEMMA AppendOne ==
    ASSUME NEW a \in Seq(Int), Upward(a), NEW i \in Int, \A x \in ToSet(a) : x < i
    PROVE  Append(a, i) \in Seq(Int) /\ Upward(Append(a, i)) /\ ToSet(Append(a, i)) = ToSet(a) \cup {i}
           /\ Append(a, i) = a \o <<i>> /\ Append(a, i) # <<>> /\ Append(a, i)[Len(Append(a, i))] = i
<1> DEFINE u == <<i>>
<1>1. u \in Seq(Int) /\ DOMAIN u = {1} /\ u[1] = i
  OBVIOUS
<1>2. Append(a, i) = a \o u /\ Append(a, i) \in Seq(Int) /\ Append(a, i) # <<>> /\ Append(a, i)[Len(Append(a, i))] = i
  <2> DEFINE b == Append(a, i)
             h == Len(a) + 1
  <2>1. b = a \o u
    OBVIOUS
  <2>2. b \in Seq(Int) /\ Len(b) = h /\ b # <<>> /\ b[h] = i
    OBVIOUS
  <2> HIDE DEF b, u, h
  <2>3. b = a \o u /\ b \in Seq(Int) /\ b # <<>> /\ b[Len(b)] = i
    BY <2>1, <2>2
  <2> QED BY <2>3 DEF b
<1> HIDE DEF u
<1>3. Upward(u) /\ ToSet(u) = {i}
  BY <1>1 DEF Upward, ToSet
<1>4. Grown(a \o u, a, u)
  BY <1>1, <1>3, GrowsWell
<1> QED BY <1>2, <1>3, <1>4 DEF Grown, u

LEMMA OneLine == ASSUME NEW i \in Int PROVE <<i>> \in Seq(Int) /\ Upward(<<i>>) /\ ToSet(<<i>>) = {i} /\ <<i>> # <<>> /\ <<i>>[Len(<<i>>)] = i
<1> DEFINE u == <<i>>
<1>1. u \in Seq(Int) /\ DOMAIN u = {1} /\ u[1] = i /\ u # <<>> /\ Len(u) = 1
  OBVIOUS
<1> HIDE DEF u
<1>2. Upward(u) /\ ToSet(u) = {i}
  BY <1>1 DEF Upward, ToSet
<1> QED BY <1>1, <1>2 DEF u

LEMMA AddLineWell ==
    ASSUME NEW page, NEW h \in Nat, NEW i, i = h + 1, NEW acc, Reading(page, h, acc)
    PROVE  Reading(page, i, AddLine(page, acc, i))
<1> DEFINE done == acc.done
           lines == acc.lines
           path == acc.path
           next == AddLine(page, acc, i)
<1>1. acc \in Reads /\ done \in Seq(Section) /\ lines \in Seq(Int) /\ path \in Seq(Int)
  BY DEF Reading, Reads
<1>2. /\ Upward(lines) /\ ToSet(lines) \subseteq 1..h /\ (h # 0 => lines # <<>>) /\ (lines # <<>> => lines[Len(lines)] = h)
      /\ Fenced(page, lines) /\ PathWell(page, lines, path) /\ path = InOrder(Upper(page, h))
  BY DEF Reading, ReadLines
<1>3. i \in Nat /\ i # 0 /\ i \in Int /\ 1..i = (1..h) \cup {i} /\ (\A x \in 1..h : x < i) /\ i \in 1..i
  OBVIOUS
<1>4. CASE Heading(page, i)
  <2> DEFINE e == EndSection(page, acc)
             one == <<i>>
             way == PathTo(page, path, i)
  <2>1. next = [done |-> e, lines |-> one, path |-> way]
    BY <1>4 DEF AddLine
  <2>2. ~Odd(page, h)
    BY <1>4, HeadingOutside
  <2>3. Ended(page, h, e)
    BY EndWell
  <2>4. way = InOrder(Upper(page, i))
    BY <1>2, <1>4, PathGoes
  <2>5. way \in Seq(Int)
    BY <1>3, <2>4, UpperSome, InOrderListed
  <2>6. one \in Seq(Int) /\ Upward(one) /\ ToSet(one) = {i} /\ one # <<>> /\ one[Len(one)] = i
    BY <1>3, OneLine
  <2>7. Fenced(page, one)
    BY <2>2, FencedOne
  <2> HIDE DEF e, one, way, next, done, lines, path
  <2>8. PathWell(page, one, way)
    BY <1>4, <2>6 DEF PathWell
  <2>9. ReadLines(page, i, one, way)
    BY <1>3, <2>4, <2>6, <2>7, <2>8 DEF ReadLines
  <2> DEFINE S == HeldBy(LinesOf(e))
  <2>10. e \in Seq(Section) /\ Ranked(S, LinesOf(e)) /\ Placed(page, h, S)
         /\ \A k \in DOMAIN e : SectionWell(page, e[k]) /\ Shut(page, e[k].lines)
    BY <2>2, <2>3 DEF Ended
  <2> HIDE DEF S
  <2>11. (\A x \in S, y \in ToSet(one) : x < y) /\ Placed(page, i, S \cup ToSet(one))
    BY <1>3, <2>6, <2>10 DEF Placed
  <2>12. ReadDone(page, i, e, one)
    BY <2>10, <2>11 DEF ReadDone, S
  <2>13. next \in Reads /\ next.done = e /\ next.lines = one /\ next.path = way
    BY <2>1, <2>5, <2>6, <2>10 DEF Reads
  <2> QED BY <2>9, <2>12, <2>13 DEF Reading, next
<1>5. CASE ~Heading(page, i)
  <2> DEFINE more == Append(lines, i)
             S == HeldBy(LinesOf(done))
  <2>1. next = [acc EXCEPT !.lines = more]
    BY <1>5 DEF AddLine
  <2>2. next \in Reads /\ next.done = done /\ next.lines = more /\ next.path = path
    <3>1. more \in Seq(Int)
      BY <1>1, <1>3
    <3> HIDE DEF more, next
    <3> QED BY <1>1, <2>1, <3>1 DEF Reads
  <2>3. \A x \in ToSet(lines) : x < i
    BY <1>2, <1>3
  <2>4. Upward(more) /\ ToSet(more) = ToSet(lines) \cup {i} /\ more # <<>> /\ more[Len(more)] = i
    BY <1>1, <1>2, <1>3, <2>3, AppendOne
  <2>5. Upper(page, i) = Upper(page, h) /\ Above(page, i) = InOrder(Upper(page, h))
    BY <1>5, PathStays
  <2>6. lines = <<>> => ~Odd(page, h)
    BY <1>2, OddNone
  <2>7. Fenced(page, more)
    BY <1>1, <1>2, <2>6, FencedOn
  <2>8. /\ Ranked(S, LinesOf(done)) /\ \A x \in S, y \in ToSet(lines) : x < y
        /\ Placed(page, h, S \cup ToSet(lines))
        /\ \A k \in DOMAIN done : SectionWell(page, done[k]) /\ Shut(page, done[k].lines)
    BY DEF Reading, ReadDone
  <2> HIDE DEF more, next, done, lines, path
  <2>9. PathWell(page, more, path)
    BY <1>2, <2>4, <2>5 DEF PathWell
  <2>10. ReadLines(page, i, more, path)
    BY <1>2, <1>3, <2>4, <2>5, <2>7, <2>9 DEF ReadLines
  <2> HIDE DEF S
  <2>11. (\A x \in S, y \in ToSet(more) : x < y) /\ Placed(page, i, S \cup ToSet(more))
    BY <1>3, <2>4, <2>8 DEF Placed
  <2>12. ReadDone(page, i, done, more)
    BY <2>8, <2>11 DEF ReadDone, S
  <2> QED BY <2>2, <2>10, <2>12 DEF Reading, next
<1> QED BY <1>4, <1>5

NoRead == [done |-> <<>>, lines |-> <<>>, path |-> <<>>]
LEMMA NoReadWell == ASSUME NEW page PROVE Reading(page, 0, NoRead)
<1> DEFINE e == <<>>
           none == 0
<1>1. e \in Seq(Section) /\ e \in Seq(Int) /\ e \in Seq(Seq(Int)) /\ DOMAIN e = {} /\ e = <<>>
  OBVIOUS
<1>2. NoRead = [done |-> e, lines |-> e, path |-> e]
  BY DEF NoRead
<1>3. InOrder(Upper(page, none)) = e
  BY PathNone
<1>4. 1..none = {}
  OBVIOUS
<1>5. none \in Nat /\ none = 0
  OBVIOUS
<1> HIDE DEF e, none
<1>6. NoRead \in Reads /\ NoRead.done = e /\ NoRead.lines = e /\ NoRead.path = e
  BY <1>1, <1>2 DEF Reads
<1>7. Upward(e) /\ ToSet(e) = {}
  BY <1>1 DEF Upward, ToSet
<1>8. Fenced(page, e) /\ PathWell(page, e, e)
  BY <1>1, <1>7 DEF Fenced, PathWell
<1>9. ReadLines(page, none, e, e)
  BY <1>1, <1>3, <1>5, <1>7, <1>8 DEF ReadLines
<1>10. LinesOf(e) \in Seq(Seq(Int)) /\ DOMAIN LinesOf(e) = {}
  BY <1>1, LinesTyped
<1> DEFINE a == LinesOf(e)
<1> HIDE DEF a
<1>11. HeldBy(a) = {} /\ Ranked({}, a)
  <2>1. a \in Seq(Seq(Int)) /\ DOMAIN a = {}
    BY <1>10 DEF a
  <2>2. HeldBy(a) = {}
    BY <2>1 DEF HeldBy
  <2> QED BY <2>1, <2>2 DEF Ranked
<1>12. ReadDone(page, none, e, e)
  BY <1>1, <1>4, <1>7, <1>11 DEF ReadDone, Placed, a
<1> QED BY <1>5, <1>6, <1>9, <1>12 DEF Reading

LEMMA SectionsWell ==
    ASSUME NEW page \in Seq(Lines)
    PROVE  Ended(page, Len(page), Sections(page))
<1> DEFINE n == Len(page)
           read[i \in 0..Len(page)] ==
               IF i = 0 THEN [done |-> <<>>, lines |-> <<>>, path |-> <<>>] ELSE AddLine(page, read[i - 1], i)
           step == [q \in (1..n) \X Reads |->
                      IF AddLine(page, q[2], q[1]) \in Reads THEN AddLine(page, q[2], q[1]) ELSE q[2]]
           I == [k \in 0..n |-> {x \in Reads : Reading(page, k, x)}]
<1>1. n \in Nat
  OBVIOUS
<1>2. Sections(page) = EndSection(page, read[n])
  BY DEF Sections
<1> HIDE DEF n
<1>3. NoRead \in Reads /\ NoRead \in I[0]
  <2>1. 0 \in 0..n
    BY <1>1
  <2>2. Reading(page, 0, NoRead)
    BY NoReadWell
  <2> QED BY <2>1, <2>2 DEF Reading
<1>4. step \in [(1..n) \X Reads -> Reads]
  OBVIOUS
<1>5. ASSUME NEW h \in 0..(n - 1), NEW x, Reading(page, h, x)
      PROVE  Reading(page, h + 1, AddLine(page, x, h + 1))
  <2>1. h \in Nat
    BY <1>1
  <2> QED BY <1>5, <2>1, AddLineWell
<1>6. ASSUME NEW h \in 0..(n - 1), NEW x \in Reads, x \in I[h] PROVE step[<<h + 1, x>>] \in I[h + 1]
  <2>1. h \in 0..n /\ h + 1 \in 0..n /\ h + 1 \in 1..n
    BY <1>1
  <2>2. Reading(page, h, x)
    BY <1>6, <2>1
  <2>3. Reading(page, h + 1, AddLine(page, x, h + 1))
    BY <1>5, <2>2
  <2> DEFINE k == h + 1
  <2> HIDE DEF k
  <2>4. k \in 0..n /\ k \in 1..n /\ Reading(page, k, AddLine(page, x, k))
    BY <2>1, <2>3 DEF k
  <2>5. AddLine(page, x, k) \in Reads
    BY <2>4 DEF Reading
  <2>6. step[<<k, x>>] = AddLine(page, x, k)
    BY <2>4, <2>5
  <2>7. step[<<k, x>>] \in I[k]
    BY <2>4, <2>5, <2>6
  <2> QED BY <2>7 DEF k
<1>7. \E g \in [0..n -> Reads] : BuiltBy(g, NoRead, step, n) /\ \A k \in 0..n : g[k] \in I[k]
  <2> HIDE DEF step, I, read
  <2> QED BY <1>1, <1>3, <1>4, <1>6, StepsKeep
<1>8. PICK g \in [0..n -> Reads] : BuiltBy(g, NoRead, step, n) /\ \A k \in 0..n : g[k] \in I[k]
  BY <1>7
<1>9. ASSUME NEW k \in 1..n PROVE g[k] = AddLine(page, g[k - 1], k)
  <2> DEFINE h == k - 1
  <2>1. h \in 0..(n - 1) /\ h \in 0..n /\ k = h + 1
    BY <1>1
  <2> HIDE DEF h
  <2>2. g[h] \in Reads /\ Reading(page, h, g[h])
    BY <1>8, <2>1
  <2>3. Reading(page, h + 1, AddLine(page, g[h], h + 1))
    BY <1>5, <2>1, <2>2
  <2>4. AddLine(page, g[h], k) \in Reads
    BY <2>1, <2>3 DEF Reading
  <2>5. step[<<k, g[h]>>] = AddLine(page, g[h], k)
    BY <2>2, <2>4
  <2>6. g[k] = step[<<k, g[k - 1]>>]
    BY <1>8 DEF BuiltBy
  <2> QED BY <2>5, <2>6 DEF h
<1> HIDE DEF step
<1>10. g = [k \in 0..n |-> IF k = 0 THEN NoRead ELSE AddLine(page, g[k - 1], k)]
  <2>1. \A k \in 0..n : g[k] = IF k = 0 THEN NoRead ELSE AddLine(page, g[k - 1], k)
    BY <1>8, <1>9 DEF BuiltBy
  <2> QED BY <1>8, <2>1
<1>11. read = [k \in 0..n |-> IF k = 0 THEN NoRead ELSE AddLine(page, read[k - 1], k)]
  BY <1>10 DEF NoRead, n
<1> HIDE DEF read, I
<1> DEFINE T == {k \in Nat : Reading(page, k, read[k])}
<1>12. 0 \in T
  <2>1. 0 \in 0..n
    BY <1>1
  <2>2. read[0] = NoRead
    BY <1>11, <2>1
  <2> QED BY <2>2, NoReadWell
<1>13. ASSUME NEW k \in 0..n, k \in T, k + 1 <= n PROVE k + 1 \in T
  <2> DEFINE h == k + 1
  <2>1. h \in 0..n /\ h # 0 /\ h - 1 = k /\ h \in Nat /\ k \in Nat /\ h = k + 1
    BY <1>1, <1>13
  <2> HIDE DEF h
  <2>2. read[h] = AddLine(page, read[k], h)
    BY <1>11, <2>1
  <2>3. Reading(page, k, read[k])
    BY <1>13
  <2>4. Reading(page, h, read[h])
    BY <2>1, <2>2, <2>3, AddLineWell
  <2> QED BY <2>1, <2>4 DEF h
<1>14. \A k \in 0..n : k \in T
  <2> HIDE DEF T
  <2> QED BY <1>1, <1>12, <1>13, Along
<1>15. Reading(page, n, read[n])
  BY <1>1, <1>14
<1>16. Ended(page, n, EndSection(page, read[n]))
  BY <1>1, <1>15, EndWell
<1> QED BY <1>2, <1>16 DEF n

-----------------------------------------------------------------------------
(* Markdown: sections without lone headings *)

LEMMA ToSetJoin ==
    ASSUME NEW a \in Seq(Int), NEW b \in Seq(Int)
    PROVE  a \o b \in Seq(Int) /\ ToSet(a \o b) = ToSet(a) \cup ToSet(b)
<1> DEFINE c_ == a \o b
           m == Len(a)
           n == Len(b)
           h == m + n
<1>1. /\ m \in Nat /\ n \in Nat /\ DOMAIN a = 1..m /\ DOMAIN b = 1..n /\ DOMAIN c_ = 1..h /\ c_ \in Seq(Int)
      /\ (\A k \in 1..m : k \in 1..h /\ c_[k] = a[k]) /\ (\A k \in 1..n : k + m \in 1..h /\ c_[k + m] = b[k])
      /\ (\A k \in 1..h : k \in 1..m \/ (k - m \in 1..n /\ c_[k] = b[k - m]))
  OBVIOUS
<1> HIDE DEF c_, m, n, h
<1>2. ToSet(c_) \subseteq ToSet(a) \cup ToSet(b)
  BY <1>1 DEF ToSet
<1>3. ToSet(a) \subseteq ToSet(c_)
  BY <1>1 DEF ToSet
<1>4. ASSUME NEW i \in ToSet(b) PROVE i \in ToSet(c_)
  <2>1. PICK k \in 1..n : i = b[k]
    BY <1>1 DEF ToSet
  <2>2. k + m \in DOMAIN c_ /\ c_[k + m] = i
    BY <1>1, <2>1
  <2> QED BY <2>2 DEF ToSet
<1> QED BY <1>1, <1>2, <1>3, <1>4 DEF c_

LEMMA LastOff ==
    ASSUME NEW V, NEW s \in Seq(V), s # <<>>
    PROVE  Front(s) \in Seq(V) /\ Last(s) \in V /\ Last(s) = s[Len(s)] /\ s = Append(Front(s), Last(s)) /\ Len(Front(s)) + 1 = Len(s)
<1> DEFINE n == Len(s)
           f == SubSeq(s, 1, n - 1)
           x == s[n]
<1>1. n \in Nat \ {0} /\ DOMAIN s = 1..n /\ x \in V
  OBVIOUS
<1>2. f \in Seq(V) /\ Len(f) = n - 1 /\ \A k \in 1..(n - 1) : f[k] = s[k]
  BY <1>1
<1>3. Front(s) = f /\ Last(s) = x
  BY DEF Front, Last
<1> HIDE DEF f, x, n
<1> DEFINE b == Append(f, x)
<1>4. b \in Seq(V) /\ Len(b) = n /\ DOMAIN b = 1..n /\ b[n] = x /\ \A k \in 1..(n - 1) : b[k] = f[k]
  BY <1>1, <1>2
<1> HIDE DEF b
<1>5. \A k \in 1..n : b[k] = s[k]
  <2>1. \A k \in 1..n : k \in 1..(n - 1) \/ k = n
    BY <1>1
  <2> QED BY <1>2, <1>4, <2>1 DEF x
<1>6. b = s
  BY <1>1, <1>4, <1>5 DEF n
<1>7. Last(s) = s[Len(s)]
  BY DEF Last
<1>8. Len(Front(s)) + 1 = n
  BY <1>1, <1>2, <1>3
<1> QED BY <1>1, <1>2, <1>3, <1>6, <1>7, <1>8 DEF b, n

\* Lines that are headings or blank.
Idle(page, lines) ==
    /\ Fenced(page, lines) /\ Shut(page, lines)
    /\ \A j \in ToSet(lines) : Heading(page, j) \/ (page[j] = "blank" /\ ~Odd(page, j))

LEMMA IdleNothing == ASSUME NEW page PROVE Idle(page, <<>>)
<1> DEFINE e == <<>>
<1>1. DOMAIN e = {} /\ ToSet(e) = {} /\ e = <<>>
  BY DEF ToSet
<1> HIDE DEF e
<1>2. Idle(page, e)
  BY <1>1 DEF Idle, Fenced, Shut
<1> QED BY <1>2 DEF e

LEMMA IdleJoin ==
    ASSUME NEW page, NEW a \in Seq(Int), NEW b \in Seq(Int), Idle(page, a), Idle(page, b)
    PROVE  Idle(page, a \o b)
<1>1. Fenced(page, a \o b) /\ Shut(page, a \o b)
  BY FencedJoin DEF Idle
<1>2. ToSet(a \o b) = ToSet(a) \cup ToSet(b)
  BY ToSetJoin
<1> QED BY <1>1, <1>2 DEF Idle

LEMMA LoneIsIdle ==
    ASSUME NEW page, NEW s, SectionWell(page, s), ToSet(s.lines) \subseteq Nat \ {0}, LoneHeading(page, s)
    PROVE  Idle(page, s.lines)
<1> DEFINE lines == s.lines
           I == {k \in DOMAIN lines : page[lines[k]] # "blank"}
           ink == InkedLines(page, lines)
           at == Sifted(lines, I)
<1>1. lines \in Seq(Int) /\ Fenced(page, lines) /\ DOMAIN lines \subseteq Nat \ {0}
  BY DEF SectionWell, Section
<1>2. ink = Sift(lines, I) /\ Len(ink) = 1 /\ Heading(page, ink[1])
  BY DEF InkedLines, LoneHeading
<1>3. Places(at, Len(ink), I \cap DOMAIN lines) /\ SiftedBy(lines, I, ink, at)
  <2> HIDE DEF I, lines, ink
  <2> QED BY <1>1, <1>2, SiftWell
<1>4. \A k \in DOMAIN lines : lines[k] \in Nat \ {0}
  BY DEF ToSet
<1> HIDE DEF at, ink, lines
<1>5. ASSUME NEW k \in DOMAIN lines, page[lines[k]] # "blank" PROVE Heading(page, lines[k])
  <2>1. k \in I \cap DOMAIN lines
    BY <1>5
  <2>2. PICK x \in 1..1 : at[x] = k
    BY <1>2, <1>3, <2>1 DEF Places
  <2>3. x = 1 /\ ink[x] = lines[k]
    BY <1>2, <1>3, <2>2 DEF SiftedBy
  <2> QED BY <1>2, <2>3
<1> DEFINE N == {k \in DOMAIN lines : Odd(page, lines[k])}
<1>6. N = {}
  <2> SUFFICES ASSUME N # {} PROVE FALSE
    OBVIOUS
  <2>1. N \subseteq Nat
    BY <1>1
  <2>2. PICK m \in N : \A x \in N : m <= x
    <3> HIDE DEF N
    <3> QED BY <2>1, LeastThereIs
  <2> DEFINE i == lines[m]
             h == i - 1
  <2>3. m \in DOMAIN lines /\ Odd(page, i) /\ i \in Nat \ {0} /\ m \in Nat \ {0}
    BY <1>1, <1>4
  <2> HIDE DEF i
  <2>4. h \in Nat /\ i = h + 1
    BY <2>3
  <2>5. page[i] # "fence"
    <3>1. page[i] # "blank" => page[i] \in {"h1", "h2"}
      BY <1>5, <2>3 DEF Heading, IsHeading, i
    <3> QED BY <3>1
  <2>6. Odd(page, h)
    <3> HIDE DEF h
    <3> QED BY <2>3, <2>4, <2>5, OddStep
  <2>7. CASE m = 1
    <3>1. lines # <<>>
      BY <2>3
    <3> QED BY <1>1, <2>6, <2>7, <3>1 DEF Fenced, i
  <2>8. CASE m # 1
    <3> DEFINE l == m - 1
    <3>1. l \in DOMAIN lines /\ m = l + 1 /\ l < m
      BY <1>1, <2>3, <2>8
    <3> HIDE DEF l
    <3>2. Joined(page, lines[l], lines[m])
      BY <1>1, <2>3, <3>1 DEF Fenced
    <3>3. Odd(page, lines[l])
      BY <2>6, <3>2 DEF Joined, i
    <3>4. l \in N
      BY <3>1, <3>3
    <3>5. m <= l
      BY <2>2, <3>4
    <3> QED BY <2>3, <3>1, <3>5, <2>1, <3>4
  <2> QED BY <2>7, <2>8
<1>7. \A k \in DOMAIN lines : ~Odd(page, lines[k])
  BY <1>6
<1> HIDE DEF N, I
<1>8. Shut(page, lines)
  <2>1. lines # <<>> => Len(lines) \in DOMAIN lines
    BY <1>1
  <2> QED BY <1>7, <2>1 DEF Shut
<1>9. \A j \in ToSet(lines) : \E k \in DOMAIN lines : j = lines[k]
  BY DEF ToSet
<1>10. \A j \in ToSet(lines) : Heading(page, j) \/ (page[j] = "blank" /\ ~Odd(page, j))
  BY <1>5, <1>7, <1>9
<1> QED BY <1>1, <1>8, <1>10 DEF Idle, lines

\* The numbers of the first k pieces.
Before(a, k) == UNION {ToSet(a[x]) : x \in 1..k}
LEMMA BeforeMore ==
    ASSUME NEW S, NEW a, Ranked(S, a), NEW k \in Nat, NEW h, h = k + 1, h \in DOMAIN a
    PROVE  /\ Before(a, h) = Before(a, k) \cup ToSet(a[h]) /\ \A i \in Before(a, k), j \in ToSet(a[h]) : i < j
           /\ a[h] \in Seq(Int) /\ Upward(a[h])
<1>1. 1..h = (1..k) \cup {h}
  OBVIOUS
<1>2. Before(a, h) = Before(a, k) \cup ToSet(a[h])
  BY <1>1 DEF Before
<1>3. a \in Seq(Seq(Int)) /\ DOMAIN a = 1..Len(a) /\ Len(a) \in Nat
  BY DEF Ranked
<1>4. \A x \in 1..k : x \in DOMAIN a /\ x < h
  BY <1>3
<1>5. ASSUME NEW i \in Before(a, k), NEW j \in ToSet(a[h]) PROVE i < j
  <2>1. PICK x \in 1..k : i \in ToSet(a[x])
    BY DEF Before
  <2> QED BY <1>4, <2>1 DEF Ranked
<1>6. a[h] \in Seq(Int) /\ Upward(a[h])
  <2>1. Upward(a[h])
    BY DEF Ranked
  <2>2. a[h] \in Seq(Int)
    BY <1>3
  <2> QED BY <2>1, <2>2
<1> QED BY <1>2, <1>5, <1>6

LEMMA BeforeAll == ASSUME NEW a \in Seq(Seq(Int)) PROVE Before(a, Len(a)) = HeldBy(a) /\ Before(a, 0) = {}
<1>1. DOMAIN a = 1..Len(a)
  OBVIOUS
<1>2. 1..0 = {}
  OBVIOUS
<1> QED BY <1>1, <1>2 DEF Before, HeldBy

Merges == [done : Seq(Section), waiting : Seq(Int)]
Merging(page, secs, k, acc) ==
    /\ acc \in Merges /\ Idle(page, acc.waiting)
    /\ Ranked(Before(LinesOf(secs), k), Append(LinesOf(acc.done), acc.waiting))
    /\ \A x \in DOMAIN acc.done :
          SectionWell(page, acc.done[x]) /\ (k # Len(secs) \/ acc.waiting # <<>> => Shut(page, acc.done[x].lines))

LEMMA IdlePath == ASSUME NEW page, NEW lines, Idle(page, lines), NEW path PROVE PathWell(page, lines, path)
BY DEF Idle, PathWell

\* Lines that wait go ahead of those of a section.
LEMMA SectionGrows ==
    ASSUME NEW page, NEW s, SectionWell(page, s), NEW w \in Seq(Int), Idle(page, w), NEW b, b = [s EXCEPT !.lines = w \o @]
    PROVE  b \in Section /\ SectionWell(page, b) /\ b.lines = w \o s.lines /\ (Shut(page, s.lines) => Shut(page, b.lines))
<1>1. s \in Section /\ s.lines \in Seq(Int) /\ Fenced(page, s.lines) /\ PathWell(page, s.lines, s.path)
  BY DEF SectionWell, Section
<1> DEFINE c_ == w \o s.lines
<1>2. c_ \in Seq(Int) /\ ToSet(c_) = ToSet(w) \cup ToSet(s.lines)
  BY <1>1, ToSetJoin
<1>3. Fenced(page, c_) /\ (Shut(page, s.lines) => Shut(page, c_))
  BY <1>1, FencedJoin DEF Idle
<1>4. b = [s EXCEPT !.lines = c_]
  OBVIOUS
<1> HIDE DEF c_
<1>5. b \in Section /\ b.lines = c_ /\ b.path = s.path
  BY <1>1, <1>2, <1>4 DEF Section
<1>6. PathWell(page, w, s.path)
  BY IdlePath
<1>7. PathWell(page, c_, s.path)
  BY <1>1, <1>2, <1>6 DEF PathWell
<1> QED BY <1>3, <1>5, <1>7 DEF SectionWell, c_

LEMMA MergeWell ==
    ASSUME NEW page, NEW n \in Nat, NEW secs, Ended(page, n, secs), NEW k \in Nat, NEW h, h = k + 1, h \in DOMAIN secs,
           NEW acc, Merging(page, secs, k, acc)
    PROVE  Merging(page, secs, h, MergeSection(page, acc, secs[h]))
<1> DEFINE s == secs[h]
           done == acc.done
           w == acc.waiting
           a == LinesOf(secs)
           out == LinesOf(done)
           next == MergeSection(page, acc, s)
           S == Before(a, k)
           U == Before(a, h)
           more == w \o s.lines
<1>1. acc \in Merges /\ done \in Seq(Section) /\ w \in Seq(Int) /\ Idle(page, w)
  BY DEF Merging, Merges
<1>2. Ranked(S, Append(out, w))
  BY DEF Merging
<1>3. secs \in Seq(Section) /\ Ranked(HeldBy(a), a) /\ Placed(page, n, HeldBy(a)) /\ SectionWell(page, s)
      /\ (h # Len(secs) => Shut(page, s.lines))
  BY DEF Ended
<1>4. DOMAIN a = DOMAIN secs /\ a[h] = s.lines /\ out \in Seq(Seq(Int))
  BY <1>1, <1>3, LinesTyped DEF LinesOf
<1>5. k < Len(secs) /\ k # Len(secs)
  BY <1>3
<1>6. \A x \in DOMAIN done : SectionWell(page, done[x]) /\ Shut(page, done[x].lines)
  BY <1>5 DEF Merging
<1>7. ToSet(s.lines) \subseteq Nat \ {0}
  <2>1. ToSet(s.lines) \subseteq 1..n
    BY <1>3, <1>4, HeldIn DEF Placed
  <2>2. 1..n \subseteq Nat \ {0}
    OBVIOUS
  <2> QED BY <2>1, <2>2
<1>8. U = S \cup ToSet(s.lines) /\ (\A i \in S, j \in ToSet(s.lines) : i < j) /\ s.lines \in Seq(Int) /\ Upward(s.lines)
  <2> HIDE DEF a, s, U, S
  <2> QED BY <1>3, <1>4, BeforeMore DEF U, S
<1> HIDE DEF a, s, S, out, done, w, next
<1>9. Ranked(U, Append(out, more))
  <2> HIDE DEF U
  <2> QED BY <1>1, <1>2, <1>4, <1>8, RankedExtend
<1>10. CASE LoneHeading(page, s)
  <2>1. next = [acc EXCEPT !.waiting = more]
    BY <1>10 DEF next, MergeSection, w
  <2>2. Idle(page, s.lines)
    BY <1>3, <1>7, <1>10, LoneIsIdle
  <2>3. Idle(page, more) /\ more \in Seq(Int)
    BY <1>1, <1>8, <2>2, IdleJoin, ToSetJoin
  <2> HIDE DEF more, U
  <2>4. next \in Merges /\ next.waiting = more /\ next.done = done
    BY <1>1, <2>1, <2>3 DEF Merges, done
  <2> QED BY <1>6, <1>9, <2>3, <2>4 DEF Merging, next, s, out, U, a
<1>11. CASE ~LoneHeading(page, s)
  <2> DEFINE b == [s EXCEPT !.lines = w \o @]
             e == <<>>
             more_done == Append(done, b)
  <2>1. next = [done |-> more_done, waiting |-> e]
    BY <1>11 DEF next, MergeSection, w, done
  <2>2. b \in Section /\ SectionWell(page, b) /\ b.lines = more /\ (Shut(page, s.lines) => Shut(page, b.lines))
    BY <1>1, <1>3, SectionGrows
  <2> HIDE DEF b
  <2>3. more_done \in Seq(Section) /\ LinesOf(more_done) = Append(out, more)
    BY <1>1, <2>2, LinesAppend DEF out
  <2>4. Ranked(U, Append(LinesOf(more_done), e))
    BY <1>9, <2>3, RankedNone
  <2>5. Idle(page, e) /\ e \in Seq(Int) /\ e = <<>>
    BY IdleNothing
  <2> DEFINE m == Len(done)
             g == m + 1
  <2>6. m \in Nat /\ DOMAIN done = 1..m /\ DOMAIN more_done = 1..g /\ more_done[g] = b /\ \A x \in 1..m : more_done[x] = done[x]
    BY <1>1, <2>2
  <2>7. \A x \in 1..g : x \in 1..m \/ x = g
    BY <2>6
  <2> HIDE DEF more_done, e, m, g
  <2>8. \A x \in DOMAIN more_done :
          SectionWell(page, more_done[x]) /\ (h # Len(secs) => Shut(page, more_done[x].lines))
    BY <1>3, <1>6, <2>2, <2>6, <2>7
  <2>9. next \in Merges /\ next.done = more_done /\ next.waiting = e
    BY <2>1, <2>3, <2>5 DEF Merges
  <2> HIDE DEF U
  <2> QED BY <2>4, <2>5, <2>8, <2>9 DEF Merging, next, s, U, a
<1> QED BY <1>10, <1>11

NoMerge == [done |-> <<>>, waiting |-> <<>>]
LEMMA NoMergeWell == ASSUME NEW page, NEW secs \in Seq(Section) PROVE NoMerge \in Merges /\ Merging(page, secs, 0, NoMerge)
<1> DEFINE e == <<>>
           a == LinesOf(e)
<1>1. e \in Seq(Section) /\ e \in Seq(Int) /\ DOMAIN e = {} /\ NoMerge = [done |-> e, waiting |-> e]
  BY DEF NoMerge
<1>2. Idle(page, e)
  BY IdleNothing
<1> HIDE DEF e
<1>3. NoMerge \in Merges /\ NoMerge.done = e /\ NoMerge.waiting = e
  BY <1>1 DEF Merges
<1>4. a \in Seq(Seq(Int)) /\ DOMAIN a = {}
  BY <1>1, LinesTyped
<1> HIDE DEF a
<1>5. HeldBy(a) = {}
  BY <1>4 DEF HeldBy
<1>6. Ranked({}, a)
  BY <1>4, <1>5 DEF Ranked
<1>7. Ranked({}, Append(a, e))
  BY <1>6, RankedNone DEF e
<1>8. Before(LinesOf(secs), 0) = {}
  BY LinesTyped, BeforeAll
<1> QED BY <1>1, <1>2, <1>3, <1>7, <1>8 DEF Merging, a

\* What the sections are without lone headings.
Joint(page, i, e) ==
    /\ e \in Seq(Section) /\ Ranked(HeldBy(LinesOf(e)), LinesOf(e)) /\ Placed(page, i, HeldBy(LinesOf(e)))
    /\ \A k \in DOMAIN e : SectionWell(page, e[k])

Longer(s, w, b) == b = [s EXCEPT !.lines = @ \o w]
LEMMA SectionEnds ==
    ASSUME NEW page, NEW s, SectionWell(page, s), Shut(page, s.lines), NEW w \in Seq(Int), Idle(page, w),
           NEW b, Longer(s, w, b)
    PROVE  b \in Section /\ SectionWell(page, b) /\ b.lines = s.lines \o w
<1>1. s \in Section /\ s.lines \in Seq(Int) /\ Fenced(page, s.lines) /\ PathWell(page, s.lines, s.path)
  BY DEF SectionWell, Section
<1> DEFINE c_ == s.lines \o w
<1>2. c_ \in Seq(Int) /\ ToSet(c_) = ToSet(s.lines) \cup ToSet(w)
  BY <1>1, ToSetJoin
<1>3. Fenced(page, c_)
  BY <1>1, FencedJoin DEF Idle
<1>4. b = [s EXCEPT !.lines = c_]
  BY DEF Longer
<1> HIDE DEF c_
<1>5. b \in Section /\ b.lines = c_ /\ b.path = s.path
  BY <1>1, <1>2, <1>4 DEF Section
<1>6. PathWell(page, w, s.path)
  BY IdlePath
<1>7. PathWell(page, c_, s.path)
  BY <1>1, <1>2, <1>6 DEF PathWell
<1> QED BY <1>3, <1>5, <1>7 DEF SectionWell, c_

EndsIn(s, n, f, x) == s = Append(f, x) /\ n = Len(s)
Changed(s, n, y) == [s EXCEPT ![n] = y]
LEMMA ChangedLast ==
    ASSUME NEW V, NEW f \in Seq(V), NEW x \in V, NEW y \in V, NEW s, NEW n, EndsIn(s, n, f, x)
    PROVE  Changed(s, n, y) = Append(f, y) /\ s[n] = x /\ n \in DOMAIN s
<1> DEFINE m == Len(f)
           h == m + 1
           b == Append(f, y)
<1>1. m \in Nat /\ DOMAIN s = 1..h /\ n = h /\ s[h] = x /\ h \in 1..h /\ \A k \in 1..m : s[k] = f[k] /\ k # h
  BY DEF EndsIn
<1>2. b \in Seq(V) /\ DOMAIN b = 1..h /\ b[h] = y /\ \A k \in 1..m : b[k] = f[k]
  OBVIOUS
<1> HIDE DEF b, m
<1>3. \A k \in 1..h : k \in 1..m \/ k = h
  BY <1>1
<1> HIDE DEF h
<1> DEFINE c_ == [s EXCEPT ![n] = y]
<1>4. c_ = [k \in 1..h |-> c_[k]] /\ \A k \in 1..h : c_[k] = IF k = h THEN y ELSE s[k]
  BY <1>1
<1> HIDE DEF c_
<1>5. \A k \in 1..h : c_[k] = b[k]
  BY <1>1, <1>2, <1>3, <1>4
<1>6. c_ = b
  <2>1. b = [k \in 1..h |-> b[k]]
    BY <1>2
  <2> QED BY <1>4, <1>5, <2>1
<1> QED BY <1>1, <1>6 DEF b, c_, Changed

\* What waits at the end joins the last section, or is one.
LastJoined(done, w, path) ==
    IF w = <<>> THEN done
    ELSE IF Len(done) = 0 THEN <<[lines |-> w, path |-> path]>>
    ELSE [done EXCEPT ![Len(done)].lines = @ \o w]

LEMMA JointLast ==
    ASSUME NEW page, NEW i \in Nat, NEW S, NEW done \in Seq(Section), NEW w \in Seq(Int), Idle(page, w),
           Ranked(S, Append(LinesOf(done), w)), Placed(page, i, S),
           \A x \in DOMAIN done : SectionWell(page, done[x]) /\ (w # <<>> => Shut(page, done[x].lines)),
           NEW path \in Seq(Int), NEW e, e = LastJoined(done, w, path)
    PROVE  Joint(page, i, e)
<1> DEFINE n == Len(done)
<1>1. n \in Nat /\ DOMAIN done = 1..n /\ (n = 0 <=> done = <<>>)
  OBVIOUS
<1>2. LinesOf(done) \in Seq(Seq(Int))
  BY LinesTyped
<1>3. CASE w = <<>>
  <2>1. Ranked(S, LinesOf(done))
    BY <1>2, <1>3, RankedWithout
  <2>2. S = HeldBy(LinesOf(done))
    BY <2>1 DEF Ranked
  <2>3. e = done
    BY <1>3 DEF LastJoined
  <2> QED BY <2>1, <2>2, <2>3 DEF Joint
<1>4. CASE w # <<>> /\ n = 0
  <2> DEFINE s == [lines |-> w, path |-> path]
             none == <<>>
  <2>1. s \in Section /\ s.lines = w /\ s.path = path
    BY DEF Section
  <2>2. PathWell(page, w, path)
    BY IdlePath
  <2>3. SectionWell(page, s)
    BY <2>1, <2>2 DEF SectionWell, Idle
  <2>4. e = <<s>> /\ done = none
    BY <1>1, <1>4 DEF LastJoined
  <2> HIDE DEF s
  <2>5. e = Append(done, s) /\ DOMAIN e = {1} /\ e[1] = s
    <3>1. <<s>> = Append(none, s) /\ DOMAIN <<s>> = {1} /\ <<s>>[1] = s
      OBVIOUS
    <3> QED BY <2>4, <3>1
  <2>6. e \in Seq(Section) /\ LinesOf(e) = Append(LinesOf(done), w)
    <3> HIDE DEF none
    <3> QED BY <2>1, <2>5, LinesAppend
  <2>7. Ranked(S, LinesOf(e))
    BY <2>6
  <2>8. S = HeldBy(LinesOf(e))
    BY <2>7 DEF Ranked
  <2> QED BY <2>3, <2>5, <2>6, <2>7, <2>8 DEF Joint
<1>5. CASE w # <<>> /\ n # 0
  <2> DEFINE f == Front(done)
             x == Last(done)
             y == [x EXCEPT !.lines = @ \o w]
  <2>1. f \in Seq(Section) /\ x \in Section /\ done = Append(f, x)
    BY <1>1, <1>5, LastOff
  <2> HIDE DEF f, x
  <2>2. done[n] = x /\ n \in DOMAIN done
    BY <2>1
  <2>3. SectionWell(page, x) /\ Shut(page, x.lines)
    BY <1>5, <2>2
  <2>4. y \in Section /\ SectionWell(page, y) /\ y.lines = x.lines \o w
    <3>1. Longer(x, w, y)
      BY DEF Longer
    <3> HIDE DEF y
    <3> QED BY <2>3, <3>1, SectionEnds
  <2>6. e = Changed(done, n, y)
    BY <1>5, <2>2 DEF LastJoined, Changed
  <2> HIDE DEF y
  <2>5. Changed(done, n, y) = Append(f, y)
    <3>1. EndsIn(done, n, f, x) /\ y \in Section
      BY <2>1, <2>4 DEF EndsIn
    <3> HIDE DEF n
    <3> QED BY <2>1, <3>1, ChangedLast
  <2>7. x.lines \in Seq(Int) /\ LinesOf(f) \in Seq(Seq(Int))
    BY <2>1, LinesTyped DEF Section
  <2>8. LinesOf(e) = Append(LinesOf(f), x.lines \o w) /\ e \in Seq(Section)
    <3>1. e = Append(f, y)
      BY <2>5, <2>6
    <3>2. \A v \in Section : LinesOf(Append(f, v)) = Append(LinesOf(f), v.lines) /\ Append(f, v) \in Seq(Section)
      BY <2>1, LinesAppend
    <3> QED BY <2>4, <3>1, <3>2
  <2>9. LinesOf(done) = Append(LinesOf(f), x.lines)
    BY <2>1, LinesAppend
  <2>10. Ranked(S, LinesOf(e))
    BY <2>7, <2>8, <2>9, RankedMerge
  <2>11. S = HeldBy(LinesOf(e))
    BY <2>10 DEF Ranked
  <2> DEFINE m == Len(f)
             h == m + 1
  <2>12. m \in Nat /\ DOMAIN f = 1..m /\ DOMAIN done = 1..h /\ \A k \in 1..m : done[k] = f[k]
    BY <2>1
  <2>13. DOMAIN e = 1..h /\ e[h] = y /\ \A k \in 1..m : e[k] = f[k]
    <3>1. e = Append(f, y)
      BY <2>5, <2>6
    <3>2. DOMAIN Append(f, y) = 1..h /\ Append(f, y)[h] = y /\ \A k \in 1..m : Append(f, y)[k] = f[k]
      BY <2>1, <2>4
    <3> QED BY <3>1, <3>2
  <2>14. \A k \in 1..h : k \in 1..m \/ k = h
    BY <2>12
  <2>15. \A k \in 1..m : k \in 1..h
    BY <2>12
  <2> HIDE DEF m, h
  <2>16. \A k \in DOMAIN e : SectionWell(page, e[k])
    BY <2>4, <2>12, <2>13, <2>14, <2>15
  <2> QED BY <2>8, <2>10, <2>11, <2>16 DEF Joint
<1> QED BY <1>3, <1>4, <1>5

LEMMA CoalesceWell ==
    ASSUME NEW page, NEW i \in Nat, NEW secs, Ended(page, i, secs)
    PROVE  Joint(page, i, Coalesce(page, secs))
<1> DEFINE n == Len(secs)
           merged[k \in 0..Len(secs)] ==
               IF k = 0 THEN [done |-> <<>>, waiting |-> <<>>] ELSE MergeSection(page, merged[k - 1], secs[k])
           all == merged[n]
           step == [q \in (1..n) \X Merges |->
                      IF MergeSection(page, q[2], secs[q[1]]) \in Merges THEN MergeSection(page, q[2], secs[q[1]]) ELSE q[2]]
           I == [k \in 0..n |-> {x \in Merges : Merging(page, secs, k, x)}]
<1>1. secs \in Seq(Section) /\ Ranked(HeldBy(LinesOf(secs)), LinesOf(secs)) /\ Placed(page, i, HeldBy(LinesOf(secs)))
      /\ \A k \in DOMAIN secs : SectionWell(page, secs[k])
  BY DEF Ended
<1>2. n \in Nat /\ DOMAIN secs = 1..n
  BY <1>1
<1>3. CASE n <= 1
  <2>1. Coalesce(page, secs) = secs
    BY <1>3 DEF Coalesce
  <2> QED BY <1>1, <2>1 DEF Joint
<1>4. CASE ~(n <= 1)
  <2> DEFINE last == Last(secs)
             e == Coalesce(page, secs)
  <2>1. e = LastJoined(all.done, all.waiting, last.path)
    BY <1>4 DEF Coalesce, LastJoined
  <2>2. last.path \in Seq(Int)
    <3>1. secs # <<>>
      BY <1>2, <1>4
    <3>2. last \in Section
      BY <1>1, <3>1, LastOff
    <3> QED BY <3>2 DEF Section
  <2> HIDE DEF n, e, last
  <2>3. NoMerge \in Merges /\ NoMerge \in I[0]
    <3>1. 0 \in 0..n
      BY <1>2
    <3>2. NoMerge \in Merges /\ Merging(page, secs, 0, NoMerge)
      BY <1>1, NoMergeWell
    <3> QED BY <3>1, <3>2
  <2>4. step \in [(1..n) \X Merges -> Merges]
    OBVIOUS
  <2>5. ASSUME NEW h \in 0..(n - 1), NEW x, Merging(page, secs, h, x)
        PROVE  Merging(page, secs, h + 1, MergeSection(page, x, secs[h + 1]))
    <3> DEFINE g == h + 1
    <3>1. h \in Nat /\ g = h + 1 /\ g \in DOMAIN secs
      BY <1>2
    <3> HIDE DEF g
    <3>2. Merging(page, secs, g, MergeSection(page, x, secs[g]))
      BY <2>5, <3>1, MergeWell
    <3> QED BY <3>2 DEF g
  <2>6. ASSUME NEW h \in 0..(n - 1), NEW x \in Merges, x \in I[h] PROVE step[<<h + 1, x>>] \in I[h + 1]
    <3>1. h \in 0..n /\ h + 1 \in 0..n /\ h + 1 \in 1..n
      BY <1>2
    <3>2. Merging(page, secs, h, x)
      BY <2>6, <3>1
    <3>3. Merging(page, secs, h + 1, MergeSection(page, x, secs[h + 1]))
      BY <2>5, <3>2
    <3> DEFINE k == h + 1
    <3> HIDE DEF k
    <3>4. k \in 0..n /\ k \in 1..n /\ Merging(page, secs, k, MergeSection(page, x, secs[k]))
      BY <3>1, <3>3 DEF k
    <3>5. MergeSection(page, x, secs[k]) \in Merges
      BY <3>4 DEF Merging
    <3>6. step[<<k, x>>] = MergeSection(page, x, secs[k])
      BY <3>4, <3>5
    <3>7. step[<<k, x>>] \in I[k]
      BY <3>4, <3>5, <3>6
    <3> QED BY <3>7 DEF k
  <2>7. \E g \in [0..n -> Merges] : BuiltBy(g, NoMerge, step, n) /\ \A k \in 0..n : g[k] \in I[k]
    <3> HIDE DEF step, I, merged
    <3> QED BY <1>2, <2>3, <2>4, <2>6, StepsKeep
  <2>8. PICK g \in [0..n -> Merges] : BuiltBy(g, NoMerge, step, n) /\ \A k \in 0..n : g[k] \in I[k]
    BY <2>7
  <2>9. ASSUME NEW k \in 1..n PROVE g[k] = MergeSection(page, g[k - 1], secs[k])
    <3> DEFINE h == k - 1
    <3>1. h \in 0..(n - 1) /\ h \in 0..n /\ k = h + 1
      BY <1>2
    <3> HIDE DEF h
    <3>2. g[h] \in Merges /\ Merging(page, secs, h, g[h])
      BY <2>8, <3>1
    <3>3. Merging(page, secs, h + 1, MergeSection(page, g[h], secs[h + 1]))
      BY <2>5, <3>1, <3>2
    <3>4. MergeSection(page, g[h], secs[k]) \in Merges
      BY <3>1, <3>3 DEF Merging
    <3>5. step[<<k, g[h]>>] = MergeSection(page, g[h], secs[k])
      BY <3>2, <3>4
    <3>6. g[k] = step[<<k, g[k - 1]>>]
      BY <2>8 DEF BuiltBy
    <3> QED BY <3>5, <3>6 DEF h
  <2> HIDE DEF step
  <2>10. g = [k \in 0..n |-> IF k = 0 THEN NoMerge ELSE MergeSection(page, g[k - 1], secs[k])]
    <3>1. \A k \in 0..n : g[k] = IF k = 0 THEN NoMerge ELSE MergeSection(page, g[k - 1], secs[k])
      BY <2>8, <2>9 DEF BuiltBy
    <3> QED BY <2>8, <3>1
  <2>11. merged = [k \in 0..n |-> IF k = 0 THEN NoMerge ELSE MergeSection(page, merged[k - 1], secs[k])]
    BY <2>10 DEF NoMerge, n
  <2> HIDE DEF merged, I
  <2> DEFINE T == {k \in Nat : Merging(page, secs, k, merged[k])}
  <2>12. 0 \in T
    <3>1. 0 \in 0..n
      BY <1>2
    <3>2. merged[0] = NoMerge
      BY <2>11, <3>1
    <3> QED BY <1>1, <3>2, NoMergeWell
  <2>13. ASSUME NEW k \in 0..n, k \in T, k + 1 <= n PROVE k + 1 \in T
    <3> DEFINE h == k + 1
    <3>1. h \in 0..n /\ h # 0 /\ h - 1 = k /\ h \in Nat /\ k \in Nat /\ h = k + 1 /\ h \in DOMAIN secs
      BY <1>2, <2>13
    <3> HIDE DEF h
    <3>2. merged[h] = MergeSection(page, merged[k], secs[h])
      BY <2>11, <3>1
    <3>3. Merging(page, secs, k, merged[k])
      BY <2>13
    <3>4. Merging(page, secs, h, merged[h])
      BY <3>1, <3>2, <3>3, MergeWell
    <3> QED BY <3>1, <3>4 DEF h
  <2>14. \A k \in 0..n : k \in T
    <3> HIDE DEF T
    <3> QED BY <1>2, <2>12, <2>13, Along
  <2>15. Merging(page, secs, n, all)
    BY <1>2, <2>14
  <2> DEFINE done == all.done
             w == all.waiting
             S == Before(LinesOf(secs), n)
  <2>16. done \in Seq(Section) /\ w \in Seq(Int) /\ Idle(page, w) /\ Ranked(S, Append(LinesOf(done), w))
    BY <2>15 DEF Merging, Merges
  <2>17. \A x \in DOMAIN done : SectionWell(page, done[x]) /\ (w # <<>> => Shut(page, done[x].lines))
    BY <2>15 DEF Merging
  <2>18. Placed(page, i, S)
    <3> DEFINE a == LinesOf(secs)
    <3>1. a \in Seq(Seq(Int)) /\ DOMAIN a = 1..n
      BY <1>1, <1>2, LinesTyped
    <3> HIDE DEF a
    <3>2. Len(a) = n
      BY <1>2, <3>1
    <3>3. Before(a, n) = HeldBy(a)
      BY <3>1, <3>2, BeforeAll
    <3> QED BY <1>1, <3>3 DEF a
  <2> DEFINE path == last.path
  <2>19. e = LastJoined(done, w, path)
    BY <2>1
  <2> HIDE DEF done, w, S, path
  <2>20. path \in Seq(Int)
    BY <2>2 DEF path
  <2>21. Joint(page, i, e)
    BY <2>16, <2>17, <2>18, <2>19, <2>20, JointLast
  <2> QED BY <2>21 DEF e
<1> QED BY <1>3, <1>4

-----------------------------------------------------------------------------
(* Markdown: blocks *)

\* A piece that has the whole of each fence it has a line of, down to that line,
\* and no blank line outside fences; one that does not begin with a fence has none.
FencesWhole(page, x) ==
    \A i \in ToSet(x) : (Odd(page, i - 1) => i - 1 \in ToSet(x)) /\ (page[i] = "blank" => Odd(page, i))
Plain(page, x) == x # <<>> /\ page[x[1]] # "fence" => \A i \in ToSet(x) : ~Odd(page, i - 1)
Blocky(page, S, acc) == Ranked(S, acc) /\ \A b \in DOMAIN acc : FencesWhole(page, acc[b]) /\ Plain(page, acc[b])

LEMMA AllOfMore ==
    ASSUME NEW V, NEW s \in Seq(V), NEW x \in V
    PROVE  \A k \in DOMAIN Append(s, x) : Append(s, x)[k] = x \/ \E l \in DOMAIN s : Append(s, x)[k] = s[l]
<1> DEFINE n == Len(s)
           b == Append(s, x)
           h == n + 1
<1>1. n \in Nat /\ DOMAIN s = 1..n /\ DOMAIN b = 1..h /\ b[h] = x /\ \A k \in 1..n : b[k] = s[k]
  OBVIOUS
<1>2. \A k \in 1..h : k \in 1..n \/ k = h
  BY <1>1
<1> HIDE DEF n, b, h
<1>3. \A k \in DOMAIN b : b[k] = x \/ \E l \in DOMAIN s : b[k] = s[l]
  BY <1>1, <1>2
<1> QED BY <1>3 DEF b

LEMMA BlockyMore ==
    ASSUME NEW page, NEW S, NEW acc, Blocky(page, S, acc), NEW x \in Seq(Int), Upward(x),
           \A i \in S, j \in ToSet(x) : i < j, FencesWhole(page, x), Plain(page, x)
    PROVE  Blocky(page, S \cup ToSet(x), Append(acc, x))
<1>1. Ranked(S, acc) /\ \A b \in DOMAIN acc : FencesWhole(page, acc[b]) /\ Plain(page, acc[b])
  BY DEF Blocky
<1>2. Ranked(S \cup ToSet(x), Append(acc, x))
  BY <1>1, RankedMore
<1>3. acc \in Seq(Seq(Int))
  BY <1>1 DEF Ranked
<1>4. \A k \in DOMAIN Append(acc, x) : Append(acc, x)[k] = x \/ \E l \in DOMAIN acc : Append(acc, x)[k] = acc[l]
  BY <1>3, AllOfMore
<1>5. \A k \in DOMAIN Append(acc, x) : FencesWhole(page, Append(acc, x)[k]) /\ Plain(page, Append(acc, x)[k])
  BY <1>1, <1>4
<1> QED BY <1>2, <1>5 DEF Blocky

LEMMA BlockyExtend ==
    ASSUME NEW page, NEW S, NEW acc, Blocky(page, S, acc), acc # <<>>, NEW i \in Int, \A x \in S : x < i,
           NEW more, more = Append(Last(acc), i), FencesWhole(page, more), Plain(page, more)
    PROVE  Blocky(page, S \cup {i}, Append(Front(acc), more))
<1> DEFINE out == Front(acc)
           buf == Last(acc)
           one == <<i>>
<1>1. Ranked(S, acc) /\ \A b \in DOMAIN acc : FencesWhole(page, acc[b]) /\ Plain(page, acc[b])
  BY DEF Blocky
<1>2. acc \in Seq(Seq(Int))
  BY <1>1 DEF Ranked
<1>3. out \in Seq(Seq(Int)) /\ buf \in Seq(Int) /\ acc = Append(out, buf)
  BY <1>2, LastOff
<1>4. one \in Seq(Int) /\ Upward(one) /\ ToSet(one) = {i}
  BY OneLine
<1>5. more = buf \o one /\ more \in Seq(Int)
  BY <1>3
<1> HIDE DEF out, buf, one
<1>6. Ranked(S \cup ToSet(one), Append(out, buf \o one))
  BY <1>1, <1>3, <1>4, RankedExtend
<1>7. Ranked(S \cup {i}, Append(out, more))
  BY <1>4, <1>5, <1>6
<1>8. \A k \in DOMAIN Append(out, more) : Append(out, more)[k] = more \/ \E l \in DOMAIN out : Append(out, more)[k] = out[l]
  BY <1>3, <1>5, AllOfMore
<1>9. \A l \in DOMAIN out : l \in DOMAIN acc /\ acc[l] = out[l]
  BY <1>3
<1>10. \A k \in DOMAIN Append(out, more) : FencesWhole(page, Append(out, more)[k]) /\ Plain(page, Append(out, more)[k])
  BY <1>1, <1>8, <1>9
<1>11. Blocky(page, S \cup {i}, Append(out, more))
  BY <1>7, <1>10 DEF Blocky
<1> QED BY <1>11 DEF out

\* The blocks of the first k lines, the last of which is open when a fence is.
Blocked(page, lines, k, acc) ==
    /\ Blocky(page, HeldBy(acc), acc) /\ HeldBy(acc) \subseteq UpTo(lines, k)
    /\ \A x \in 1..k : page[lines[x]] = "blank" \/ lines[x] \in HeldBy(acc)
    /\ acc = <<>> <=> k = 0
    /\ acc # <<>> => /\ Open(page, Last(acc)) <=> Odd(page, lines[k])
                     /\ Open(page, Last(acc)) => Last(Last(acc)) = lines[k]

LEMMA OpenOne == ASSUME NEW page, NEW i \in Int PROVE (Open(page, <<i>>) <=> page[i] = "fence") /\ Last(<<i>>) = i
<1> DEFINE u == <<i>>
<1>1. u # <<>> /\ u[1] = i /\ Len(u) = 1
  OBVIOUS
<1> HIDE DEF u
<1>2. (Open(page, u) <=> page[i] = "fence") /\ Last(u) = i
  BY <1>1 DEF Open, Last
<1> QED BY <1>2 DEF u

LEMMA OpenMore ==
    ASSUME NEW page, NEW b \in Seq(Int), b # <<>>, NEW i \in Int
    PROVE  /\ Open(page, Append(b, i)) <=> page[b[1]] = "fence" /\ page[i] # "fence"
           /\ Last(Append(b, i)) = i /\ Append(b, i)[1] = b[1]
<1> DEFINE u == Append(b, i)
           n == Len(b)
           h == n + 1
<1>1. n \in Nat \ {0} /\ u # <<>> /\ u[1] = b[1] /\ Len(u) = h /\ u[h] = i /\ h > 1
  OBVIOUS
<1> HIDE DEF u, n, h
<1>2. Last(u) = i
  BY <1>1 DEF Last
<1>3. Open(page, u) <=> page[b[1]] = "fence" /\ page[i] # "fence"
  BY <1>1, <1>2 DEF Open
<1> QED BY <1>1, <1>2, <1>3 DEF u

\* How far the lines are read, and the line that is next.
LinesRead(page, lines, k, i) ==
    /\ i \in Nat \ {0} /\ i = lines[k + 1]
    /\ \A x \in UpTo(lines, k) : x < i
    /\ k = 0 => ~Odd(page, i - 1)
    /\ k # 0 => Joined(page, lines[k], i)
    /\ UpTo(lines, k + 1) = UpTo(lines, k) \cup {i}
    /\ \A x \in 1..(k + 1) : x \in 1..k \/ lines[x] = i

LEMMA LinesReadWell ==
    ASSUME NEW page, NEW lines \in Seq(Int), Upward(lines), Fenced(page, lines), ToSet(lines) \subseteq Nat \ {0},
           NEW k \in Nat, k + 1 \in DOMAIN lines
    PROVE  LinesRead(page, lines, k, lines[k + 1])
<1> DEFINE h == k + 1
           i == lines[h]
<1>1. h \in Nat /\ h \in DOMAIN lines /\ h = k + 1 /\ DOMAIN lines = 1..Len(lines) /\ Len(lines) \in Nat
  OBVIOUS
<1>2. 1..h = (1..k) \cup {h} /\ (\A x \in 1..k : x \in DOMAIN lines /\ x < h) /\ (k # 0 => k \in DOMAIN lines) /\ (k = 0 => h = 1)
  BY <1>1
<1> HIDE DEF h
<1>3. i \in Nat \ {0}
  <2>1. i \in ToSet(lines)
    BY <1>1 DEF ToSet
  <2> QED BY <2>1
<1>4. \A x \in UpTo(lines, k) : x < i
  BY <1>1, <1>2 DEF UpTo, Upward
<1>5. UpTo(lines, h) = UpTo(lines, k) \cup {i}
  BY <1>2 DEF UpTo
<1>6. k = 0 => ~Odd(page, i - 1)
  BY <1>1, <1>2 DEF Fenced
<1>7. k # 0 => Joined(page, lines[k], i)
  BY <1>1, <1>2 DEF Fenced
<1>8. \A x \in 1..h : x \in 1..k \/ lines[x] = i
  BY <1>2
<1> HIDE DEF i
<1>9. LinesRead(page, lines, k, i)
  BY <1>1, <1>3, <1>4, <1>5, <1>6, <1>7, <1>8 DEF LinesRead, h, i
<1> QED BY <1>9 DEF i, h

LEMMA BlockBegun ==
    ASSUME NEW page, NEW lines, NEW k \in Nat, NEW i, NEW acc, Blocked(page, lines, k, acc), LinesRead(page, lines, k, i)
    PROVE  LET block == IF acc = <<>> THEN <<>> ELSE Last(acc) IN
           /\ block \in Seq(Int) /\ ToSet(block) \subseteq HeldBy(acc)
           /\ (Open(page, block) <=> Odd(page, i - 1))
           /\ (Open(page, block) => acc # <<>> /\ block # <<>> /\ page[block[1]] = "fence" /\ Last(block) = i - 1)
           /\ FencesWhole(page, block) /\ Plain(page, block)
<1> DEFINE block == IF acc = <<>> THEN <<>> ELSE Last(acc)
<1>1. acc \in Seq(Seq(Int))
  BY DEF Blocked, Blocky, Ranked
<1>2. CASE acc = <<>>
  <2>1. k = 0 /\ ~Odd(page, i - 1)
    BY <1>2 DEF Blocked, LinesRead
  <2> DEFINE e == <<>>
  <2>2. block = e
    BY <1>2
  <2>3. e \in Seq(Int) /\ ToSet(e) = {} /\ e = <<>>
    BY DEF ToSet
  <2> HIDE DEF e
  <2>4. ~Open(page, e) /\ FencesWhole(page, e) /\ Plain(page, e)
    BY <2>3 DEF Open, FencesWhole, Plain
  <2> QED BY <2>1, <2>2, <2>3, <2>4
<1>3. CASE acc # <<>>
  <2> DEFINE b == Last(acc)
             n == Len(acc)
  <2>10. b \in Seq(Int) /\ b = acc[n]
    <3>1. Last(acc) \in Seq(Int) /\ Last(acc) = acc[Len(acc)]
      BY <1>1, <1>3, LastOff DEF Last
    <3> QED BY <3>1
  <2>11. n \in DOMAIN acc
    BY <1>1, <1>3
  <2>1. b \in Seq(Int) /\ b = acc[n] /\ n \in DOMAIN acc
    BY <2>10, <2>11
  <2>2. ToSet(b) \subseteq HeldBy(acc) /\ FencesWhole(page, b) /\ Plain(page, b)
    BY <2>1, HeldIn DEF Blocked, Blocky
  <2>3. k # 0 /\ (Open(page, b) <=> Odd(page, lines[k])) /\ (Open(page, b) => Last(b) = lines[k])
    BY <1>3 DEF Blocked
  <2>4. Joined(page, lines[k], i) /\ i \in Nat
    BY <2>3 DEF LinesRead
  <2>5. Open(page, b) => b # <<>> /\ page[b[1]] = "fence"
    BY DEF Open
  <2> HIDE DEF b
  <2>6. Open(page, b) => Last(b) = i - 1
    <3> SUFFICES ASSUME Open(page, b) PROVE Last(b) = i - 1
      OBVIOUS
    <3>1. Last(b) = lines[k] /\ i = lines[k] + 1
      BY <2>3, <2>4 DEF Joined
    <3>2. b # <<>>
      BY <2>5
    <3>3. Last(b) \in Int
      BY <2>1, <3>2 DEF Last
    <3> QED BY <2>4, <3>1, <3>3
  <2>7. Open(page, b) <=> Odd(page, i - 1)
    BY <2>3, <2>4 DEF Joined
  <2>8. block = b
    BY <1>3 DEF b
  <2> HIDE DEF block
  <2>9. /\ block \in Seq(Int) /\ ToSet(block) \subseteq HeldBy(acc)
        /\ (Open(page, block) <=> Odd(page, i - 1))
        /\ (Open(page, block) => acc # <<>> /\ block # <<>> /\ page[block[1]] = "fence" /\ Last(block) = i - 1)
        /\ FencesWhole(page, block) /\ Plain(page, block)
    BY <1>3, <2>1, <2>2, <2>5, <2>6, <2>7, <2>8
  <2> QED BY <2>9 DEF block
<1> QED BY <1>2, <1>3

\* What a line added to a block keeps.
LEMMA ToSetOne ==
    ASSUME NEW b \in Seq(Int), NEW i \in Int
    PROVE  Append(b, i) \in Seq(Int) /\ ToSet(Append(b, i)) = ToSet(b) \cup {i}
<1>1. <<i>> \in Seq(Int) /\ ToSet(<<i>>) = {i} /\ Append(b, i) = b \o <<i>>
  <2>1. Append(b, i) = b \o <<i>>
    OBVIOUS
  <2> QED BY <2>1, OneLine
<1> DEFINE u == <<i>>
<1> HIDE DEF u
<1>2. b \o u \in Seq(Int) /\ ToSet(b \o u) = ToSet(b) \cup ToSet(u)
  BY <1>1, ToSetJoin DEF u
<1> QED BY <1>1, <1>2 DEF u

LEMMA LastOfMore ==
    ASSUME NEW V, NEW s \in Seq(V), NEW x \in V
    PROVE  Append(s, x) # <<>> /\ Last(Append(s, x)) = x
<1> DEFINE n == Len(s)
           h == n + 1
           u == Append(s, x)
<1>1. u # <<>> /\ Len(u) = h /\ u[h] = x
  OBVIOUS
<1> HIDE DEF u, h
<1>2. u # <<>> /\ Last(u) = x
  BY <1>1 DEF Last
<1> QED BY <1>2 DEF u

LEMMA KeptMore ==
    ASSUME NEW page, NEW b \in Seq(Int), FencesWhole(page, b), NEW i \in Int,
           Odd(page, i - 1) => i - 1 \in ToSet(b), page[i] = "blank" => Odd(page, i)
    PROVE  FencesWhole(page, Append(b, i))
<1> DEFINE u == Append(b, i)
<1>1. ToSet(u) = ToSet(b) \cup {i}
  BY ToSetOne
<1> HIDE DEF u
<1>2. FencesWhole(page, u)
  BY <1>1 DEF FencesWhole
<1> QED BY <1>2 DEF u

LEMMA PlainMore ==
    ASSUME NEW page, NEW b \in Seq(Int), Plain(page, b), NEW i \in Int,
           (b # <<>> /\ page[b[1]] = "fence") \/ ~Odd(page, i - 1)
    PROVE  Plain(page, Append(b, i))
<1> DEFINE u == Append(b, i)
<1>1. ToSet(u) = ToSet(b) \cup {i}
  BY ToSetOne
<1>2. CASE b = <<>>
  <2>1. ToSet(b) = {}
    BY <1>2 DEF ToSet
  <2> HIDE DEF u
  <2>2. Plain(page, u)
    BY <1>1, <1>2, <2>1 DEF Plain
  <2> QED BY <2>2 DEF u
<1>3. CASE b # <<>>
  <2>1. u[1] = b[1] /\ u # <<>>
    BY <1>3
  <2> HIDE DEF u
  <2>2. Plain(page, u)
    BY <1>1, <1>3, <2>1 DEF Plain
  <2> QED BY <2>2 DEF u
<1> QED BY <1>2, <1>3

\* What makes the blocks of one line more.
LEMMA BlockedNow ==
    ASSUME NEW page, NEW lines, NEW k \in Nat, NEW i, NEW acc, Blocked(page, lines, k, acc), LinesRead(page, lines, k, i),
           NEW X \in SUBSET {i}, page[i] = "blank" \/ X = {i}, NEW b, Blocky(page, HeldBy(acc) \cup X, b), b # <<>>,
           Open(page, Last(b)) <=> Odd(page, i), Open(page, Last(b)) => Last(Last(b)) = i
    PROVE  Blocked(page, lines, k + 1, b)
<1> DEFINE h == k + 1
<1>1. /\ HeldBy(acc) \subseteq UpTo(lines, k) /\ \A x \in 1..k : page[lines[x]] = "blank" \/ lines[x] \in HeldBy(acc)
  BY DEF Blocked
<1>2. UpTo(lines, h) = UpTo(lines, k) \cup {i} /\ i = lines[h] /\ \A x \in 1..h : x \in 1..k \/ lines[x] = i
  BY DEF LinesRead
<1>3. h # 0
  OBVIOUS
<1> HIDE DEF h
<1>4. HeldBy(b) = HeldBy(acc) \cup X
  BY DEF Blocky, Ranked
<1>5. HeldBy(b) \subseteq UpTo(lines, h) /\ \A x \in 1..h : page[lines[x]] = "blank" \/ lines[x] \in HeldBy(b)
  BY <1>1, <1>2, <1>4
<1>6. Blocky(page, HeldBy(b), b)
  BY <1>4
<1>7. Blocked(page, lines, h, b)
  BY <1>2, <1>3, <1>5, <1>6 DEF Blocked
<1> QED BY <1>7 DEF h

LEMMA BlockStepWell ==
    ASSUME NEW page, NEW lines, NEW k \in Nat, NEW i, NEW acc, Blocked(page, lines, k, acc), LinesRead(page, lines, k, i)
    PROVE  Blocked(page, lines, k + 1, AddToBlocks(page, acc, i))
<1> DEFINE block == IF acc = <<>> THEN <<>> ELSE Last(acc)
           h == i - 1
           S == HeldBy(acc)
           b == AddToBlocks(page, acc, i)
<1>1. /\ block \in Seq(Int) /\ ToSet(block) \subseteq S
      /\ (Open(page, block) <=> Odd(page, h))
      /\ (Open(page, block) => acc # <<>> /\ block # <<>> /\ page[block[1]] = "fence" /\ Last(block) = h)
      /\ FencesWhole(page, block) /\ Plain(page, block)
  BY BlockBegun
<1>2. i \in Nat /\ h \in Nat /\ i = h + 1 /\ i \in Int
  BY DEF LinesRead
<1>3. Odd(page, i) <=> IF page[i] = "fence" THEN ~Odd(page, h) ELSE Odd(page, h)
  BY <1>2, OddStep
<1>4. Blocky(page, S, acc) /\ \A x \in S : x < i
  BY DEF Blocked, LinesRead
<1>5. acc \in Seq(Seq(Int)) /\ S \subseteq Int
  BY <1>4 DEF Blocky, Ranked
<1>6. acc # <<>> => block = Last(acc) /\ Front(acc) \in Seq(Seq(Int))
  BY <1>5, LastOff
<1> DEFINE more == Append(block, i)
<1>7. more \in Seq(Int)
  BY <1>1, <1>2
<1>8. b = IF Open(page, block) THEN Append(Front(acc), more)
          ELSE IF page[i] = "blank" THEN Append(acc, <<>>)
          ELSE IF page[i] = "fence" \/ Closed(page, block) \/ acc = <<>> THEN Append(acc, <<i>>)
          ELSE Append(Front(acc), more)
  BY DEF AddToBlocks
<1>9. ASSUME acc # <<>>
      PROVE  Append(Front(acc), more) # <<>> /\ Last(Append(Front(acc), more)) = more
  <2>1. Front(acc) \in Seq(Seq(Int))
    BY <1>6, <1>9
  <2> DEFINE f == Front(acc)
  <2> HIDE DEF f, more
  <2>2. Append(f, more) # <<>> /\ Last(Append(f, more)) = more
    BY <1>7, <2>1, LastOfMore DEF f
  <2> QED BY <2>2 DEF f
<1> HIDE DEF block, b, S
<1>10. CASE Open(page, block)
  <2>1. acc # <<>> /\ block # <<>> /\ page[block[1]] = "fence" /\ Last(block) = h /\ Odd(page, h)
    BY <1>1, <1>10
  <2>2. h \in ToSet(block)
    <3>1. Len(block) \in DOMAIN block
      BY <1>1, <2>1
    <3>2. Last(block) = block[Len(block)]
      BY DEF Last
    <3> QED BY <2>1, <3>1, <3>2 DEF ToSet
  <2>3. page[i] = "blank" => Odd(page, i)
    BY <1>3, <2>1
  <2>4. FencesWhole(page, more)
    BY <1>1, <1>2, <2>2, <2>3, KeptMore
  <2>5. Plain(page, more)
    BY <1>1, <1>2, <2>1, PlainMore
  <2>6. (Open(page, more) <=> page[block[1]] = "fence" /\ page[i] # "fence") /\ Last(more) = i
    BY <1>1, <1>2, <2>1, OpenMore
  <2>7. Open(page, more) <=> Odd(page, i)
    BY <1>3, <2>1, <2>6
  <2> HIDE DEF more
  <2>8. more = Append(Last(acc), i)
    BY <1>6, <2>1 DEF more
  <2>9. Blocky(page, S \cup {i}, Append(Front(acc), more))
    BY <1>2, <1>4, <2>1, <2>4, <2>5, <2>8, BlockyExtend
  <2>10. b = Append(Front(acc), more)
    BY <1>8, <1>10
  <2> DEFINE X == {i}
  <2>11. X \in SUBSET {i} /\ X = {i}
    OBVIOUS
  <2> HIDE DEF X
  <2>12. Blocky(page, S \cup X, b) /\ b # <<>> /\ Last(b) = more
    BY <1>9, <2>1, <2>9, <2>10, <2>11
  <2> QED BY <2>6, <2>7, <2>11, <2>12, BlockedNow DEF b, S
<1>11. CASE ~Open(page, block) /\ page[i] = "blank"
  <2> DEFINE e == <<>>
             X == {}
  <2>1. e \in Seq(Int) /\ e = <<>> /\ ToSet(e) = {} /\ Upward(e)
    BY DEF ToSet, Upward
  <2>2. X \in SUBSET {i} /\ X = {}
    OBVIOUS
  <2> HIDE DEF e, X
  <2>3. FencesWhole(page, e) /\ Plain(page, e) /\ ~Open(page, e)
    BY <2>1 DEF FencesWhole, Plain, Open
  <2>4. \A x \in S, j \in ToSet(e) : x < j
    BY <2>1
  <2>5. Blocky(page, S \cup ToSet(e), Append(acc, e))
    BY <1>4, <2>1, <2>3, <2>4, BlockyMore
  <2>6. b = Append(acc, e)
    BY <1>8, <1>11, <2>1
  <2>7. Append(acc, e) # <<>> /\ Last(Append(acc, e)) = e
    <3>1. e \in Seq(Int)
      BY <2>1
    <3> QED BY <1>5, <3>1, LastOfMore
  <2>8. ~Odd(page, i)
    BY <1>1, <1>3, <1>11
  <2>9. Blocky(page, S \cup X, b) /\ b # <<>> /\ Last(b) = e
    BY <2>1, <2>2, <2>5, <2>6, <2>7
  <2> QED BY <1>11, <2>2, <2>3, <2>8, <2>9, BlockedNow DEF b, S
<1>12. CASE ~Open(page, block) /\ page[i] # "blank" /\ (page[i] = "fence" \/ Closed(page, block) \/ acc = <<>>)
  <2> DEFINE u == <<i>>
             X == {i}
  <2>1. u \in Seq(Int) /\ Upward(u) /\ ToSet(u) = {i} /\ u = <<i>>
    BY <1>2, OneLine
  <2>2. X \in SUBSET {i} /\ X = {i}
    OBVIOUS
  <2>3. (Open(page, u) <=> page[i] = "fence") /\ Last(u) = i
    BY <1>2, OpenOne
  <2> HIDE DEF u, X
  <2>4. ~Odd(page, h)
    BY <1>1, <1>12
  <2>5. FencesWhole(page, u) /\ Plain(page, u)
    BY <1>12, <2>1, <2>4 DEF FencesWhole, Plain
  <2>6. \A x \in S, j \in ToSet(u) : x < j
    BY <1>4, <2>1
  <2>7. Blocky(page, S \cup ToSet(u), Append(acc, u))
    BY <1>4, <2>1, <2>5, <2>6, BlockyMore
  <2>8. b = Append(acc, u)
    BY <1>8, <1>12, <2>1
  <2>9. Append(acc, u) # <<>> /\ Last(Append(acc, u)) = u
    <3>1. u \in Seq(Int)
      BY <2>1
    <3> QED BY <1>5, <3>1, LastOfMore
  <2>10. Open(page, u) <=> Odd(page, i)
    BY <1>3, <2>3, <2>4
  <2>11. Blocky(page, S \cup X, b) /\ b # <<>> /\ Last(b) = u
    BY <2>1, <2>2, <2>7, <2>8, <2>9
  <2> QED BY <2>2, <2>3, <2>10, <2>11, BlockedNow DEF b, S
<1>13. CASE ~Open(page, block) /\ page[i] # "blank" /\ ~(page[i] = "fence" \/ Closed(page, block) \/ acc = <<>>)
  <2>1. acc # <<>> /\ page[i] # "fence" /\ ~Odd(page, h) /\ ~Odd(page, i)
    BY <1>1, <1>3, <1>13
  <2>2. FencesWhole(page, more)
    BY <1>1, <1>2, <1>13, <2>1, KeptMore
  <2>3. Plain(page, more)
    BY <1>1, <1>2, <2>1, PlainMore
  <2>4. block # <<>> => page[block[1]] # "fence"
    BY <1>13 DEF Closed
  <2>5. ~Open(page, more)
    <3>1. CASE block # <<>>
      BY <1>1, <1>2, <2>4, <3>1, OpenMore
    <3>2. CASE block = <<>>
      <4>1. more = <<i>>
        BY <3>2
      <4> QED BY <1>2, <2>1, <4>1, OpenOne
    <3> QED BY <3>1, <3>2
  <2> HIDE DEF more
  <2>6. more = Append(Last(acc), i)
    BY <1>6, <2>1 DEF more
  <2>7. Blocky(page, S \cup {i}, Append(Front(acc), more))
    BY <1>2, <1>4, <2>1, <2>2, <2>3, <2>6, BlockyExtend
  <2>8. b = Append(Front(acc), more)
    BY <1>8, <1>13
  <2> DEFINE X == {i}
  <2>9. X \in SUBSET {i} /\ X = {i}
    OBVIOUS
  <2> HIDE DEF X
  <2>10. Blocky(page, S \cup X, b) /\ b # <<>> /\ Last(b) = more
    BY <1>9, <2>1, <2>7, <2>8, <2>9
  <2> QED BY <2>1, <2>5, <2>9, <2>10, BlockedNow DEF b, S
<1> QED BY <1>10, <1>11, <1>12, <1>13

-----------------------------------------------------------------------------
(* Markdown: the blocks of a section *)

BlocksRead(page, lines, bs) ==
    /\ Blocky(page, HeldBy(bs), bs) /\ HeldBy(bs) \subseteq ToSet(lines)
    /\ \A j \in ToSet(lines) : page[j] = "blank" \/ j \in HeldBy(bs)
    /\ \A k \in DOMAIN bs : bs[k] # <<>>

LEMMA BlockedIsTyped == ASSUME NEW page, NEW lines, NEW k, NEW acc, Blocked(page, lines, k, acc) PROVE acc \in Seq(Seq(Int))
BY DEF Blocked, Blocky, Ranked

LEMMA NoneBlocked == ASSUME NEW page, NEW lines PROVE Blocked(page, lines, 0, <<>>)
<1> DEFINE e == <<>>
           S == {}
<1>1. e \in Seq(Seq(Int)) /\ e = <<>> /\ DOMAIN e = {} /\ S = {}
  OBVIOUS
<1>2. 1..0 = {}
  OBVIOUS
<1> HIDE DEF e, S
<1>3. HeldBy(e) = S
  BY <1>1 DEF HeldBy
<1>4. Ranked(S, e)
  BY <1>1, <1>3 DEF Ranked
<1>5. Blocky(page, HeldBy(e), e)
  BY <1>1, <1>3, <1>4 DEF Blocky
<1>6. Blocked(page, lines, 0, e)
  BY <1>1, <1>2, <1>3, <1>5 DEF Blocked
<1> QED BY <1>6 DEF e

LEMMA FullBlocks ==
    ASSUME NEW page, NEW lines \in Seq(Int), NEW n, n = Len(lines), NEW all, Blocked(page, lines, n, all),
           NEW I, I = {k \in DOMAIN all : all[k] # <<>>}
    PROVE  BlocksRead(page, lines, Sift(all, I))
<1> DEFINE b == Sift(all, I)
           S == HeldBy(all)
<1>1. Ranked(S, all) /\ (\A x \in DOMAIN all : FencesWhole(page, all[x]) /\ Plain(page, all[x])) /\ S \subseteq UpTo(lines, n)
      /\ \A x \in 1..n : page[lines[x]] = "blank" \/ lines[x] \in S
  BY DEF Blocked, Blocky
<1>2. Ranked(S, b) /\ \A k \in DOMAIN b : b[k] # <<>> /\ \E l \in DOMAIN all : b[k] = all[l]
  <2>1. Ranked(S, all) /\ NotEmpty(all, I)
    BY <1>1 DEF NotEmpty
  <2> HIDE DEF S
  <2>2. Ranked(S, b) /\ Picked(b, all)
    BY <2>1, RankedFull
  <2> QED BY <2>2 DEF Picked
<1>3. DOMAIN lines = 1..n
  OBVIOUS
<1> HIDE DEF b, S
<1>4. HeldBy(b) = S
  BY <1>2 DEF Ranked
<1>5. \A k \in DOMAIN b : FencesWhole(page, b[k]) /\ Plain(page, b[k])
  BY <1>1, <1>2
<1>6. ToSet(lines) = UpTo(lines, n)
  BY <1>3 DEF ToSet, UpTo
<1>7. \A j \in ToSet(lines) : page[j] = "blank" \/ j \in S
  BY <1>1, <1>6 DEF UpTo
<1>8. Blocky(page, S, b)
  BY <1>2, <1>5 DEF Blocky
<1>9. BlocksRead(page, lines, b)
  BY <1>1, <1>2, <1>4, <1>6, <1>7, <1>8 DEF BlocksRead
<1> QED BY <1>9 DEF b

LEMMA BlocksWell ==
    ASSUME NEW page, NEW lines \in Seq(Int), Upward(lines), Fenced(page, lines), ToSet(lines) \subseteq Nat \ {0}
    PROVE  BlocksRead(page, lines, Blocks(page, lines))
<1> DEFINE n == Len(lines)
           cut[k \in 0..Len(lines)] == IF k = 0 THEN <<>> ELSE AddToBlocks(page, cut[k - 1], lines[k])
           all == cut[n]
           V == Seq(Seq(Int))
           none == <<>>
           step == [q \in (1..n) \X V |->
                      IF AddToBlocks(page, q[2], lines[q[1]]) \in V THEN AddToBlocks(page, q[2], lines[q[1]]) ELSE q[2]]
           I == [k \in 0..n |-> {x \in V : Blocked(page, lines, k, x)}]
<1>2. n \in Nat /\ DOMAIN lines = 1..n
  OBVIOUS
<1>1. Blocks(page, lines) = Sift(all, {k \in DOMAIN all : all[k] # <<>>})
  BY DEF Blocks
<1> HIDE DEF n
<1>3. none \in V /\ none \in I[0]
  <2>1. 0 \in 0..n
    BY <1>2
  <2>2. none \in V /\ Blocked(page, lines, 0, none)
    BY NoneBlocked
  <2> QED BY <2>1, <2>2
<1>4. step \in [(1..n) \X V -> V]
  <2> HIDE DEF V
  <2> QED OBVIOUS
<1>5. ASSUME NEW h \in 0..(n - 1), NEW x, Blocked(page, lines, h, x)
      PROVE  Blocked(page, lines, h + 1, AddToBlocks(page, x, lines[h + 1]))
  <2>1. h \in Nat /\ h + 1 \in DOMAIN lines
    BY <1>2
  <2>2. LinesRead(page, lines, h, lines[h + 1])
    BY <2>1, LinesReadWell
  <2> DEFINE i == lines[h + 1]
  <2> HIDE DEF i
  <2>3. Blocked(page, lines, h + 1, AddToBlocks(page, x, i))
    BY <1>5, <2>1, <2>2, BlockStepWell DEF i
  <2> QED BY <2>3 DEF i
<1> HIDE DEF V
<1>6. ASSUME NEW h \in 0..(n - 1), NEW x \in V, x \in I[h] PROVE step[<<h + 1, x>>] \in I[h + 1]
  <2>1. h \in 0..n /\ h + 1 \in 0..n /\ h + 1 \in 1..n
    BY <1>2
  <2>2. Blocked(page, lines, h, x)
    BY <1>6, <2>1
  <2>3. Blocked(page, lines, h + 1, AddToBlocks(page, x, lines[h + 1]))
    BY <1>5, <2>2
  <2> DEFINE k == h + 1
  <2> HIDE DEF k
  <2>4. k \in 0..n /\ k \in 1..n /\ Blocked(page, lines, k, AddToBlocks(page, x, lines[k]))
    BY <2>1, <2>3 DEF k
  <2>5. AddToBlocks(page, x, lines[k]) \in V
    BY <2>4, BlockedIsTyped DEF V
  <2>6. step[<<k, x>>] = AddToBlocks(page, x, lines[k])
    BY <2>4, <2>5
  <2>7. step[<<k, x>>] \in I[k]
    BY <2>4, <2>5, <2>6
  <2> QED BY <2>7 DEF k
<1>7. \E g \in [0..n -> V] : BuiltBy(g, none, step, n) /\ \A k \in 0..n : g[k] \in I[k]
  <2> HIDE DEF step, I, cut, none
  <2> QED BY <1>2, <1>3, <1>4, <1>6, StepsKeep
<1>8. PICK g \in [0..n -> V] : BuiltBy(g, none, step, n) /\ \A k \in 0..n : g[k] \in I[k]
  BY <1>7
<1>9. ASSUME NEW k \in 1..n PROVE g[k] = AddToBlocks(page, g[k - 1], lines[k])
  <2> DEFINE h == k - 1
  <2>1. h \in 0..(n - 1) /\ h \in 0..n /\ k = h + 1
    BY <1>2
  <2> HIDE DEF h
  <2>2. g[h] \in V /\ Blocked(page, lines, h, g[h])
    BY <1>8, <2>1
  <2>3. Blocked(page, lines, h + 1, AddToBlocks(page, g[h], lines[h + 1]))
    BY <1>5, <2>1, <2>2
  <2>4. AddToBlocks(page, g[h], lines[k]) \in V
    BY <2>1, <2>3, BlockedIsTyped DEF V
  <2>5. step[<<k, g[h]>>] = AddToBlocks(page, g[h], lines[k])
    BY <2>2, <2>4
  <2>6. g[k] = step[<<k, g[k - 1]>>]
    <3> HIDE DEF step
    <3> QED BY <1>8 DEF BuiltBy
  <2> QED BY <2>5, <2>6 DEF h
<1> HIDE DEF step
<1>10. g = [k \in 0..n |-> IF k = 0 THEN none ELSE AddToBlocks(page, g[k - 1], lines[k])]
  <2>1. \A k \in 0..n : g[k] = IF k = 0 THEN none ELSE AddToBlocks(page, g[k - 1], lines[k])
    <3> HIDE DEF none
    <3> QED BY <1>2, <1>8, <1>9 DEF BuiltBy
  <2> QED BY <1>8, <2>1
<1>11. cut = [k \in 0..n |-> IF k = 0 THEN none ELSE AddToBlocks(page, cut[k - 1], lines[k])]
  BY <1>10 DEF n
<1> HIDE DEF cut, I, none
<1> DEFINE T == {k \in Nat : Blocked(page, lines, k, cut[k])}
<1>12. 0 \in T
  <2>1. 0 \in 0..n
    BY <1>2
  <2>2. cut[0] = none
    BY <1>11, <2>1
  <2> QED BY <2>2, NoneBlocked DEF none
<1>13. ASSUME NEW k \in 0..n, k \in T, k + 1 <= n PROVE k + 1 \in T
  <2> DEFINE h == k + 1
  <2>1. h \in 0..n /\ h # 0 /\ h - 1 = k /\ h \in Nat /\ k \in 0..(n - 1)
    BY <1>2, <1>13
  <2>2. Blocked(page, lines, k, cut[k])
    BY <1>13
  <2>3. Blocked(page, lines, h, AddToBlocks(page, cut[k], lines[h]))
    BY <1>5, <2>1, <2>2
  <2> HIDE DEF h
  <2>4. cut[h] = AddToBlocks(page, cut[k], lines[h])
    BY <1>11, <2>1
  <2>5. h \in T
    BY <2>1, <2>3, <2>4
  <2> QED BY <2>5 DEF h
<1>14. \A k \in 0..n : k \in T
  <2> HIDE DEF T
  <2> QED BY <1>2, <1>12, <1>13, Along
<1>15. Blocked(page, lines, n, all)
  BY <1>2, <1>14
<1> HIDE DEF T
<1> QED BY <1>1, <1>15, FullBlocks DEF n

-----------------------------------------------------------------------------
(* Markdown: the pieces of a section *)

AllKept(page, a) == \A x \in DOMAIN a : FencesWhole(page, a[x])
PiecesKept(page, S, a) == Ranked(S, a) /\ AllKept(page, a)
Packs == [out : Seq(Seq(Int)), buf : Seq(Int)]
Packing(page, bs, k, acc) == acc \in Packs /\ PiecesKept(page, Before(bs, k), Append(acc.out, acc.buf))

LEMMA KeptJoin ==
    ASSUME NEW page, NEW a \in Seq(Int), NEW b \in Seq(Int), FencesWhole(page, a), FencesWhole(page, b)
    PROVE  FencesWhole(page, a \o b)
<1> DEFINE u == a \o b
<1>1. ToSet(u) = ToSet(a) \cup ToSet(b)
  BY ToSetJoin
<1> HIDE DEF u
<1>2. FencesWhole(page, u)
  BY <1>1 DEF FencesWhole
<1> QED BY <1>2 DEF u

LEMMA AllKeptMore ==
    ASSUME NEW page, NEW a \in Seq(Seq(Int)), AllKept(page, a), NEW x \in Seq(Int), FencesWhole(page, x)
    PROVE  AllKept(page, Append(a, x))
<1> DEFINE b == Append(a, x)
<1>1. \A k \in DOMAIN b : b[k] = x \/ \E l \in DOMAIN a : b[k] = a[l]
  BY AllOfMore
<1> HIDE DEF b
<1>2. AllKept(page, b)
  BY <1>1 DEF AllKept
<1> QED BY <1>2 DEF b

LEMMA AllKeptJoin ==
    ASSUME NEW page, NEW a \in Seq(Seq(Int)), NEW b \in Seq(Seq(Int)), AllKept(page, a), AllKept(page, b)
    PROVE  AllKept(page, a \o b)
<1> DEFINE u == a \o b
           m == Len(a)
           n == Len(b)
           h == m + n
<1>1. /\ m \in Nat /\ n \in Nat /\ DOMAIN a = 1..m /\ DOMAIN b = 1..n /\ DOMAIN u = 1..h
      /\ (\A k \in 1..h : (k \in 1..m /\ u[k] = a[k]) \/ (k - m \in 1..n /\ u[k] = b[k - m]))
  OBVIOUS
<1> HIDE DEF u, m, n, h
<1>2. AllKept(page, u)
  BY <1>1 DEF AllKept
<1> QED BY <1>2 DEF u

LEMMA AllKeptFront ==
    ASSUME NEW page, NEW a \in Seq(Seq(Int)), NEW x \in Seq(Int), AllKept(page, Append(a, x))
    PROVE  AllKept(page, a) /\ FencesWhole(page, x)
<1> DEFINE b == Append(a, x)
           n == Len(a)
           h == n + 1
<1>1. n \in Nat /\ h \in DOMAIN b /\ b[h] = x /\ DOMAIN a = 1..n /\ \A k \in 1..n : k \in DOMAIN b /\ b[k] = a[k]
  OBVIOUS
<1> HIDE DEF b, n, h
<1>2. AllKept(page, a) /\ FencesWhole(page, x)
  BY <1>1 DEF AllKept, b
<1> QED BY <1>2

\* What is collected goes out whole.
LEMMA PackedWell ==
    ASSUME NEW page, NEW S, NEW acc \in Packs, PiecesKept(page, S, Append(acc.out, acc.buf))
    PROVE  PiecesKept(page, S, Packed(acc))
<1> DEFINE out == acc.out
           buf == acc.buf
           e == <<>>
<1>1. out \in Seq(Seq(Int)) /\ buf \in Seq(Int)
  BY DEF Packs
<1>2. Packed(acc) = IF buf = e THEN out ELSE Append(out, buf)
  BY DEF Packed
<1> HIDE DEF out, buf
<1>3. Ranked(S, Append(out, buf)) /\ AllKept(page, Append(out, buf))
  BY DEF PiecesKept, out, buf
<1>4. AllKept(page, out)
  BY <1>1, <1>3, AllKeptFront
<1>5. CASE buf = e
  <2>1. Ranked(S, Append(out, <<>>))
    BY <1>3, <1>5
  <2>2. Ranked(S, out)
    BY <1>1, <2>1, RankedWithout
  <2> QED BY <1>2, <1>4, <1>5, <2>2 DEF PiecesKept
<1>6. CASE buf # e
  BY <1>2, <1>3, <1>6 DEF PiecesKept
<1> QED BY <1>5, <1>6

\* A block that is too long: a fence whole, a paragraph in windows.
LEMMA CutBlockWell ==
    ASSUME NEW page, NEW b \in Seq(Int), b # <<>>, Upward(b), FencesWhole(page, b), Plain(page, b), NEW size \in Nat \ {0},
           NEW a, a = IF page[b[1]] = "fence" THEN <<b>> ELSE CutBlock(b, size)
    PROVE  PiecesKept(page, ToSet(b), a)
<1>1. CASE page[b[1]] = "fence"
  <2> DEFINE u == <<b>>
  <2>1. DOMAIN u = {1} /\ u[1] = b
    OBVIOUS
  <2>2. Ranked(ToSet(b), u)
    BY RankedOne
  <2>3. a = u
    BY <1>1
  <2> HIDE DEF u
  <2>4. AllKept(page, u)
    BY <2>1 DEF AllKept
  <2> QED BY <2>2, <2>3, <2>4 DEF PiecesKept
<1>2. CASE page[b[1]] # "fence"
  <2> DEFINE w == Windows(b, size, 0)
  <2>1. a = w
    BY <1>2 DEF CutBlock
  <2>2. Ranked(ToSet(b), w)
    BY RankedWindows
  <2> HIDE DEF w
  <2>3. \A i \in ToSet(b) : ~Odd(page, i - 1) /\ (page[i] = "blank" => Odd(page, i))
    BY <1>2 DEF Plain, FencesWhole
  <2>4. ASSUME NEW x \in DOMAIN w PROVE FencesWhole(page, w[x])
    <3>1. ToSet(w[x]) \subseteq ToSet(b)
      BY <2>2, HeldIn DEF Ranked
    <3> QED BY <2>3, <3>1 DEF FencesWhole
  <2>5. AllKept(page, w)
    BY <2>4 DEF AllKept
  <2> QED BY <2>1, <2>2, <2>5 DEF PiecesKept
<1> QED BY <1>1, <1>2

LEMMA PackStepWell ==
    ASSUME NEW page, NEW S, NEW bs, Blocky(page, S, bs), \A x \in DOMAIN bs : bs[x] # <<>>,
           NEW size \in Nat \ {0}, NEW k \in Nat, NEW h, h = k + 1, h \in DOMAIN bs, NEW acc, Packing(page, bs, k, acc)
    PROVE  Packing(page, bs, h, PackBlock(page, acc, bs[h], size))
<1> DEFINE b == bs[h]
           out == acc.out
           buf == acc.buf
           U == Before(bs, k)
           all == Packed(acc)
           cuts == IF page[b[1]] = "fence" THEN <<b>> ELSE CutBlock(b, size)
           e == <<>>
           new == PackBlock(page, acc, b, size)
<1>1. acc \in Packs /\ PiecesKept(page, U, Append(out, buf)) /\ out \in Seq(Seq(Int)) /\ buf \in Seq(Int)
      /\ acc = [out |-> out, buf |-> buf]
  BY DEF Packing, Packs
<1>2. Ranked(S, bs) /\ FencesWhole(page, b) /\ Plain(page, b) /\ b # <<>>
  BY DEF Blocky
<1>3. Before(bs, h) = U \cup ToSet(b) /\ (\A i \in U, j \in ToSet(b) : i < j) /\ b \in Seq(Int) /\ Upward(b)
  BY <1>2, BeforeMore
<1>4. PiecesKept(page, U, all)
  BY <1>1, PackedWell
<1>5. PiecesKept(page, ToSet(b), cuts)
  <2> HIDE DEF b
  <2> QED BY <1>2, <1>3, CutBlockWell
<1>6. new = IF Len(buf) + Len(b) <= size THEN [out |-> out, buf |-> buf \o b]
            ELSE IF Len(b) <= size THEN [out |-> all, buf |-> b]
            ELSE [out |-> all \o cuts, buf |-> e]
  <2> HIDE DEF b
  <2>1. [acc EXCEPT !.buf = @ \o b] = [out |-> out, buf |-> buf \o b]
    <3> DEFINE new_ == [acc EXCEPT !.buf = @ \o b]
    <3>3. acc.buf \o b \in Seq(Int) /\ acc \in Packs
      BY <1>1, <1>3
    <3>1. new_ \in [out : Seq(Seq(Int)), buf : Seq(Int)] /\ new_.out = out /\ new_.buf = buf \o b
      <4> DEFINE v == acc.buf \o b
      <4> HIDE DEF v
      <4>1. [acc EXCEPT !.buf = v] \in Packs /\ [acc EXCEPT !.buf = v].out = acc.out /\ [acc EXCEPT !.buf = v].buf = v
        BY <3>3 DEF Packs, v
      <4> QED BY <4>1 DEF Packs, v
    <3> HIDE DEF new_, out, buf
    <3>2. new_ = [out |-> out, buf |-> buf \o b]
      BY <3>1
    <3> QED BY <3>2 DEF new_
  <2> QED BY <2>1 DEF PackBlock
<1> HIDE DEF b, out, buf, U, all, cuts, new
<1>7. all \in Seq(Seq(Int)) /\ Ranked(U, all) /\ AllKept(page, all)
  BY <1>4 DEF PiecesKept, Ranked
<1>8. cuts \in Seq(Seq(Int)) /\ Ranked(ToSet(b), cuts) /\ AllKept(page, cuts)
  BY <1>5 DEF PiecesKept, Ranked
<1>9. ASSUME NEW o \in Seq(Seq(Int)), NEW u \in Seq(Int), new = [out |-> o, buf |-> u],
             Ranked(U \cup ToSet(b), Append(o, u)), AllKept(page, Append(o, u))
      PROVE  Packing(page, bs, h, new)
  <2>1. new \in Packs /\ new.out = o /\ new.buf = u
    BY <1>9 DEF Packs
  <2> QED BY <1>3, <1>9, <2>1 DEF Packing, PiecesKept
<1>10. CASE Len(buf) + Len(b) <= size
  <2>1. Ranked(U, Append(out, buf)) /\ AllKept(page, Append(out, buf))
    BY <1>1 DEF PiecesKept
  <2>2. Ranked(U \cup ToSet(b), Append(out, buf \o b))
    BY <1>1, <1>3, <2>1, RankedExtend
  <2>3. AllKept(page, out) /\ FencesWhole(page, buf)
    BY <1>1, <2>1, AllKeptFront
  <2>4. buf \o b \in Seq(Int) /\ FencesWhole(page, buf \o b)
    BY <1>1, <1>2, <1>3, <2>3, KeptJoin
  <2>5. AllKept(page, Append(out, buf \o b))
    BY <1>1, <2>3, <2>4, AllKeptMore
  <2>6. new = [out |-> out, buf |-> buf \o b]
    BY <1>6, <1>10
  <2> DEFINE u == buf \o b
  <2> HIDE DEF u
  <2>7. Packing(page, bs, h, new)
    BY <1>1, <1>9, <2>2, <2>4, <2>5, <2>6 DEF u
  <2> QED BY <2>7 DEF new, b
<1>11. CASE ~(Len(buf) + Len(b) <= size) /\ Len(b) <= size
  <2>1. Ranked(U \cup ToSet(b), Append(all, b))
    BY <1>3, <1>7, RankedMore
  <2>2. AllKept(page, Append(all, b))
    BY <1>2, <1>3, <1>7, AllKeptMore
  <2>3. new = [out |-> all, buf |-> b]
    BY <1>6, <1>11
  <2>4. Packing(page, bs, h, new)
    BY <1>3, <1>7, <1>9, <2>1, <2>2, <2>3
  <2> QED BY <2>4 DEF new, b
<1>12. CASE ~(Len(buf) + Len(b) <= size) /\ ~(Len(b) <= size)
  <2> DEFINE o == all \o cuts
  <2>1. Ranked(U \cup ToSet(b), o)
    BY <1>3, <1>7, <1>8, RankedJoin
  <2>2. o \in Seq(Seq(Int)) /\ AllKept(page, o)
    BY <1>7, <1>8, AllKeptJoin
  <2>3. e \in Seq(Int) /\ e = <<>> /\ ToSet(e) = {}
    BY DEF ToSet
  <2>4. new = [out |-> o, buf |-> e]
    BY <1>6, <1>12
  <2> HIDE DEF o, e
  <2>5. Ranked(U \cup ToSet(b), Append(o, e))
    BY <2>1, <2>3, RankedNone
  <2>6. FencesWhole(page, e)
    BY <2>3 DEF FencesWhole
  <2>7. AllKept(page, Append(o, e))
    BY <2>2, <2>3, <2>6, AllKeptMore
  <2>8. Packing(page, bs, h, new)
    BY <1>9, <2>2, <2>3, <2>4, <2>5, <2>7
  <2> QED BY <2>8 DEF new, b
<1> QED BY <1>10, <1>11, <1>12

PackedFrom(page, lines, ps) ==
    /\ PiecesKept(page, HeldBy(ps), ps) /\ HeldBy(ps) \subseteq ToSet(lines)
    /\ \A j \in ToSet(lines) : page[j] = "blank" \/ j \in HeldBy(ps)

NoPack == [out |-> <<>>, buf |-> <<>>]
LEMMA NoPackWell == ASSUME NEW page, NEW bs PROVE Packing(page, bs, 0, NoPack)
<1> DEFINE e == <<>>
           o == <<>>
           S == {}
<1>1. e \in Seq(Int) /\ DOMAIN e = {} /\ o \in Seq(Seq(Int)) /\ DOMAIN o = {} /\ S = {}
  OBVIOUS
<1>2. NoPack = [out |-> o, buf |-> e]
  BY DEF NoPack
<1>3. 1..0 = {}
  OBVIOUS
<1>4. e = <<>>
  OBVIOUS
<1> HIDE DEF e, o, S
<1>5. Before(bs, 0) = S
  BY <1>1, <1>3 DEF Before
<1>6. Ranked(S, o)
  <2>1. HeldBy(o) = S
    BY <1>1 DEF HeldBy
  <2> QED BY <1>1, <2>1 DEF Ranked
<1>7. Ranked(S, Append(o, e))
  BY <1>4, <1>6, RankedNone
<1>8. AllKept(page, o) /\ FencesWhole(page, e)
  BY <1>1 DEF AllKept, FencesWhole, ToSet
<1>9. AllKept(page, Append(o, e))
  BY <1>1, <1>8, AllKeptMore
<1>10. NoPack \in Packs /\ NoPack.out = o /\ NoPack.buf = e
  BY <1>1, <1>2 DEF Packs
<1> QED BY <1>5, <1>7, <1>9, <1>10 DEF Packing, PiecesKept

LEMMA PackEnds ==
    ASSUME NEW page, NEW lines, NEW bs, BlocksRead(page, lines, bs), NEW acc, Packing(page, bs, Len(bs), acc)
    PROVE  PackedFrom(page, lines, Packed(acc))
<1> DEFINE ps == Packed(acc)
           S == HeldBy(bs)
<1>1. bs \in Seq(Seq(Int)) /\ S \subseteq ToSet(lines) /\ \A j \in ToSet(lines) : page[j] = "blank" \/ j \in S
  BY DEF BlocksRead, Blocky, Ranked
<1>2. Before(bs, Len(bs)) = S
  BY <1>1, BeforeAll
<1>3. PiecesKept(page, S, ps)
  BY <1>2, PackedWell DEF Packing
<1> HIDE DEF ps, S
<1>4. HeldBy(ps) = S
  BY <1>3 DEF PiecesKept, Ranked
<1>5. PackedFrom(page, lines, ps)
  BY <1>1, <1>3, <1>4 DEF PackedFrom
<1> QED BY <1>5 DEF ps

LEMMA PackWell ==
    ASSUME NEW page, NEW lines \in Seq(Int), Upward(lines), Fenced(page, lines), ToSet(lines) \subseteq Nat \ {0},
           NEW size \in Nat \ {0}
    PROVE  PackedFrom(page, lines, Pack(page, lines, size))
<1> DEFINE bs == Blocks(page, lines)
           n == Len(bs)
           packed[k \in 0..Len(bs)] ==
               IF k = 0 THEN [out |-> <<>>, buf |-> <<>>] ELSE PackBlock(page, packed[k - 1], bs[k], size)
           all == packed[n]
           step == [q \in (1..n) \X Packs |->
                      IF PackBlock(page, q[2], bs[q[1]], size) \in Packs THEN PackBlock(page, q[2], bs[q[1]], size) ELSE q[2]]
           I == [k \in 0..n |-> {x \in Packs : Packing(page, bs, k, x)}]
<1>0. Pack(page, lines, size) = Packed(all)
  BY DEF Pack
<1>a. BlocksRead(page, lines, bs)
  BY BlocksWell
<1> HIDE DEF bs
<1>1. bs \in Seq(Seq(Int)) /\ Blocky(page, HeldBy(bs), bs) /\ \A x \in DOMAIN bs : bs[x] # <<>>
  BY <1>a DEF BlocksRead, Blocky, Ranked
<1>2. n \in Nat /\ DOMAIN bs = 1..n
  BY <1>1
<1> HIDE DEF n
<1>3. NoPack \in Packs /\ NoPack \in I[0]
  <2>1. 0 \in 0..n
    BY <1>2
  <2>2. NoPack \in Packs /\ Packing(page, bs, 0, NoPack)
    BY NoPackWell DEF Packing
  <2> QED BY <2>1, <2>2
<1>4. step \in [(1..n) \X Packs -> Packs]
  OBVIOUS
<1>5. ASSUME NEW h \in 0..(n - 1), NEW x, Packing(page, bs, h, x)
      PROVE  Packing(page, bs, h + 1, PackBlock(page, x, bs[h + 1], size))
  <2> DEFINE g == h + 1
  <2>1. h \in Nat /\ g = h + 1 /\ g \in DOMAIN bs
    BY <1>2
  <2> HIDE DEF g
  <2>2. Packing(page, bs, g, PackBlock(page, x, bs[g], size))
    BY <1>1, <1>5, <2>1, PackStepWell
  <2> QED BY <2>2 DEF g
<1>6. ASSUME NEW h \in 0..(n - 1), NEW x \in Packs, x \in I[h] PROVE step[<<h + 1, x>>] \in I[h + 1]
  <2>1. h \in 0..n /\ h + 1 \in 0..n /\ h + 1 \in 1..n
    BY <1>2
  <2>2. Packing(page, bs, h, x)
    BY <1>6, <2>1
  <2>3. Packing(page, bs, h + 1, PackBlock(page, x, bs[h + 1], size))
    BY <1>5, <2>2
  <2> DEFINE k == h + 1
  <2> HIDE DEF k
  <2>4. k \in 0..n /\ k \in 1..n /\ Packing(page, bs, k, PackBlock(page, x, bs[k], size))
    BY <2>1, <2>3 DEF k
  <2>5. PackBlock(page, x, bs[k], size) \in Packs
    BY <2>4 DEF Packing
  <2>6. step[<<k, x>>] = PackBlock(page, x, bs[k], size)
    BY <2>4, <2>5
  <2>7. step[<<k, x>>] \in I[k]
    BY <2>4, <2>5, <2>6
  <2> QED BY <2>7 DEF k
<1>7. \E g \in [0..n -> Packs] : BuiltBy(g, NoPack, step, n) /\ \A k \in 0..n : g[k] \in I[k]
  <2> HIDE DEF step, I, packed
  <2> QED BY <1>2, <1>3, <1>4, <1>6, StepsKeep
<1>8. PICK g \in [0..n -> Packs] : BuiltBy(g, NoPack, step, n) /\ \A k \in 0..n : g[k] \in I[k]
  BY <1>7
<1>9. ASSUME NEW k \in 1..n PROVE g[k] = PackBlock(page, g[k - 1], bs[k], size)
  <2> DEFINE h == k - 1
  <2>1. h \in 0..(n - 1) /\ h \in 0..n /\ k = h + 1
    BY <1>2
  <2> HIDE DEF h
  <2>2. g[h] \in Packs /\ Packing(page, bs, h, g[h])
    BY <1>8, <2>1
  <2>3. Packing(page, bs, h + 1, PackBlock(page, g[h], bs[h + 1], size))
    BY <1>5, <2>1, <2>2
  <2>4. PackBlock(page, g[h], bs[k], size) \in Packs
    BY <2>1, <2>3 DEF Packing
  <2>5. step[<<k, g[h]>>] = PackBlock(page, g[h], bs[k], size)
    BY <2>2, <2>4
  <2>6. g[k] = step[<<k, g[k - 1]>>]
    <3> HIDE DEF step
    <3> QED BY <1>8 DEF BuiltBy
  <2> QED BY <2>5, <2>6 DEF h
<1> HIDE DEF step
<1>10. g = [k \in 0..n |-> IF k = 0 THEN NoPack ELSE PackBlock(page, g[k - 1], bs[k], size)]
  <2>1. \A k \in 0..n : g[k] = IF k = 0 THEN NoPack ELSE PackBlock(page, g[k - 1], bs[k], size)
    BY <1>2, <1>8, <1>9 DEF BuiltBy
  <2> QED BY <1>8, <2>1
<1>11. packed = [k \in 0..n |-> IF k = 0 THEN NoPack ELSE PackBlock(page, packed[k - 1], bs[k], size)]
  BY <1>10 DEF n, NoPack
<1> HIDE DEF packed, I
<1> DEFINE T == {k \in Nat : Packing(page, bs, k, packed[k])}
<1>12. 0 \in T
  <2>1. 0 \in 0..n
    BY <1>2
  <2>2. packed[0] = NoPack
    BY <1>11, <2>1
  <2> QED BY <2>2, NoPackWell
<1>13. ASSUME NEW k \in 0..n, k \in T, k + 1 <= n PROVE k + 1 \in T
  <2> DEFINE h == k + 1
  <2>1. h \in 0..n /\ h # 0 /\ h - 1 = k /\ h \in Nat /\ k \in 0..(n - 1)
    BY <1>2, <1>13
  <2>2. Packing(page, bs, k, packed[k])
    BY <1>13
  <2>3. Packing(page, bs, h, PackBlock(page, packed[k], bs[h], size))
    BY <1>5, <2>1, <2>2
  <2> HIDE DEF h
  <2>4. packed[h] = PackBlock(page, packed[k], bs[h], size)
    BY <1>11, <2>1
  <2>5. h \in T
    BY <2>1, <2>3, <2>4
  <2> QED BY <2>5 DEF h
<1>14. \A k \in 0..n : k \in T
  <2> HIDE DEF T
  <2> QED BY <1>2, <1>12, <1>13, Along
<1>15. Packing(page, bs, n, all)
  BY <1>2, <1>14
<1> HIDE DEF T
<1> QED BY <1>0, <1>a, <1>15, PackEnds DEF n

-----------------------------------------------------------------------------
(* Markdown: a page *)

\* The chunks a section becomes, under its path.
CutOf(page, s, sec, ps) ==
    /\ s \in Seq(Section) /\ DOMAIN s = DOMAIN ps /\ PackedFrom(page, sec.lines, ps)
    /\ \A j \in DOMAIN s : s[j].lines = ps[j] /\ s[j].path = sec.path
\* A chunk that is kept, and under the path of a section its lines are of.
ChunkFrom(page, c_, e) ==
    FencesWhole(page, c_.lines) /\ \E x \in DOMAIN e : ToSet(c_.lines) \subseteq ToSet(e[x].lines) /\ c_.path = e[x].path
PageCut(page, e, b) ==
    /\ b \in Seq(Section) /\ Ranked(HeldBy(LinesOf(b)), LinesOf(b))
    /\ HeldBy(LinesOf(b)) \subseteq HeldBy(LinesOf(e))
    /\ \A j \in HeldBy(LinesOf(e)) : page[j] = "blank" \/ j \in HeldBy(LinesOf(b))
    /\ \A k \in DOMAIN b : ChunkFrom(page, b[k], e)

LEMMA CutOfWell ==
    ASSUME NEW page, NEW sec \in Section, NEW ps, PackedFrom(page, sec.lines, ps)
    PROVE  CutOf(page, [j \in DOMAIN ps |-> [lines |-> ps[j], path |-> sec.path]], sec, ps)
<1> DEFINE s == [j \in DOMAIN ps |-> [lines |-> ps[j], path |-> sec.path]]
           n == Len(ps)
           p == sec.path
<1>1. ps \in Seq(Seq(Int))
  BY DEF PackedFrom, PiecesKept, Ranked
<1>2. n \in Nat /\ DOMAIN ps = 1..n /\ \A j \in 1..n : ps[j] \in Seq(Int)
  BY <1>1
<1>3. p \in Seq(Int)
  BY DEF Section
<1> HIDE DEF n, p
<1>4. s = [j \in 1..n |-> [lines |-> ps[j], path |-> p]]
  BY <1>2 DEF p
<1> HIDE DEF s
<1>5. s \in [1..n -> Section]
  BY <1>2, <1>3, <1>4 DEF Section
<1>6. s \in Seq(Section) /\ DOMAIN s = DOMAIN ps
  BY <1>2, <1>5
<1>7. \A j \in DOMAIN s : s[j].lines = ps[j] /\ s[j].path = p
  BY <1>2, <1>4
<1>8. CutOf(page, s, sec, ps)
  BY <1>6, <1>7 DEF CutOf, p
<1> QED BY <1>8 DEF s

LEMMA PageFlat ==
    ASSUME NEW page, NEW N \in Nat, NEW e \in Seq(Section), Len(e) = N, Ranked(HeldBy(LinesOf(e)), LinesOf(e)),
           NEW cs, NEW ss \in Seq(Seq(Section)), Len(ss) = N, \A n \in 1..N : CutOf(page, ss[n], e[n], cs[n])
    PROVE  PageCut(page, e, FlattenSeq(ss))
<1> DEFINE b == FlattenSeq(ss)
           n == Len(b)
           a == LinesOf(b)
           H == HeldBy(LinesOf(e))
<1>1. b \in Seq(Section) /\ \E row, col : FlatPlaces(ss, N, b, row, col)
  BY FlattenedWell
<1>2. PICK row, col : FlatPlaces(ss, N, b, row, col)
  BY <1>1
<1> HIDE DEF b
<1>3. n \in Nat /\ DOMAIN b = 1..n
  BY <1>1
<1>4. /\ row \in [1..n -> Nat] /\ col \in [1..n -> Nat]
      /\ \A k \in 1..n : row[k] \in 1..N /\ col[k] \in DOMAIN ss[row[k]] /\ b[k] = ss[row[k]][col[k]]
      /\ \A k, l \in 1..n : k < l => row[k] < row[l] \/ (row[k] = row[l] /\ col[k] < col[l])
      /\ \A i \in 1..N : \A j \in DOMAIN ss[i] : \E k \in 1..n : row[k] = i /\ col[k] = j
  BY <1>2 DEF FlatPlaces
<1> HIDE DEF n
<1>5. a \in Seq(Seq(Int)) /\ DOMAIN a = 1..n /\ \A k \in 1..n : a[k] = b[k].lines
  BY <1>1, <1>3, LinesTyped DEF LinesOf
<1>6. /\ DOMAIN e = 1..N
      /\ \A x \in 1..N : LinesOf(e)[x] = e[x].lines /\ x \in DOMAIN LinesOf(e)
      /\ \A x, y \in 1..N : x < y => \A i \in ToSet(e[x].lines), j \in ToSet(e[y].lines) : i < j
  <2>1. DOMAIN e = 1..N
    OBVIOUS
  <2>2. DOMAIN LinesOf(e) = 1..N /\ \A x \in 1..N : LinesOf(e)[x] = e[x].lines
    BY <2>1 DEF LinesOf
  <2>3. \A x, y \in DOMAIN LinesOf(e) : x < y => \A i \in ToSet(LinesOf(e)[x]), j \in ToSet(LinesOf(e)[y]) : i < j
    BY DEF Ranked
  <2> QED BY <2>1, <2>2, <2>3
<1> HIDE DEF a
<1>7. ASSUME NEW x \in 1..N
      PROVE  /\ DOMAIN ss[x] = DOMAIN cs[x] /\ \A j \in DOMAIN cs[x] : ss[x][j].lines = cs[x][j] /\ ss[x][j].path = e[x].path
             /\ Ranked(HeldBy(cs[x]), cs[x]) /\ AllKept(page, cs[x]) /\ HeldBy(cs[x]) \subseteq ToSet(e[x].lines)
             /\ \A j \in ToSet(e[x].lines) : page[j] = "blank" \/ j \in HeldBy(cs[x])
  BY DEF CutOf, PackedFrom, PiecesKept
<1>8. ASSUME NEW k \in 1..n
      PROVE  /\ row[k] \in 1..N /\ row[k] \in Nat /\ col[k] \in DOMAIN cs[row[k]] /\ col[k] \in Nat
             /\ a[k] = cs[row[k]][col[k]] /\ b[k].path = e[row[k]].path /\ ToSet(a[k]) \subseteq ToSet(e[row[k]].lines)
             /\ b[k].lines = a[k]
  <2>1. row[k] \in 1..N /\ col[k] \in DOMAIN ss[row[k]] /\ b[k] = ss[row[k]][col[k]] /\ row[k] \in Nat /\ col[k] \in Nat
    BY <1>4
  <2>2. col[k] \in DOMAIN cs[row[k]] /\ a[k] = cs[row[k]][col[k]] /\ b[k].path = e[row[k]].path /\ b[k].lines = a[k]
    BY SMTT(30), <1>5, <1>7, <2>1
  <2>3. ToSet(a[k]) \subseteq HeldBy(cs[row[k]])
    BY <2>2, HeldIn
  <2> QED BY <1>7, <2>1, <2>2, <2>3
<1>9. \A k \in DOMAIN a : Upward(a[k]) /\ FencesWhole(page, a[k])
  <2> SUFFICES ASSUME NEW k \in 1..n PROVE Upward(a[k]) /\ FencesWhole(page, a[k])
    BY <1>5
  <2> DEFINE x == row[k]
             p == col[k]
  <2>1. x \in 1..N /\ p \in DOMAIN cs[x] /\ a[k] = cs[x][p]
    BY <1>8
  <2> HIDE DEF x, p
  <2>2. Ranked(HeldBy(cs[x]), cs[x]) /\ AllKept(page, cs[x])
    BY <1>7, <2>1
  <2>3. Upward(cs[x][p])
    BY <2>1, <2>2 DEF Ranked
  <2>4. FencesWhole(page, cs[x][p])
    BY <2>1, <2>2 DEF AllKept
  <2> QED BY <2>1, <2>3, <2>4
<1>10. \A k, l \in DOMAIN a : k < l => \A i \in ToSet(a[k]), j \in ToSet(a[l]) : i < j
  <2> SUFFICES ASSUME NEW k \in 1..n, NEW l \in 1..n, k < l, NEW i \in ToSet(a[k]), NEW j \in ToSet(a[l]) PROVE i < j
    BY <1>5
  <2> DEFINE x == row[k]
             y == row[l]
             p == col[k]
             q == col[l]
  <2>1. x < y \/ (x = y /\ p < q)
    BY <1>4
  <2>2. x \in 1..N /\ p \in DOMAIN cs[x] /\ a[k] = cs[x][p] /\ ToSet(a[k]) \subseteq ToSet(e[x].lines)
    BY <1>8
  <2>3. y \in 1..N /\ q \in DOMAIN cs[y] /\ a[l] = cs[y][q] /\ ToSet(a[l]) \subseteq ToSet(e[y].lines)
    BY <1>8
  <2> HIDE DEF x, y, p, q
  <2>4. CASE x < y
    BY <1>6, <2>2, <2>3, <2>4
  <2>5. CASE x = y /\ p < q
    <3>1. Ranked(HeldBy(cs[x]), cs[x])
      BY <1>7, <2>2
    <3>2. \A i_ \in ToSet(cs[x][p]), j_ \in ToSet(cs[x][q]) : i_ < j_
      BY <2>2, <2>3, <2>5, <3>1 DEF Ranked
    <3> QED BY <2>2, <2>3, <2>5, <3>2
  <2> QED BY <2>1, <2>4, <2>5
<1>11. HeldBy(a) \subseteq H
  <2> SUFFICES ASSUME NEW k \in 1..n PROVE ToSet(a[k]) \subseteq H
    BY <1>5 DEF HeldBy
  <2>1. row[k] \in DOMAIN LinesOf(e) /\ LinesOf(e)[row[k]] = e[row[k]].lines
    BY <1>6, <1>8
  <2>2. ToSet(LinesOf(e)[row[k]]) \subseteq H
    BY <2>1, HeldIn
  <2> QED BY <1>8, <2>1, <2>2
<1>12. ASSUME NEW j \in H PROVE page[j] = "blank" \/ j \in HeldBy(a)
  <2>1. PICK x \in 1..N : j \in ToSet(e[x].lines)
    <3>1. PICK y \in DOMAIN LinesOf(e) : j \in ToSet(LinesOf(e)[y])
      BY DEF HeldBy
    <3>2. DOMAIN LinesOf(e) = 1..N
      BY <1>6 DEF LinesOf
    <3> QED BY <1>6, <3>1, <3>2
  <2> SUFFICES ASSUME page[j] # "blank" PROVE j \in HeldBy(a)
    OBVIOUS
  <2>2. j \in HeldBy(cs[x])
    BY <1>7, <2>1
  <2>3. PICK y \in DOMAIN cs[x] : j \in ToSet(cs[x][y])
    BY <2>2 DEF HeldBy
  <2>4. PICK k \in 1..n : row[k] = x /\ col[k] = y
    BY <1>4, <1>7, <2>1, <2>3
  <2>5. a[k] = cs[x][y] /\ k \in DOMAIN a
    BY <1>5, <1>8, <2>4
  <2> QED BY <2>3, <2>5, HeldIn
<1>13. HeldBy(a) \subseteq Int /\ Ranked(HeldBy(a), a)
  <2>1. ASSUME NEW k \in DOMAIN a PROVE ToSet(a[k]) \subseteq Int
    <3>0. a \in Seq(Seq(Int))
      BY <1>5
    <3>1. a[k] \in Seq(Int)
      BY ONLY <3>0, k \in DOMAIN a
    <3> QED BY <3>1 DEF ToSet
  <2>2. HeldBy(a) \subseteq Int
    BY <2>1 DEF HeldBy
  <2> QED BY <1>5, <1>9, <1>10, <2>2 DEF Ranked
<1>14. ASSUME NEW k \in DOMAIN b PROVE ChunkFrom(page, b[k], e)
  <2>1. FencesWhole(page, b[k].lines)
    BY <1>3, <1>5, <1>8, <1>9
  <2>2. row[k] \in DOMAIN e /\ ToSet(b[k].lines) \subseteq ToSet(e[row[k]].lines) /\ b[k].path = e[row[k]].path
    BY <1>3, <1>6, <1>8
  <2> QED BY <2>1, <2>2 DEF ChunkFrom
<1>15. PageCut(page, e, b)
  BY <1>1, <1>11, <1>12, <1>13, <1>14 DEF PageCut, a
<1> QED BY <1>15 DEF b

LEMMA PageWell ==
    ASSUME NEW page \in Seq(Lines), NEW size \in Nat \ {0}
    PROVE  PageCut(page, Coalesce(page, Sections(page)), SplitMarkdown(page, size))
<1> DEFINE m == Len(page)
           e == Coalesce(page, Sections(page))
           N == Len(e)
           cs == [k \in DOMAIN e |-> Pack(page, e[k].lines, size)]
           ss == [k \in DOMAIN e |->
                    LET parts == Pack(page, e[k].lines, size) IN
                    [j \in DOMAIN parts |-> [lines |-> parts[j], path |-> e[k].path]]]
<1>1. m \in Nat /\ Ended(page, m, Sections(page))
  BY SectionsWell
<1> HIDE DEF m
<1>2. Joint(page, m, e)
  BY <1>1, CoalesceWell
<1>3. SplitMarkdown(page, size) = FlattenSeq(ss)
  BY DEF SplitMarkdown
<1> HIDE DEF e
<1>4. e \in Seq(Section) /\ Ranked(HeldBy(LinesOf(e)), LinesOf(e)) /\ HeldBy(LinesOf(e)) \subseteq 1..m
      /\ \A k \in DOMAIN e : SectionWell(page, e[k])
  BY <1>2 DEF Joint, Placed
<1>5. N \in Nat /\ DOMAIN e = 1..N
  BY <1>4
<1> HIDE DEF N
<1>6. ASSUME NEW k \in 1..N PROVE CutOf(page, ss[k], e[k], cs[k])
  <2> DEFINE sec == e[k]
             lines == sec.lines
             ps == Pack(page, lines, size)
             made == [j \in DOMAIN ps |-> [lines |-> ps[j], path |-> sec.path]]
  <2>1. sec \in Section /\ Fenced(page, lines) /\ lines \in Seq(Int)
    BY <1>4, <1>5 DEF SectionWell, Section
  <2>2. k \in DOMAIN LinesOf(e) /\ LinesOf(e)[k] = lines
    BY <1>5 DEF LinesOf
  <2>3. ss[k] = made /\ cs[k] = ps
    BY <1>5
  <2> HIDE DEF lines, ss, cs
  <2>4. Upward(lines)
    BY <1>4, <2>2 DEF Ranked
  <2>5. ToSet(lines) \subseteq Nat \ {0}
    <3>1. ToSet(lines) \subseteq HeldBy(LinesOf(e))
      BY <2>2, HeldIn
    <3>2. 1..m \subseteq Nat \ {0}
      BY <1>1
    <3> QED BY <1>4, <3>1, <3>2
  <2>6. PackedFrom(page, lines, ps)
    BY <2>1, <2>4, <2>5, PackWell
  <2> HIDE DEF ps, sec
  <2>7. CutOf(page, made, sec, ps)
    BY <2>1, <2>6, CutOfWell DEF lines
  <2> HIDE DEF made
  <2>8. CutOf(page, ss[k], sec, cs[k])
    BY <2>3, <2>7
  <2> QED BY <2>8 DEF sec
<1>7. ss \in Seq(Seq(Section)) /\ Len(ss) = N
  <2>1. \A k \in 1..N : ss[k] \in Seq(Section)
    BY <1>6 DEF CutOf
  <2>2. DOMAIN ss = 1..N /\ ss = [k \in 1..N |-> ss[k]]
    BY <1>5
  <2> HIDE DEF ss
  <2>3. ss \in [1..N -> Seq(Section)]
    BY <2>1, <2>2
  <2> QED BY <1>5, <2>3
<1> HIDE DEF cs, ss
<1>8. Len(e) = N
  BY DEF N
<1>9. PageCut(page, e, FlattenSeq(ss))
  BY <1>4, <1>5, <1>6, <1>7, <1>8, PageFlat
<1> QED BY <1>3, <1>9 DEF e

LEMMA PathsStay ==
    ASSUME NEW page \in Seq(Lines), NEW e, e = Coalesce(page, Sections(page)), NEW c_, ChunkFrom(page, c_, e)
    PROVE  \A i \in ToSet(c_.lines) : Heading(page, i) \/ c_.path = Above(page, i)
<1> SUFFICES ASSUME NEW i \in ToSet(c_.lines) PROVE Heading(page, i) \/ c_.path = Above(page, i)
  OBVIOUS
<1> DEFINE m == Len(page)
<1>1. m \in Nat /\ Ended(page, m, Sections(page))
  BY SectionsWell
<1> HIDE DEF m
<1>2. Joint(page, m, e)
  BY <1>1, CoalesceWell
<1>3. PICK x \in DOMAIN e : ToSet(c_.lines) \subseteq ToSet(e[x].lines) /\ c_.path = e[x].path
  BY DEF ChunkFrom
<1>4. PathWell(page, e[x].lines, e[x].path)
  BY <1>2 DEF Joint, SectionWell
<1>5. Heading(page, i) \/ (page[i] = "blank" /\ ~Odd(page, i)) \/ c_.path = Above(page, i)
  BY <1>3, <1>4 DEF PathWell
<1>6. page[i] = "blank" => Odd(page, i)
  BY DEF ChunkFrom, FencesWhole
<1> QED BY <1>5, <1>6

LEMMA MarkdownIsKept == ChunkInv => MarkdownKept
<1> SUFFICES ASSUME ChunkInv, Cut("markdown") PROVE MarkdownKept
  BY DEF MarkdownKept
<1>1. MarkdownIn /\ MarkdownOut
  BY KindIs DEF ChunkInv, Cut
<1>2. PICK page \in Pages, size \in PageSizes : input.page = page /\ input.size = size
  BY <1>1 DEF MarkdownIn
<1>3. size \in Nat \ {0}
  <2>1. PageSizes \subseteq Nat \ {0}
    BY ChunkingAssumption
  <2> QED BY <2>1
<1>4. page \in Seq(Lines)
  <2>1. Pages \subseteq Seq(Lines)
    BY ChunkingAssumption DEF Lines
  <2> QED BY <2>1
<1> DEFINE e == Coalesce(page, Sections(page))
           a == LinesOf(chunks)
           all == FlattenSeq(a)
           m == Len(page)
<1>5. PageCut(page, e, chunks)
  <2>1. chunks = SplitMarkdown(page, size)
    BY <1>1, <1>2 DEF MarkdownOut
  <2> QED BY <1>3, <1>4, <2>1, PageWell
<1>6. m \in Nat /\ DOMAIN page = 1..m /\ Ended(page, m, Sections(page))
  BY <1>4, SectionsWell
<1> HIDE DEF m
<1>7. \A j \in 1..m : page[j] = "blank" \/ j \in HeldBy(LinesOf(e))
  BY <1>6, CoalesceWell DEF Joint, Placed
<1> HIDE DEF e
<1>8. Ranked(HeldBy(a), a) /\ (\A j \in HeldBy(LinesOf(e)) : page[j] = "blank" \/ j \in HeldBy(a))
      /\ \A k \in DOMAIN chunks : ChunkFrom(page, chunks[k], e)
  BY <1>5 DEF PageCut
<1>9. all \in Seq(Int) /\ Upward(all) /\ ToSet(all) = HeldBy(a)
  <2> HIDE DEF a
  <2> QED BY <1>8, RankedFlat
<1>10. all = FlattenSeq([k \in DOMAIN chunks |-> chunks[k].lines])
  BY DEF LinesOf
<1> HIDE DEF all, a
<1>11. Increasing(all)
  <2>1. \A i \in 2..Len(all) : i - 1 \in DOMAIN all /\ i \in DOMAIN all /\ i - 1 < i
    BY <1>9
  <2> QED BY <1>9, <2>1 DEF Increasing, Upward
<1>12. {i \in DOMAIN page : page[i] # "blank"} \subseteq ToSet(all)
  BY <1>6, <1>7, <1>8, <1>9
<1>13. ASSUME NEW k \in DOMAIN chunks, NEW i \in DOMAIN page \ {1}, i \in ToSet(chunks[k].lines),
              Cardinality({j \in 1..(i - 1) : page[j] = "fence"}) % 2 = 1
       PROVE  i - 1 \in ToSet(chunks[k].lines)
  <2>1. Odd(page, i - 1)
    BY <1>13 DEF Odd
  <2>2. FencesWhole(page, chunks[k].lines)
    BY <1>8 DEF ChunkFrom
  <2> QED BY <1>13, <2>1, <2>2 DEF FencesWhole
<1>14. ASSUME NEW k \in DOMAIN chunks
       PROVE  \A i \in ToSet(chunks[k].lines) : Heading(page, i) \/ chunks[k].path = Above(page, i)
  <2>1. ChunkFrom(page, chunks[k], e)
    BY <1>8
  <2>2. e = Coalesce(page, Sections(page))
    BY DEF e
  <2> QED BY <1>4, <2>1, <2>2, PathsStay
<1> QED BY <1>2, <1>10, <1>11, <1>12, <1>13, <1>14 DEF MarkdownKept

-----------------------------------------------------------------------------
(* What is cut is kept *)

LEMMA ChunkInvKeeps == ChunkInv => ChunkingKept
BY TextIsKept, MarkdownIsKept, TableIsKept, BlocksAreKept DEF ChunkingKept

\* The chunks of a text, a page, a table and a parsed page are what was cut: for
\* every text, page, layout and rule, whatever the sizes and overlaps (split_text,
\* _split_markdown, split_table_with_header, _split_layout_aware).
THEOREM ChunksAreText == ChunkSpec => []ChunkingKept
<1> QED BY ChunkInvKeeps, ChunkStarts, ChunkGoesOn, PTL DEF ChunkSpec

-----------------------------------------------------------------------------
(* The parts of Search *)

\* The part at work has its invariant; the others have not begun.
SearchInv ==
    /\ EmbedInv /\ RetrievalInv
    /\ IF part = "chunking" THEN ChunkInv ELSE NoChunking
    /\ IF part = "drafts" THEN DraftsInv ELSE NoDrafts
    /\ IF part = "faqs" THEN LookupInv ELSE NoLookups

LEMMA NoChunkingKeeps == NoChunking => ChunkingKept
<1> SUFFICES ASSUME NoChunking PROVE ChunkingKept
  OBVIOUS
<1>1. input.kind = "none"
  BY DEF NoChunking
<1>2. ~Cut("text") /\ ~Cut("markdown") /\ ~Cut("table") /\ ~Cut("layout")
  BY <1>1 DEF Cut
<1> QED BY <1>2 DEF ChunkingKept, TextKept, NothingLost, ChunkBounds, MarkdownKept, TableKept, BlocksKept

LEMMA NoDraftsKeeps == NoDrafts => DraftsKept
<1> SUFFICES ASSUME NoDrafts PROVE DraftsKept
  OBVIOUS
<1>1. drafting.stage = "none" /\ drafts = <<>>
  BY DEF NoDrafts
<1>2. DraftsCite
  BY <1>1 DEF DraftsCite
<1>3. DraftsApart /\ DraftsWait /\ DistanceRight
  BY <1>1 DEF DraftsApart, DraftsWait, DistanceRight
<1> QED BY <1>2, <1>3 DEF DraftsKept

LEMMA NoLookupsKeeps == NoLookups => LookupKept
<1> SUFFICES ASSUME NoLookups PROVE LookupKept
  OBVIOUS
<1>1. OutcomeRight
  BY DEF NoLookups, OutcomeRight
<1>2. EntriesLead
  BY DEF NoLookups, EntriesLead
<1> QED BY <1>1, <1>2 DEF LookupKept

LEMMA SearchInvKeeps == SearchInv => TextsKept /\ RetrievalKept /\ LookupKept
<1> SUFFICES ASSUME SearchInv PROVE TextsKept /\ RetrievalKept /\ LookupKept
  OBVIOUS
<1>1. ChunkingKept
  BY ChunkInvKeeps, NoChunkingKeeps DEF SearchInv
<1>2. VectorsMatch
  BY DEF SearchInv, EmbedInv
<1>3. DraftsKept
  BY DraftsInvCites, NoDraftsKeeps DEF SearchInv
<1>4. RetrievalKept
  BY RetrievalInvKeeps DEF SearchInv
<1>5. LookupKept
  BY LookupInvKeeps, NoLookupsKeeps DEF SearchInv
<1> QED BY <1>1, <1>2, <1>3, <1>4, <1>5 DEF TextsKept

LEMMA SearchStarts == SearchInit => SearchInv
<1> SUFFICES ASSUME SearchInit PROVE SearchInv
  OBVIOUS
<1>1. EmbedInit /\ RetrievalInit
  BY DEF SearchInit, NoEmbedding, NoRetrieval
<1>2. EmbedInv /\ RetrievalInv
  BY <1>1, EmbedStarts, RetrievalStarts
<1>3. IF part = "chunking" THEN ChunkInit ELSE NoChunking
  BY DEF SearchInit
<1>4. IF part = "drafts" THEN DraftsInit ELSE NoDrafts
  BY DEF SearchInit
<1>5. IF part = "faqs" THEN LookupInit ELSE NoLookups
  BY DEF SearchInit
<1> QED BY <1>2, <1>3, <1>4, <1>5, ChunkStarts, DraftsStart, LookupStarts DEF SearchInv

\* A part that has not begun stays so while another is at work.
LEMMA OthersStay ==
    /\ UNCHANGED chunk_vars => (NoChunking => NoChunking')
    /\ UNCHANGED draft_vars => (NoDrafts => NoDrafts')
    /\ UNCHANGED lookup_vars => (NoLookups => NoLookups')
<1>1. UNCHANGED chunk_vars => (NoChunking => NoChunking')
  BY DEF chunk_vars, NoChunking
<1>2. UNCHANGED draft_vars => (NoDrafts => NoDrafts')
  BY DEF draft_vars, NoDrafts
<1>3. UNCHANGED lookup_vars => (NoLookups => NoLookups')
  BY DEF lookup_vars, NoLookups
<1> QED BY <1>1, <1>2, <1>3

LEMMA SearchGoesOn == SearchInv /\ [SearchNext]_search_vars => SearchInv'
<1> SUFFICES ASSUME SearchInv, [SearchNext]_search_vars PROVE SearchInv'
  OBVIOUS
<1>1. /\ [ChunkNext]_chunk_vars /\ [EmbedNext]_embed_vars /\ [RetrievalNext]_retrieval_vars
      /\ [LookupNext]_lookup_vars /\ [DraftsNext]_draft_vars /\ part' = part
      /\ part # "chunking" => UNCHANGED chunk_vars
      /\ part # "drafts" => UNCHANGED draft_vars
      /\ part # "faqs" => UNCHANGED lookup_vars
  BY DEF SearchNext, search_vars, ChunkStep, EmbedStep, RetrievalStep, FaqStep, DraftStep
<1>2. EmbedInv' /\ RetrievalInv'
  BY <1>1, EmbedGoesOn, RetrievalGoesOn DEF SearchInv
<1>3. IF part = "chunking" THEN ChunkInv' ELSE NoChunking'
  BY <1>1, ChunkGoesOn, OthersStay DEF SearchInv
<1>4. IF part = "drafts" THEN DraftsInv' ELSE NoDrafts'
  BY <1>1, DraftsGoOn, OthersStay DEF SearchInv
<1>5. IF part = "faqs" THEN LookupInv' ELSE NoLookups'
  BY <1>1, LookupStep, OthersStay DEF SearchInv
<1> QED BY <1>1, <1>2, <1>3, <1>4, <1>5 DEF SearchInv

\* No text is lost or told of another on its way into chunks, vectors, drafts and
\* answers, whichever part is at work, for any texts, settings and services
\* (chunking.py, embedding.py, retrieve, generate_from_document, check_faq_hit).
THEOREM TextsAreKept == SearchSpec => [](TextsKept /\ RetrievalKept /\ LookupKept)
<1> QED BY SearchInvKeeps, SearchStarts, SearchGoesOn, PTL DEF SearchSpec

================================================================================
