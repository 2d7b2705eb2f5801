---------------------------- MODULE Sessions_proofs ----------------------------
(***************************************************************************)
(* Proofs about sessions and what is remembered, for any sessions, askers, *)
(* turns, sweeps, deletions, trims, workers that crash and limits: the     *)
(* counts, contexts and memories of every session are sound, a session     *)
(* that is read forgets the turns a trim deleted, and a trim deletes only  *)
(* the oldest.  The invariant says of each transaction what it will write, *)
(* and of each two that have written which locks keep them apart.          *)
(***************************************************************************)
EXTENDS Sessions, FiniteSetTheorems, SequenceTheorems, WellFoundedInduction, TLAPS

-----------------------------------------------------------------------------
(* The invariant: what holds of each transaction, of each two of them, of the *)
(* rows and of what is remembered.                                            *)

\* An ask holds its session from its turn on.
AskForm(x) ==
    /\ x.own \in Ids
    /\ x.stage = "loaded" => x.turn = 0 /\ x.held \subseteq {x.own}
    /\ x.stage # "loaded" => /\ x.turn \in 1..(next - 1) /\ home[x.turn] = None
                             /\ x.own \in x.held /\ x.count > 0
    /\ x.kept /\ x.stage # "loaded" => Exists(x.own)
    /\ ~x.kept => row[x.own] = Unborn /\ ~x.expired
SweepForm(x) ==
    x.own = None /\ x.turn = 0 /\ x.stage \in {"flushed", "aged", "deleted", "written"}

Late == {"settled", "read", "written"}
\* What a transaction deletes and recounts, stage by stage.
TxForm(x) ==
    /\ x.count < next
    /\ x.own \notin x.drop /\ x.turn \notin x.del /\ x.clear \subseteq x.todo \cup DOMAIN x.fix
    /\ x.stage \in {"loaded", "flushed"} => x.drop = {}
    /\ x.stage \in {"loaded", "flushed", "aged"} => x.del = {} /\ x.todo = {} /\ DOMAIN x.fix = {}
    /\ x.stage \in {"deleted"} \cup Late => x.drop \subseteq x.held
    /\ x.stage \in Late =>
          /\ x.todo = {} /\ DOMAIN x.fix \subseteq x.held
          /\ \A s \in DOMAIN x.fix : x.fix[s] = 0 => s \in x.drop
          /\ \A s \in DOMAIN x.fix : s \in x.drop \/ s = x.own \/ Exists(s)
    /\ x.stage # "written" => x.wrote = {}
    /\ x.own \in DOMAIN x.fix => x.wrote = {} /\ x.fix[x.own] > 0 /\ x.stage # "read"
    /\ \A s \in DOMAIN x.fix : x.fix[s] < next
    /\ \A t \in x.del : t < next /\ (home[t] = None \/ home[t] \in x.todo \cup DOMAIN x.fix)
    /\ \A s \in Affected(x) : row[s] # Unborn

\* The context of a session is the end of its history.
Covers(c, s) == \A t \in Messages(s) : c # <<>> /\ t >= c[1] => t \in ToSet(c)
ContextForm(s) == /\ Increasing(ctx[s]) /\ Covers(ctx[s], s)
                  /\ \A t \in ToSet(ctx[s]) : t < next

\* While an ask holds its session its turn is the last one there, and what it
\* deletes of the session are the first ones.
LastTurnForm(x) ==
    /\ \A t \in Messages(x.own) : t < x.turn
    /\ x.stage # "written" => \A t \in ToSet(ctx[x.own]) : t < x.turn
    /\ x.stage = "written" => ctx[x.own] = <<>> \/ x.turn \in ToSet(ctx[x.own])
    /\ \A t, u \in Messages(x.own) : t \in x.del /\ u < t => u \in x.del
    /\ x.stage = "read" => /\ Increasing(x.mem.context) /\ Covers(x.mem.context, x.own)
                           /\ \A t \in ToSet(x.mem.context) : t < x.turn

\* What a transaction deletes is old, or older than enough turns that stay.
Newer(t, x) == {u \in Turns : u > t /\ (home[u] # None \/ u = x.turn)}
TrimForm(x) ==
    /\ \A s \in x.drop \ overlapped : \A t \in Messages(s) : t <= stale \/ t \in x.del
    /\ \A s \in DOMAIN x.fix \ overlapped : x.fix[s] = 0 => Messages(s) \subseteq x.del
    /\ overlapped = {} => \A t \in x.del : t <= stale \/ MaxTurns <= Cardinality(Newer(t, x))

Form(p, x) ==
    /\ p \in Asks => AskForm(x) /\ (x.stage # "loaded" => LastTurnForm(x))
    /\ p = Sweeper => SweepForm(x)
    /\ TxForm(x) /\ TrimForm(x)

\* Two transactions hold different rows, have different turns, and an ask on a
\* session that the other one trims has been noted.
Pair(x, y) ==
    /\ x.held \cap y.held = {}
    /\ (~x.kept \/ ~y.kept) => x.own # y.own
    /\ x.turn # 0 => x.turn # y.turn
    /\ x.turn \notin y.del /\ y.turn \notin x.del
    /\ x.own \in Affected(y) => x.own \in overlapped
    /\ y.own \in Affected(x) => y.own \in overlapped

ProcsSound == \A p \in Procs : Busy(p) =>
    /\ Form(p, tx[p])
    /\ \A q \in Procs \ {p} : Busy(q) => Pair(tx[p], tx[q])

RowForm(s) ==
    /\ Exists(s) => /\ row[s].count < next /\ row[s].last < next
                    /\ \A t \in Messages(s) : t <= row[s].last
                    /\ Messages(s) # {} => row[s].count > 0
    /\ ~Exists(s) => Messages(s) = {}
RowsSound == /\ \A t \in Turns : home[t] # None => t < next
             /\ \A s \in Ids : RowForm(s)
ContextsSound == \A s \in Ids : ContextForm(s)

\* What is known of a session, in Redis, in its row and by the asks on it, are
\* its messages and the turn of the ask that wrote its context; and nothing is
\* known of it once it has been trimmed.
Knows(x, s) ==
    /\ x.own = s => /\ x.summary \subseteq Messages(s) /\ x.mem.summary \subseteq Messages(s)
                    /\ x.wrote \subseteq Messages(s) /\ ToSet(x.mem.context) \subseteq Messages(s)
    /\ s \in DOMAIN x.fix => /\ digest[s] = {}
                             /\ x.own = s => ToSet(ctx[s]) \subseteq Seen(x, s)
                             /\ x.own # s => ctx[s] = <<>>
    /\ s \in x.todo \cup DOMAIN x.fix /\ s \notin x.clear /\ Exists(s) => row[s].summary = {}
ContextKnows(s) == \A t \in ToSet(ctx[s]) :
    \/ t \in Messages(s)
    \/ \E p \in Procs : Busy(p) /\ tx[p].own = s /\ tx[p].stage = "written" /\ t = tx[p].turn
Remembers(s) ==
    /\ digest[s] \subseteq Messages(s)
    /\ Exists(s) => row[s].summary \subseteq Messages(s)
    /\ ContextKnows(s)
    /\ \A p \in Procs : Busy(p) => Knows(tx[p], s)
RemembersKept == \A s \in Ids \ overlapped : row[s] # Gone => Remembers(s)

SessionsInv == TypeOK /\ ProcsSound /\ RowsSound /\ ContextsSound /\ RemembersKept

-----------------------------------------------------------------------------
(* Induction, for a set instead of a predicate *)

LEMMA Least == ASSUME NEW T, T \subseteq Nat, T # {} PROVE \E n \in T : \A m \in T : n <= m
<1> DEFINE R == {p \in Nat \X Nat : p[1] < p[2]}
<1>1. IsWellFoundedOn(R, Nat)
  BY NatLessThanWellFounded DEF OpToRel
<1>2. \A m, n \in Nat : m < n => <<m, n>> \in R
  OBVIOUS
<1> HIDE DEF R
<1>3. PICK n \in T : \A m \in T : ~ (<<m, n>> \in R)
  BY <1>1, WFMin
<1>4. ASSUME NEW m \in T PROVE n <= m
  <2>1. m \in Nat /\ n \in Nat /\ ~(m < n)
    BY <1>2, <1>3
  <2> QED BY <2>1
<1> QED BY <1>4

LEMMA Induction == ASSUME NEW T, T \subseteq Nat, 0 \in T, \A n \in T : n + 1 \in T PROVE Nat = T
<1> SUFFICES ASSUME NEW m \in Nat, m \notin T PROVE FALSE
  OBVIOUS
<1>1. PICK n \in Nat \ T : \A k \in Nat \ T : n <= k
  <2>1. Nat \ T \subseteq Nat /\ Nat \ T # {}
    OBVIOUS
  <2> QED BY <2>1, Least
<1>2. n # 0 /\ n - 1 \in Nat /\ n - 1 \in T
  BY <1>1
<1> QED BY <1>1, <1>2

-----------------------------------------------------------------------------
(* Contexts *)

LEMMA Appended ==
    ASSUME NEW S, NEW s \in Seq(S), NEW x \in S
    PROVE  Append(s, x) \in Seq(S) /\ ToSet(Append(s, x)) = ToSet(s) \cup {x}
<1> DEFINE t == Append(s, x)
<1>1. /\ t \in Seq(S) /\ Len(t) = Len(s) + 1 /\ t[Len(s) + 1] = x /\ \A i \in 1..Len(s) : t[i] = s[i]
      /\ DOMAIN t = 1..Len(t) /\ DOMAIN s = 1..Len(s) /\ Len(s) \in Nat
  OBVIOUS
<1> HIDE DEF t
<1>2. ASSUME NEW y PROVE y \in ToSet(t) <=> y \in ToSet(s) \cup {x}
  <2>1. ASSUME NEW i \in DOMAIN t PROVE t[i] \in ToSet(s) \cup {x}
    BY <1>1 DEF ToSet
  <2>2. \A i \in DOMAIN s : i \in DOMAIN t /\ t[i] = s[i]
    BY <1>1
  <2>3. Len(s) + 1 \in DOMAIN t
    BY <1>1
  <2> QED BY <1>1, <2>1, <2>2, <2>3 DEF ToSet
<1> QED BY <1>1, <1>2 DEF t

\* The turns of a bounded set can be put in order.
LEMMA Ordered ==
    ASSUME NEW n \in Nat, NEW S \in SUBSET (1..n)
    PROVE  /\ IsFiniteSet(S) /\ Cardinality(S) \in Nat
           /\ Ascending(S) \in [1..Cardinality(S) -> S]
           /\ Increasing(Ascending(S)) /\ ToSet(Ascending(S)) = S
<1> DEFINE Sorted(R, s) == s \in [1..Cardinality(R) -> R] /\ Increasing(s) /\ ToSet(s) = R
           T == {m \in Nat : \A R \in SUBSET (1..m) : \E s : Sorted(R, s)}
<1>1. 0 \in T
  <2> SUFFICES ASSUME NEW R \in SUBSET (1..0) PROVE \E s : Sorted(R, s)
    OBVIOUS
  <2>0. 1..0 = {}
    OBVIOUS
  <2>1. R = {} /\ Cardinality(R) = 0
    BY <2>0, FS_EmptySet
  <2> DEFINE s == [i \in 1..0 |-> 0]
  <2>2. s \in [1..0 -> R] /\ DOMAIN s = {}
    OBVIOUS
  <2>3. Sorted(R, s)
    BY <2>1, <2>2 DEF Increasing, ToSet
  <2> QED BY <2>3
<1>2. ASSUME NEW m \in T PROVE m + 1 \in T
  <2> SUFFICES ASSUME NEW R \in SUBSET (1..(m + 1)) PROVE \E s : Sorted(R, s)
    <3>1. m + 1 \in Nat
      BY <1>2
    <3> HIDE DEF Sorted
    <3> QED BY <3>1
  <2> DEFINE Q == R \ {m + 1}
  <2>0. m \in Nat /\ \A P \in SUBSET (1..m) : \E s : Sorted(P, s)
    BY <1>2
  <2>1. m \in Nat /\ Q \in SUBSET (1..m) /\ \E s : Sorted(Q, s)
    <3>1. Q \in SUBSET (1..m)
      BY <2>0
    <3> HIDE DEF Q, Sorted
    <3> QED BY <2>0, <3>1
  <2>2. PICK s : Sorted(Q, s)
    BY <2>1
  <2>3. CASE m + 1 \notin R
    <3>1. Q = R
      BY <2>3
    <3> QED BY <2>2, <3>1
  <2>4. CASE m + 1 \in R
    <3> DEFINE k == Cardinality(Q)
               r == [i \in 1..(k + 1) |-> IF i = k + 1 THEN m + 1 ELSE s[i]]
    <3>1. k \in Nat /\ Cardinality(R) = k + 1
      <4>1. IsFiniteSet(1..m)
        BY <2>1, FS_Interval
      <4>2. IsFiniteSet(Q) /\ Q \cup {m + 1} = R /\ m + 1 \notin Q
        BY <2>1, <2>4, <4>1, FS_Subset
      <4> HIDE DEF Q
      <4>3. Cardinality(Q \cup {m + 1}) = Cardinality(Q) + 1
        BY <4>2, FS_AddElement
      <4> QED BY <4>2, <4>3, FS_CardinalityType
    <3> HIDE DEF k
    <3>2. s \in [1..k -> Q] /\ Increasing(s) /\ ToSet(s) = Q
      BY <2>2 DEF k
    <3>3. r \in [1..(k + 1) -> R] /\ DOMAIN r = 1..(k + 1)
      BY <2>4, <3>1, <3>2
    <3>4. Increasing(r)
      <4> SUFFICES ASSUME NEW i \in 1..(k + 1), NEW j \in 1..(k + 1), i < j PROVE r[i] < r[j]
        BY <3>3 DEF Increasing
      <4>1. i \in 1..k /\ s[i] \in Q /\ r[i] = s[i]
        BY <3>1, <3>2
      <4>2. CASE j = k + 1
        <5>1. r[j] = m + 1 /\ s[i] \in 1..m
          BY <2>1, <4>1, <4>2
        <5> QED BY <2>1, <4>1, <5>1
      <4>3. CASE j # k + 1
        <5>1. j \in 1..k /\ r[j] = s[j]
          BY <3>1, <4>3
        <5> QED BY <3>2, <4>1, <5>1 DEF Increasing
      <4> QED BY <4>2, <4>3
    <3>5. ToSet(r) = R
      <4>1. \A i \in 1..k : r[i] = s[i]
        BY <3>1
      <4>2. {s[i] : i \in 1..k} = Q
        BY <3>2 DEF ToSet
      <4>3. \A x \in Q : \E i \in 1..k : s[i] = x
        BY <4>2
      <4>4. r[k + 1] = m + 1 /\ k + 1 \in 1..(k + 1) /\ 1..k \subseteq 1..(k + 1)
        BY <3>1
      <4>5. ASSUME NEW x \in R PROVE \E i \in 1..(k + 1) : r[i] = x
        BY <4>1, <4>3, <4>4
      <4> QED BY <3>3, <4>5 DEF ToSet
    <3>6. Sorted(R, r)
      BY <3>1, <3>3, <3>4, <3>5
    <3> QED BY <3>6
  <2> QED BY <2>3, <2>4
<1>3. n \in T
  <2>1. T \subseteq Nat
    OBVIOUS
  <2> HIDE DEF T
  <2> QED BY <1>1, <1>2, <2>1, Induction
<1>4. \E s \in [1..Cardinality(S) -> S] : Increasing(s) /\ ToSet(s) = S
  BY <1>3
<1>5. IsFiniteSet(S) /\ Cardinality(S) \in Nat
  <2>1. IsFiniteSet(1..n)
    BY FS_Interval
  <2>2. IsFiniteSet(S)
    BY <2>1, FS_Subset
  <2> QED BY <2>2, FS_CardinalityType
<1> QED BY <1>4, <1>5 DEF Ascending

LEMMA Greatest ==
    ASSUME NEW n \in Nat, NEW S \in SUBSET (1..n), S # {}
    PROVE  \E m \in S : \A k \in S : k <= m
<1> DEFINE Q == {n - k : k \in S}
<1>1. Q \subseteq Nat /\ Q # {}
  <2>1. \A k \in S : n - k \in Nat
    OBVIOUS
  <2>2. PICK k \in S : TRUE
    OBVIOUS
  <2>3. n - k \in Q
    BY <2>2
  <2> QED BY <2>1, <2>3
<1>2. PICK q \in Q : \A r \in Q : q <= r
  <2> HIDE DEF Q
  <2> QED BY <1>1, Least
<1>3. PICK m \in S : q = n - m
  OBVIOUS
<1>4. ASSUME NEW k \in S PROVE k <= m
  <2>1. n - k \in Q /\ q <= n - k /\ k \in Nat /\ m \in Nat
    BY <1>2
  <2> HIDE DEF Q
  <2> QED BY <1>3, <2>1
<1> QED BY <1>4

\* Of the newest n turns of S each later one of S is one, and they are n at most.
LEMMA NewestOnes ==
    ASSUME NEW m \in Nat, NEW S \in SUBSET (1..m), NEW n \in Nat \ {0}
    PROVE  /\ Newest(n, S) \subseteq S
           /\ \A t \in Newest(n, S), u \in S : t < u => u \in Newest(n, S)
           /\ IsFiniteSet(Newest(n, S)) /\ Cardinality(Newest(n, S)) <= n
           /\ \A t \in S \ Newest(n, S) : n <= Cardinality({u \in S : u > t})
<1> DEFINE N == Newest(n, S)
           After(t) == {u \in S : u > t}
<1>1. IsFiniteSet(S) /\ \A R \in SUBSET S : IsFiniteSet(R) /\ Cardinality(R) \in Nat
  <2>1. IsFiniteSet(1..m)
    BY FS_Interval
  <2>2. \A R \in SUBSET S : IsFiniteSet(R)
    BY <2>1, FS_Subset
  <2> QED BY <2>2, FS_CardinalityType
<1>0. S \subseteq Nat /\ \A t : After(t) \in SUBSET S
  OBVIOUS
<1>2. N \subseteq S /\ \A t \in S : t \in N <=> Cardinality(After(t)) < n
  BY DEF Newest
<1>3. ASSUME NEW t \in N, NEW u \in S, t < u PROVE u \in N
  <2>0. S \subseteq Nat /\ t \in Nat /\ u \in Nat /\ t < u
    BY <1>0, <1>2, <1>3
  <2>1. After(u) \subseteq After(t) /\ After(t) \in SUBSET S
    <3>1. \A v \in S : v \in Nat /\ (v > u => v > t)
      BY <2>0
    <3> QED BY <3>1
  <2>2. Cardinality(After(u)) <= Cardinality(After(t))
    BY <1>1, <2>1, FS_Subset
  <2>3. Cardinality(After(u)) \in Nat /\ Cardinality(After(t)) \in Nat /\ Cardinality(After(t)) < n
    BY <1>1, <1>2, <2>1
  <2> QED BY <1>2, <2>2, <2>3
<1>4. IsFiniteSet(N) /\ Cardinality(N) \in Nat
  BY <1>1, <1>2
<1>5. Cardinality(N) <= n
  <2>1. CASE N = {}
    BY <2>1, FS_EmptySet
  <2>2. CASE N # {}
    <3>1. PICK t \in N : \A u \in N : t <= u
      <4>1. N \subseteq Nat
        BY <1>0, <1>2
      <4> HIDE DEF N
      <4> QED BY <2>2, <4>1, Least
    <3>2. N = (N \cap After(t)) \cup {t} /\ t \notin N \cap After(t)
      <4>1. N \subseteq Nat /\ N \subseteq S
        BY <1>0, <1>2
      <4>2. \A u \in N : u = t \/ u > t
        BY <3>1, <4>1
      <4>3. t \in N /\ t \in Nat /\ ~(t > t)
        BY <3>1, <4>1
      <4>4. \A u \in N : u \in After(t) \/ u = t
        BY <4>1, <4>2
      <4>5. t \notin After(t)
        BY <4>3
      <4> HIDE DEF N, After
      <4> QED BY <4>3, <4>4, <4>5
    <3>3. IsFiniteSet(N \cap After(t)) /\ Cardinality(N \cap After(t)) \in Nat
          /\ Cardinality(N \cap After(t)) <= Cardinality(After(t))
      <4>1. After(t) \in SUBSET S /\ N \cap After(t) \in SUBSET After(t) /\ N \cap After(t) \in SUBSET S
        OBVIOUS
      <4> HIDE DEF N, After
      <4> QED BY <1>1, <4>1, FS_Subset
    <3>4. Cardinality(N) = Cardinality(N \cap After(t)) + 1
      <4> HIDE DEF N, After
      <4> QED BY <3>2, <3>3, FS_AddElement
    <3>5. Cardinality(After(t)) < n /\ Cardinality(After(t)) \in Nat
      BY <1>1, <1>2
    <3> HIDE DEF N, After
    <3> QED BY <3>3, <3>4, <3>5
  <2> QED BY <2>1, <2>2
<1>6. ASSUME NEW t \in S \ N PROVE n <= Cardinality(After(t))
  <2>1. Cardinality(After(t)) \in Nat /\ ~(Cardinality(After(t)) < n)
    BY <1>1, <1>2
  <2> QED BY <2>1
<1> QED BY <1>2, <1>3, <1>4, <1>5, <1>6

\* The last n turns of a context.
LEMMA LatestOnes ==
    ASSUME NEW S \in SUBSET Nat, NEW c \in Seq(S), Increasing(c), NEW n \in Nat \ {0}
    PROVE  /\ Latest(n, c) \in Seq(S) /\ Len(Latest(n, c)) <= n
           /\ Increasing(Latest(n, c)) /\ ToSet(Latest(n, c)) \subseteq ToSet(c)
           /\ \A t \in ToSet(c) : Latest(n, c) # <<>> /\ t >= Latest(n, c)[1] => t \in ToSet(Latest(n, c))
           /\ c # <<>> => Latest(n, c) # <<>> /\ c[Len(c)] \in ToSet(Latest(n, c))
           /\ Latest(n, c) # <<>> => Latest(n, c)[1] \in ToSet(c)
<1> DEFINE k == IF Len(c) > n THEN Len(c) - n ELSE 0
           d == Latest(n, c)
<1>1. /\ Len(c) \in Nat /\ DOMAIN c = 1..Len(c) /\ c \in [1..Len(c) -> S] /\ k \in 0..Len(c)
      /\ Len(c) - k <= n /\ (c # <<>> => Len(c) > 0 /\ k < Len(c))
  OBVIOUS
<1>2. d = SubSeq(c, k + 1, Len(c))
  BY <1>1 DEF Latest
<1> HIDE DEF k, d
<1>3. SubSeq(c, k + 1, Len(c)) = [i \in 1..(Len(c) - k) |-> c[k + i]]
  BY <1>1
<1>4. d = [i \in 1..(Len(c) - k) |-> c[k + i]] /\ DOMAIN d = 1..(Len(c) - k)
      /\ \A i \in 1..(Len(c) - k) : d[i] = c[k + i] /\ k + i \in 1..Len(c)
  BY <1>1, <1>2, <1>3
<1>5. d \in Seq(S) /\ Len(d) = Len(c) - k
  BY <1>1, <1>4
<1>6. Increasing(d)
  BY <1>1, <1>4 DEF Increasing
<1>7. ToSet(d) \subseteq ToSet(c)
  BY <1>1, <1>4 DEF ToSet
<1>8. ASSUME NEW j \in 1..Len(c), d # <<>>, c[j] >= d[1] PROVE c[j] \in ToSet(d)
  <2>1. 1 \in 1..(Len(c) - k) /\ d[1] = c[k + 1] /\ k + 1 \in 1..Len(c)
    BY <1>1, <1>4, <1>5, <1>8
  <2>2. ~(j < k + 1)
    <3>1. c[j] \in Nat /\ c[k + 1] \in Nat /\ c[j] >= c[k + 1]
      BY <1>1, <1>8, <2>1
    <3>2. j < k + 1 => c[j] < c[k + 1]
      BY <1>1, <2>1 DEF Increasing
    <3> QED BY <3>1, <3>2
  <2>3. j - k \in 1..(Len(c) - k) /\ k + (j - k) = j
    BY <1>1, <2>2
  <2>4. d[j - k] = c[j]
    BY <1>4, <2>3
  <2> QED BY <1>4, <2>3, <2>4 DEF ToSet
<1>9. ASSUME c # <<>> PROVE d # <<>> /\ c[Len(c)] \in ToSet(d)
  <2>1. Len(c) - k \in 1..(Len(c) - k) /\ k + (Len(c) - k) = Len(c)
    BY <1>1, <1>9
  <2>2. d[Len(c) - k] = c[Len(c)]
    BY <1>4, <2>1
  <2> QED BY <1>4, <1>5, <2>1, <2>2 DEF ToSet
<1>10. d # <<>> => d[1] \in ToSet(c)
  <2>1. d # <<>> => 1 \in DOMAIN d
    BY <1>5
  <2> QED BY <1>7, <2>1 DEF ToSet
<1>11. \A t \in ToSet(c) : d # <<>> /\ t >= d[1] => t \in ToSet(d)
  BY <1>1, <1>8 DEF ToSet
<1> QED BY <1>1, <1>5, <1>6, <1>7, <1>9, <1>10, <1>11 DEF d

\* A later turn after a context.
LEMMA AppendedLast ==
    ASSUME NEW S \in SUBSET Nat, NEW c \in Seq(S), Increasing(c), NEW x \in S, \A t \in ToSet(c) : t < x
    PROVE  /\ Append(c, x) \in Seq(S) /\ Increasing(Append(c, x)) /\ Append(c, x) # <<>>
           /\ Append(c, x)[Len(Append(c, x))] = x
           /\ ToSet(Append(c, x)) = ToSet(c) \cup {x}
<1> DEFINE d == Append(c, x)
<1>1. /\ Len(c) \in Nat /\ DOMAIN c = 1..Len(c) /\ c \in [1..Len(c) -> S]
      /\ d \in Seq(S) /\ Len(d) = Len(c) + 1 /\ DOMAIN d = 1..(Len(c) + 1) /\ d[Len(c) + 1] = x
      /\ \A i \in 1..Len(c) : d[i] = c[i]
  OBVIOUS
<1>2. ToSet(d) = ToSet(c) \cup {x}
  BY Appended
<1> HIDE DEF d
<1>3. Increasing(d)
  <2> SUFFICES ASSUME NEW i \in 1..(Len(c) + 1), NEW j \in 1..(Len(c) + 1), i < j PROVE d[i] < d[j]
    BY <1>1 DEF Increasing
  <2>1. i \in 1..Len(c) /\ d[i] = c[i] /\ c[i] \in ToSet(c)
    BY <1>1 DEF ToSet
  <2>2. CASE j = Len(c) + 1
    BY <1>1, <2>1, <2>2
  <2>3. CASE j # Len(c) + 1
    <3>1. j \in 1..Len(c) /\ d[j] = c[j]
      BY <1>1, <2>3
    <3> QED BY <1>1, <2>1, <3>1 DEF Increasing
  <2> QED BY <2>2, <2>3
<1> QED BY <1>1, <1>2, <1>3 DEF d

LEMMA NoContext == /\ ToSet(<<>>) = {} /\ Increasing(<<>>) /\ \A s : Covers(<<>>, s)
                   /\ <<>> \in Seq(Turns)
  BY DEF ToSet, Increasing, Covers

LEMMA Bounded ==
    ASSUME NEW c PROVE c \in BoundedSeq(Turns, Window) <=> c \in Seq(Turns) /\ Len(c) <= Window
<1>1. ASSUME c \in BoundedSeq(Turns, Window) PROVE c \in Seq(Turns) /\ Len(c) <= Window
  <2>1. PICK n \in 0..Window : c \in [1..n -> Turns]
    BY <1>1 DEF BoundedSeq, SeqOf
  <2>2. n \in Nat
    BY SessionsAssumption
  <2> QED BY <2>1, <2>2, SessionsAssumption
<1>2. ASSUME c \in Seq(Turns), Len(c) <= Window PROVE c \in BoundedSeq(Turns, Window)
  <2>1. Len(c) \in 0..Window /\ c \in [1..Len(c) -> Turns]
    BY <1>2, SessionsAssumption
  <2> QED BY <2>1 DEF BoundedSeq, SeqOf
<1> QED BY <1>1, <1>2

-----------------------------------------------------------------------------
(* Transactions *)

LEMMA TxTyped ==
    ASSUME NEW x \in Tx
    PROVE  /\ x # NoTx /\ x.stage \in Stages /\ x.own \in Ids \cup {None} /\ x.kept \in BOOLEAN
           /\ x.expired \in BOOLEAN /\ x.count \in 0..LastTurn /\ x.summary \subseteq Turns
           /\ x.turn \in 0..LastTurn /\ x.drop \subseteq Ids /\ x.del \subseteq Turns
           /\ x.todo \subseteq Ids /\ DOMAIN x.fix \subseteq Ids
           /\ x.fix \in [DOMAIN x.fix -> 0..LastTurn] /\ x.clear \subseteq Ids
           /\ x.wrote \subseteq Turns /\ x.held \subseteq Ids
           /\ x.mem \in [context : Seq(Turns), summary : SUBSET Turns]
           /\ x.mem.context \in Seq(Turns) /\ x.mem.summary \subseteq Turns
           /\ Affected(x) \subseteq Ids
<1>1. x # NoTx
  <2>1. x.stage \in Stages
    BY DEF Tx
  <2> QED BY <2>1 DEF Stages, NoTx
<1>2. PICK S \in SUBSET Ids : x.fix \in [S -> 0..LastTurn]
  BY DEF Tx
<1>3. DOMAIN x.fix = S
  BY <1>2
<1> QED BY <1>1, <1>2, <1>3 DEF Tx, Affected

LEMMA BusyTyped ==
    ASSUME TypeOK, NEW p \in Procs
    PROVE  /\ Busy(p) => tx[p] \in Tx
           /\ tx[p] \in Tx => Busy(p)
           /\ ~Busy(p) => tx[p] = NoTx
  BY TxTyped DEF TypeOK, Busy

LEMMA Numbers == /\ LastTurn \in Nat /\ Turns \subseteq Nat /\ Turns = 1..LastTurn
                 /\ Window \in Nat \ {0} /\ MaxTurns \in Nat \ {0}
                 /\ None \notin Ids /\ Sweeper \notin Asks /\ Sweeper \in Procs /\ Asks \subseteq Procs
                 /\ \A p \in Procs : p \in Asks \/ p = Sweeper
                 /\ IsFiniteSet(Ids)
  BY SessionsAssumption DEF Turns, Procs

\* What one transaction that goes on can do to the others: the row, the
\* messages and the time stay, contexts are left alone or lost but that of its
\* own session.
Kept(s) == ctx'[s] = ctx[s] /\ digest'[s] = digest[s]
Emptied(s) == ctx'[s] = <<>> /\ digest'[s] = {}
Moves(p, y) ==
    /\ row' = row /\ home' = home /\ stale' = stale /\ next' \in Nat /\ next <= next'
    /\ overlapped \subseteq overlapped'
    /\ tx' = [tx EXCEPT ![p] = y]
    /\ Busy(p) => tx[p].stage # "written"
    /\ \A s \in Ids : \/ Kept(s) \/ Emptied(s)
                      \/ Busy(p) /\ tx[p].own = s /\ tx[p].stage # "loaded"

LEMMA MovedTx ==
    ASSUME TypeOK, NEW p \in Procs, NEW y \in Tx, Moves(p, y)
    PROVE  /\ tx'[p] = y /\ Busy(p)' /\ Own(p)' = y.own
           /\ \A q \in Procs \ {p} : tx'[q] = tx[q] /\ Busy(q)' = Busy(q)
           /\ \A s : Messages(s)' = Messages(s) /\ Exists(s)' = Exists(s)
           /\ next \in Nat /\ next' \in Nat
<1>1. tx'[p] = y /\ \A q \in Procs \ {p} : tx'[q] = tx[q]
  BY DEF Moves, TypeOK
<1>2. next \in Nat /\ y # NoTx
  BY Numbers, TxTyped DEF TypeOK
<1> QED BY <1>1, <1>2 DEF Moves, Busy, Own, Messages, Exists

\* A transaction that goes on leaves the others as they were.
LEMMA OthersStay ==
    ASSUME SessionsInv, NEW p \in Procs, NEW y \in Tx, Moves(p, y),
           NEW q \in Procs \ {p}, Busy(q)
    PROVE  Form(q, tx[q])'
<1>0. PICK x : x = tx[q]
  OBVIOUS
<1>1. /\ tx'[q] = x /\ x \in Tx /\ row' = row /\ home' = home /\ stale' = stale
      /\ next \in Nat /\ next' \in Nat /\ next <= next' /\ overlapped \subseteq overlapped'
      /\ \A s : Messages(s)' = Messages(s) /\ Exists(s)' = Exists(s)
  BY <1>0, MovedTx, BusyTyped DEF SessionsInv, Moves
<1>2. Form(q, x) /\ (Busy(p) => Form(p, tx[p]) /\ Pair(tx[p], x))
  BY <1>0 DEF SessionsInv, ProcsSound
<1>3. /\ x.stage \in Stages /\ x.turn \in Nat /\ x.count \in Nat /\ x.del \subseteq Nat
      /\ \A s \in DOMAIN x.fix : x.fix[s] \in Nat
  BY <1>1, TxTyped, Numbers
<1>4. ASSUME q \in Asks PROVE AskForm(x)'
  <2>1. AskForm(x)
    BY <1>2, <1>4 DEF Form
  <2>2. x.turn \in 1..(next - 1) => x.turn \in 1..(next' - 1)
    BY <1>1, <1>3
  <2> QED BY <1>1, <2>1, <2>2 DEF AskForm
<1>5. ASSUME q \in Asks, x.stage # "loaded" PROVE LastTurnForm(x)'
  <2>1. LastTurnForm(x) /\ x.own \in Ids /\ x.own \in x.held
    BY <1>2, <1>5 DEF Form, AskForm
  <2>2. ctx'[x.own] = ctx[x.own] \/ ctx'[x.own] = <<>>
    <3>1. CASE Busy(p) /\ tx[p].own = x.own /\ tx[p].stage # "loaded"
      <4>1. p \in Asks
        BY <1>2, <2>1, <3>1, Numbers DEF Form, SweepForm
      <4>2. x.own \in tx[p].held
        BY <1>2, <3>1, <4>1 DEF Form, AskForm
      <4> QED BY <1>2, <2>1, <3>1, <4>2 DEF Pair
    <3> QED BY <2>1, <3>1 DEF Moves, Kept, Emptied
  <2>3. Covers(x.mem.context, x.own)' <=> Covers(x.mem.context, x.own)
    BY <1>1 DEF Covers
  <2> QED BY <1>1, <2>1, <2>2, <2>3, NoContext DEF LastTurnForm
<1>6. q = Sweeper => SweepForm(x)'
  BY <1>2 DEF Form, SweepForm
<1>7. TxForm(x)'
  <2>1. TxForm(x)
    BY <1>2 DEF Form
  <2>2. x.count < next' /\ (\A s \in DOMAIN x.fix : x.fix[s] < next') /\ \A t \in x.del : t < next'
    BY <1>1, <1>3, <2>1 DEF TxForm
  <2> QED BY <1>1, <2>1, <2>2 DEF TxForm
<1>8. TrimForm(x)'
  <2>1. TrimForm(x)
    BY <1>2 DEF Form
  <2>2. \A t : Newer(t, x)' = Newer(t, x)
    BY <1>1 DEF Newer
  <2> QED BY <1>1, <2>1, <2>2 DEF TrimForm
<1> QED BY <1>1, <1>4, <1>5, <1>6, <1>7, <1>8 DEF Form

LEMMA MoveKeepsProcs ==
    ASSUME SessionsInv, NEW p \in Procs, NEW y \in Tx, Moves(p, y), Form(p, y)',
           \A q \in Procs \ {p} : Busy(q) => Pair(y, tx[q])'
    PROVE  ProcsSound'
<1>1. /\ tx'[p] = y /\ \A q \in Procs \ {p} : tx'[q] = tx[q] /\ Busy(q)' = Busy(q)
  BY MovedTx DEF SessionsInv
<1>2. \A q \in Procs \ {p} : Busy(q) => Form(q, tx[q])'
  BY OthersStay
<1>3. ASSUME NEW q \in Procs \ {p}, NEW r \in Procs \ {p}, q # r, Busy(q), Busy(r)
      PROVE  Pair(tx[q], tx[r])'
  <2>1. Pair(tx[q], tx[r])
    BY <1>3 DEF SessionsInv, ProcsSound
  <2> QED BY <1>1, <2>1 DEF Pair, Affected, Moves
<1>4. ASSUME NEW q \in Procs \ {p}, Busy(q) PROVE Pair(y, tx[q])' /\ Pair(tx[q], y)'
  <2>1. Pair(y, tx[q])'
    BY <1>4
  <2> QED BY <1>1, <2>1 DEF Pair
<1> QED BY <1>1, <1>2, <1>3, <1>4 DEF ProcsSound

LEMMA MoveKeepsContexts ==
    ASSUME SessionsInv, NEW p \in Procs, NEW y \in Tx, Moves(p, y),
           \A s \in Ids : ctx'[s] = ctx[s] \/ ctx'[s] = <<>> \/ ContextForm(s)'
    PROVE  RowsSound' /\ ContextsSound'
<1>1. /\ row' = row /\ home' = home /\ next \in Nat /\ next' \in Nat /\ next <= next'
      /\ \A s : Messages(s)' = Messages(s) /\ Exists(s)' = Exists(s)
  BY MovedTx DEF SessionsInv, Moves
<1>2. RowsSound'
  <2>1. \A s \in Ids : Exists(s) => row[s].count \in Nat /\ row[s].last \in Nat
    BY Numbers DEF SessionsInv, TypeOK, Exists, SessionRow
  <2>2. Turns \subseteq Nat
    BY Numbers
  <2>3. \A s \in Ids : RowForm(s)'
    BY <1>1, <2>1 DEF SessionsInv, RowsSound, RowForm
  <2>4. \A t \in Turns : home[t] # None => t < next'
    BY <1>1, <2>2 DEF SessionsInv, RowsSound
  <2> QED BY <1>1, <2>3, <2>4 DEF RowsSound
<1>3. ASSUME NEW s \in Ids PROVE ContextForm(s)'
  <2>1. ContextForm(s) /\ ToSet(ctx[s]) \subseteq Nat
    <3>1. ctx[s] \in Seq(Turns)
      BY Bounded DEF SessionsInv, TypeOK
    <3> QED BY <3>1, Numbers DEF SessionsInv, ContextsSound, ToSet
  <2>2. CASE ctx'[s] = ctx[s]
    BY <1>1, <2>1, <2>2 DEF ContextForm, Covers
  <2>3. CASE ctx'[s] = <<>>
    BY <2>3, NoContext DEF ContextForm, Covers
  <2> QED BY <2>2, <2>3
<1> QED BY <1>2, <1>3 DEF ContextsSound

LEMMA MoveKeepsMemory ==
    ASSUME SessionsInv, NEW p \in Procs, NEW y \in Tx, Moves(p, y),
           \A s \in Ids \ overlapped' : row[s] # Gone =>
               /\ ctx'[s] = ctx[s] \/ ctx'[s] = <<>> \/ ContextKnows(s)'
               /\ digest'[s] \subseteq Messages(s) /\ Knows(y, s)'
    PROVE  RemembersKept'
<1>1. /\ row' = row /\ home' = home /\ overlapped \subseteq overlapped' /\ tx'[p] = y
      /\ \A s : Messages(s)' = Messages(s) /\ Exists(s)' = Exists(s)
      /\ \A q \in Procs \ {p} : tx'[q] = tx[q] /\ Busy(q)' = Busy(q)
  BY MovedTx DEF SessionsInv, Moves
<1> SUFFICES ASSUME NEW s \in Ids \ overlapped', row[s] # Gone PROVE Remembers(s)'
  BY <1>1 DEF RemembersKept
<1>2. Remembers(s)
  BY <1>1 DEF SessionsInv, RemembersKept
<1>3. ContextKnows(s)'
  <2>1. CASE ctx'[s] = ctx[s]
    <3>1. ContextKnows(s)
      BY <1>2 DEF Remembers
    <3> QED BY <1>1, <2>1, <3>1 DEF ContextKnows, Moves
  <2>2. CASE ctx'[s] = <<>>
    BY <2>2, NoContext DEF ContextKnows
  <2> QED BY <2>1, <2>2
<1>4. ASSUME NEW q \in Procs \ {p}, Busy(q) PROVE Knows(tx[q], s)'
  <2>1. Knows(tx[q], s) /\ tx[q] \in Tx
    BY <1>2, <1>4, BusyTyped DEF Remembers, SessionsInv
  <2>2. Seen(tx[q], s)' = Seen(tx[q], s)
    BY <1>1, <1>4 DEF Seen
  <2>3. s \in DOMAIN tx[q].fix => Kept(s) \/ Emptied(s)
    <3>1. CASE s \in DOMAIN tx[q].fix /\ Busy(p) /\ tx[p].own = s
      <4>1. Pair(tx[p], tx[q]) /\ s \in Affected(tx[q])
        BY <1>4, <3>1 DEF SessionsInv, ProcsSound, Affected
      <4> QED BY <1>1, <3>1, <4>1 DEF Pair
    <3> QED BY <3>1 DEF Moves
  <2> QED BY <1>1, <1>4, <2>1, <2>2, <2>3, NoContext DEF Knows, Kept, Emptied
<1> QED BY <1>1, <1>2, <1>3, <1>4 DEF Remembers

\* All of it together.
LEMMA MoveKeeps ==
    ASSUME SessionsInv, NEW p \in Procs, NEW y \in Tx, Moves(p, y), TypeOK', Form(p, y)',
           \A q \in Procs \ {p} : Busy(q) => Pair(y, tx[q])',
           \A s \in Ids : ctx'[s] = ctx[s] \/ ctx'[s] = <<>> \/ ContextForm(s)',
           \A s \in Ids \ overlapped' : row[s] # Gone =>
               /\ ctx'[s] = ctx[s] \/ ctx'[s] = <<>> \/ ContextKnows(s)'
               /\ digest'[s] \subseteq Messages(s) /\ Knows(y, s)'
    PROVE  SessionsInv'
  BY MoveKeepsProcs, MoveKeepsContexts, MoveKeepsMemory DEF SessionsInv

-----------------------------------------------------------------------------
(* Steps that end a transaction, write a row that nobody else uses or its     *)
(* status, lose a context or pass time: no message comes or goes.             *)

SameRow(s) == /\ Exists(s) /\ Exists(s)'
              /\ row'[s].count = row[s].count /\ row'[s].last = row[s].last
              /\ row'[s].summary = row[s].summary
Made(s) == /\ row[s] = Unborn
           /\ row'[s] = [status |-> "active", count |-> 0, summary |-> {}, last |-> next - 1]
           /\ \A q \in Procs : Busy(q)' => tx'[q].own # s
Ended(p) == /\ tx'[p] = NoTx
            /\ Busy(p) /\ tx[p].stage = "written" /\ tx[p].own \in Ids => tx[p].own \in overlapped'
Quiet ==
    /\ home' = home /\ next' = next /\ stale' \in Nat /\ stale <= stale' /\ overlapped \subseteq overlapped'
    /\ \A s \in Ids : Kept(s) \/ Emptied(s)
    /\ \A s \in Ids : row'[s] = row[s] \/ SameRow(s) \/ Made(s)
    /\ \A p \in Procs : tx'[p] = tx[p] \/ Ended(p)

LEMMA QuietFacts ==
    ASSUME SessionsInv, Quiet, TypeOK'
    PROVE  /\ \A q \in Procs : Busy(q)' => Busy(q) /\ tx'[q] = tx[q]
           /\ \A s \in Ids : /\ Exists(s) => Exists(s)' /\ SameRow(s)
                             /\ row'[s] = Unborn => row[s] = Unborn
                             /\ row'[s] # Gone => row[s] # Gone
                             /\ Exists(s)' => Exists(s) \/ Made(s)
                             /\ ~Exists(s) => row'[s] = row[s] \/ Made(s)
           /\ \A s : Messages(s)' = Messages(s)
           /\ next \in Nat \ {0} /\ stale \in Nat
<1>1. ASSUME NEW q \in Procs, Busy(q)' PROVE Busy(q) /\ tx'[q] = tx[q]
  BY <1>1 DEF Quiet, Ended, Busy
<1>2. \A s \in Ids : Exists(s) => row[s] # Unborn /\ row[s] # Gone
  BY DEF Exists
<1>3. Unborn # Gone
  BY DEF Unborn, Gone
<1>4. \A s \in Ids : Made(s) => row[s] = Unborn /\ ~Exists(s) /\ Exists(s)'
  <2>1. [status |-> "active", count |-> 0, summary |-> {}, last |-> next - 1] \notin {Unborn, Gone}
    BY DEF Unborn, Gone
  <2> QED BY <2>1 DEF Made, Exists
<1>5. \A s \in Ids : Exists(s) => Exists(s)' /\ SameRow(s)
  BY <1>4 DEF Quiet, SameRow, Exists
<1>6. \A s \in Ids : /\ row'[s] = Unborn => row[s] = Unborn
                     /\ row'[s] # Gone => row[s] # Gone
                     /\ Exists(s)' => Exists(s) \/ Made(s)
                     /\ ~Exists(s) => row'[s] = row[s] \/ Made(s)
  BY <1>3, <1>4 DEF Quiet, SameRow, Exists
<1>7. next \in Nat \ {0} /\ stale \in Nat
  BY Numbers DEF SessionsInv, TypeOK
<1> QED BY <1>1, <1>5, <1>6, <1>7 DEF Quiet, Messages

LEMMA QuietKeepsProcs == ASSUME SessionsInv, Quiet, TypeOK' PROVE ProcsSound'
<1>1. ASSUME NEW q \in Procs, Busy(q)' PROVE Form(q, tx[q])'
  <2>0. PICK x : x = tx[q]
    OBVIOUS
  <2>1. /\ tx'[q] = x /\ Busy(q) /\ Form(q, x) /\ x \in Tx /\ home' = home /\ next' = next
        /\ overlapped \subseteq overlapped'
        /\ \A s : Messages(s)' = Messages(s)
        /\ \A s \in Ids : (Exists(s) => Exists(s)') /\ (row'[s] = Unborn => row[s] = Unborn)
    BY <1>1, <2>0, QuietFacts, BusyTyped DEF SessionsInv, ProcsSound, Quiet
  <2>2. x.own \in Ids => ctx'[x.own] = ctx[x.own] \/ ctx'[x.own] = <<>>
    BY DEF Quiet, Kept, Emptied
  <2>3. ASSUME q \in Asks PROVE AskForm(x)'
    <3>1. AskForm(x)
      BY <2>1, <2>3 DEF Form
    <3>2. ~x.kept => row'[x.own] = Unborn
      <4>1. x.own \in Ids /\ ~Made(x.own)
        BY <1>1, <2>1, <3>1 DEF Made, AskForm
      <4>2. ~x.kept => ~Exists(x.own)
        BY <3>1 DEF AskForm, Exists
      <4> QED BY <3>1, <4>1, <4>2, QuietFacts DEF AskForm
    <3> QED BY <2>1, <3>1, <3>2 DEF AskForm
  <2>4. ASSUME q \in Asks, x.stage # "loaded" PROVE LastTurnForm(x)'
    <3>1. LastTurnForm(x) /\ x.own \in Ids
      BY <2>1, <2>4 DEF Form, AskForm
    <3>2. Covers(x.mem.context, x.own)' <=> Covers(x.mem.context, x.own)
      BY <2>1 DEF Covers
    <3> QED BY <2>1, <2>2, <3>1, <3>2, NoContext DEF LastTurnForm
  <2>5. q = Sweeper => SweepForm(x)'
    BY <2>1 DEF Form, SweepForm
  <2>6. TxForm(x)'
    <3>1. Affected(x) \subseteq Ids /\ DOMAIN x.fix \subseteq Ids
      BY <2>1, TxTyped
    <3> QED BY <2>1, <3>1 DEF Form, TxForm
  <2>7. TrimForm(x)'
    <3>1. TrimForm(x)
      BY <2>1 DEF Form
    <3>2. \A t : Newer(t, x)' = Newer(t, x)
      BY <2>1 DEF Newer
    <3>3. \A t \in Turns : t <= stale => t <= stale'
      BY QuietFacts, Numbers DEF Quiet
    <3>4. (\A s : Messages(s) \subseteq Turns) /\ x.del \subseteq Turns
      BY <2>1, TxTyped DEF Messages
    <3> QED BY <2>1, <3>1, <3>2, <3>3, <3>4 DEF TrimForm
  <2> QED BY <2>1, <2>3, <2>4, <2>5, <2>6, <2>7 DEF Form
<1>2. ASSUME NEW q \in Procs, NEW r \in Procs \ {q}, Busy(q)', Busy(r)' PROVE Pair(tx[q], tx[r])'
  <2>1. Pair(tx[q], tx[r]) /\ tx'[q] = tx[q] /\ tx'[r] = tx[r]
    BY <1>2, QuietFacts DEF SessionsInv, ProcsSound
  <2> QED BY <2>1 DEF Pair, Affected, Quiet
<1> QED BY <1>1, <1>2 DEF ProcsSound

LEMMA QuietKeepsRows == ASSUME SessionsInv, Quiet, TypeOK' PROVE RowsSound' /\ ContextsSound'
<1>1. home' = home /\ next' = next /\ \A s : Messages(s)' = Messages(s)
  BY QuietFacts DEF Quiet
<1>2. ASSUME NEW s \in Ids PROVE RowForm(s)'
  <2>1. RowForm(s)
    BY DEF SessionsInv, RowsSound
  <2>2. CASE Exists(s)
    BY <1>1, <2>1, <2>2, QuietFacts DEF RowForm, SameRow
  <2>3. CASE Made(s)
    <3>1. Messages(s) = {} /\ Exists(s)'
      <4>1. ~Exists(s)
        BY <2>3 DEF Made, Exists
      <4>2. [status |-> "active", count |-> 0, summary |-> {}, last |-> next - 1] \notin {Unborn, Gone}
        BY DEF Unborn, Gone
      <4> QED BY <2>1, <2>3, <4>1, <4>2 DEF RowForm, Made, Exists
    <3>2. row'[s].count < next /\ row'[s].last < next
      BY <2>3, QuietFacts DEF Made
    <3> QED BY <1>1, <3>1, <3>2 DEF RowForm
  <2>4. CASE ~Exists(s) /\ ~Made(s)
    <3>1. ~Exists(s)'
      BY <2>4, QuietFacts DEF Exists
    <3> QED BY <1>1, <2>1, <2>4, <3>1 DEF RowForm
  <2> QED BY <2>2, <2>3, <2>4
<1>3. ASSUME NEW s \in Ids PROVE ContextForm(s)'
  <2>1. ctx'[s] = ctx[s] \/ ctx'[s] = <<>>
    BY DEF Quiet, Kept, Emptied
  <2> QED BY <1>1, <2>1, NoContext DEF SessionsInv, ContextsSound, ContextForm, Covers
<1> QED BY <1>1, <1>2, <1>3 DEF SessionsInv, RowsSound, ContextsSound

LEMMA QuietKeepsMemory == ASSUME SessionsInv, Quiet, TypeOK' PROVE RemembersKept'
<1> SUFFICES ASSUME NEW s \in Ids \ overlapped', row'[s] # Gone PROVE Remembers(s)'
  BY DEF RemembersKept
<1>1. Remembers(s) /\ home' = home /\ \A u : Messages(u)' = Messages(u)
  BY QuietFacts DEF SessionsInv, RemembersKept, Quiet
<1>2. Kept(s) \/ Emptied(s)
  BY DEF Quiet
<1>3. digest'[s] \subseteq Messages(s)
  BY <1>1, <1>2 DEF Remembers, Kept, Emptied
<1>4. Exists(s)' => row'[s].summary \subseteq Messages(s)
  BY <1>1, QuietFacts DEF Remembers, SameRow, Made
<1>5. ContextKnows(s)'
  <2>1. CASE ctx'[s] = ctx[s]
    <3>1. \A p \in Procs : Busy(p) /\ tx[p].own = s /\ tx[p].stage = "written" => Busy(p)' /\ tx'[p] = tx[p]
      BY DEF Quiet, Ended, Busy
    <3>2. ContextKnows(s)
      BY <1>1 DEF Remembers
    <3> QED BY <1>1, <2>1, <3>1, <3>2 DEF ContextKnows
  <2>2. CASE ctx'[s] = <<>>
    BY <2>2, NoContext DEF ContextKnows
  <2> QED BY <1>2, <2>1, <2>2 DEF Kept, Emptied
<1>6. ASSUME NEW q \in Procs, Busy(q)' PROVE Knows(tx[q], s)'
  <2>1. Busy(q) /\ tx'[q] = tx[q] /\ Knows(tx[q], s)
    BY <1>1, <1>6, QuietFacts DEF Remembers
  <2>2. Seen(tx[q], s)' = Seen(tx[q], s)
    BY <1>1, <2>1 DEF Seen
  <2>3. Exists(s)' => row'[s].summary = {} \/ (Exists(s) /\ row'[s].summary = row[s].summary)
    BY QuietFacts DEF SameRow, Made
  <2> QED BY <1>1, <1>2, <2>1, <2>2, <2>3, NoContext DEF Knows, Kept, Emptied
<1> QED BY <1>1, <1>3, <1>4, <1>5, <1>6 DEF Remembers

LEMMA QuietKeeps == ASSUME SessionsInv, Quiet, TypeOK' PROVE SessionsInv'
  BY QuietKeepsProcs, QuietKeepsRows, QuietKeepsMemory DEF SessionsInv

-----------------------------------------------------------------------------
(* The invariant holds at first. *)

LEMMA NoContextFits == <<>> \in BoundedSeq(Turns, Window)
<1>1. Len(<<>>) = 0 /\ <<>> \in Seq(Turns)
  OBVIOUS
<1>2. Len(<<>>) <= Window
  BY <1>1, Numbers
<1> QED BY <1>1, <1>2, Bounded

LEMMA InitSessions == Init => SessionsInv
<1> SUFFICES ASSUME Init PROVE SessionsInv
  OBVIOUS
<1>1. /\ \A p \in Procs : ~Busy(p)
      /\ \A s \in Ids : row[s] = Unborn /\ ctx[s] = <<>> /\ digest[s] = {} /\ ~Exists(s)
      /\ \A t \in Turns : home[t] = None
  BY DEF Init, Busy, Exists
<1>2. \A s \in Ids : Messages(s) = {}
  BY <1>1, Numbers DEF Messages
<1>3. TypeOK
  <2>1. <<>> \in BoundedSeq(Turns, Window)
    BY NoContextFits
  <2>2. 1 \in 1..(LastTurn + 1) /\ 0 \in 0..0 /\ 0 \in 0..(1 - 1) /\ 0 \in 0..MaxEvents
    BY SessionsAssumption
  <2> QED BY <2>1, <2>2 DEF Init, TypeOK
<1>4. ProcsSound
  BY <1>1 DEF ProcsSound
<1>5. RowsSound
  BY <1>1, <1>2 DEF RowsSound, RowForm
<1>6. ContextsSound
  BY <1>1, NoContext DEF ContextsSound, ContextForm
<1>7. RemembersKept
  BY <1>1, NoContext DEF RemembersKept, Remembers, ContextKnows
<1> QED BY <1>3, <1>4, <1>5, <1>6, <1>7 DEF SessionsInv

-----------------------------------------------------------------------------
(* Steps that are quiet *)

LEMMA Forgotten ==
    ASSUME TypeOK, NEW S, Forget(S)
    PROVE  /\ \A s \in Ids : Kept(s) \/ Emptied(s)
           /\ \A s \in Ids : s \notin S => Kept(s)
           /\ \A s \in Ids : s \in S => Emptied(s)
           /\ ctx' \in [Ids -> BoundedSeq(Turns, Window)] /\ digest' \in [Ids -> SUBSET Turns]
<1>1. <<>> \in BoundedSeq(Turns, Window)
  BY NoContextFits
<1> QED BY <1>1 DEF TypeOK, Forget, Kept, Emptied

LEMMA Counters ==
    ASSUME TypeOK
    PROVE  /\ next \in Nat \ {0} /\ idle \in Nat /\ stale \in Nat /\ stale <= idle /\ idle < next
           /\ next <= LastTurn + 1 /\ events \in Nat /\ MaxEvents \in Nat
           /\ \A p \in Procs : tx[p] \in Tx \cup {NoTx}
           /\ \A s \in Ids : Exists(s) => row[s] \in SessionRow
           /\ Event => events' \in 0..MaxEvents
<1>1. next \in Nat \ {0} /\ idle \in Nat /\ stale \in Nat /\ stale <= idle /\ idle < next /\ next <= LastTurn + 1
  BY Numbers DEF TypeOK
<1>2. events \in Nat /\ MaxEvents \in Nat /\ (Event => events' \in 0..MaxEvents)
  BY SessionsAssumption DEF TypeOK, Event
<1>3. \A s \in Ids : Exists(s) => row[s] \in SessionRow
  BY DEF TypeOK, Exists
<1> QED BY <1>1, <1>2, <1>3 DEF TypeOK

\* Ending a transaction.
LEMMA EndKeeps ==
    ASSUME SessionsInv, NEW p \in Procs, tx' = [tx EXCEPT ![p] = NoTx],
           row' = row, UNCHANGED <<home, next, ctx, digest, expiring, idle, stale, removing>>,
           overlapped \subseteq overlapped', overlapped' \subseteq Ids, events' \in 0..MaxEvents,
           tx[p].stage = "written" /\ tx[p].own \in Ids => tx[p].own \in overlapped'
    PROVE  SessionsInv'
<1>1. TypeOK'
  BY Counters DEF SessionsInv, TypeOK
<1>2. Quiet
  <2>1. tx'[p] = NoTx /\ \A q \in Procs \ {p} : tx'[q] = tx[q]
    BY DEF SessionsInv, TypeOK
  <2> QED BY <2>1, Counters DEF Quiet, Kept, Ended, SessionsInv
<1> QED BY <1>1, <1>2, QuietKeeps

LEMMA FailKeeps == ASSUME SessionsInv, NEW p \in Procs, Fail(p) PROVE SessionsInv'
<1>1. events' \in 0..MaxEvents /\ overlapped \subseteq Ids
  BY Counters DEF Fail, SessionsInv, TypeOK
<1>2. overlapped \subseteq overlapped' /\ (tx[p].stage = "written" /\ tx[p].own \in Ids => tx[p].own \in overlapped')
  BY Numbers DEF Fail
<1>3. overlapped' \subseteq Ids
  BY <1>1, BusyTyped, TxTyped DEF Fail, SessionsInv
<1> QED BY <1>1, <1>2, <1>3, EndKeeps DEF Fail

LEMMA RowMissingKeeps == ASSUME SessionsInv, NEW p \in Procs, RowMissing(p) PROVE SessionsInv'
<1>1. events' \in 0..MaxEvents /\ overlapped \subseteq Ids /\ tx[p].stage # "written"
  BY DEF RowMissing, SessionsInv, TypeOK
<1> QED BY <1>1, EndKeeps DEF RowMissing

LEMMA VictimKeeps == ASSUME SessionsInv, NEW p \in Procs, Victim(p) PROVE SessionsInv'
<1>1. events' \in 0..MaxEvents /\ overlapped \subseteq Ids
  BY DEF Victim, SessionsInv, TypeOK
<1>2. tx[p].stage # "written"
  <2>1. PICK q \in Procs : WaitsFor(p, q)
    BY DEF Victim
  <2>2. CASE Wants(p) \cap Held(q) # {}
    BY <2>2 DEF Wants
  <2>3. CASE tx[p].stage = "aged"
    BY <2>3
  <2> QED BY <2>1, <2>2, <2>3 DEF WaitsFor
<1> QED BY <1>1, <1>2, EndKeeps DEF Victim

LEMMA CommitDeniedKeeps == ASSUME SessionsInv, NEW p \in Procs, CommitDenied(p) PROVE SessionsInv'
<1>0. PICK s : s = tx[p].own
  OBVIOUS
<1> DEFINE x == tx[p]
           made == [status |-> "active", count |-> 0, summary |-> {}, last |-> next - 1]
<1>1. x \in Tx /\ Busy(p) /\ s \in Ids /\ x.stage = "loaded" /\ p \in Asks /\ AskForm(x) /\ events' \in 0..MaxEvents
      /\ next - 1 \in 0..LastTurn
  <2>1. x \in Tx /\ Busy(p) /\ x.stage = "loaded" /\ s # None /\ Form(p, x) /\ events' \in 0..MaxEvents
    BY <1>0, BusyTyped, Counters DEF CommitDenied, SessionsInv, ProcsSound
  <2>2. s \in Ids
    BY <1>0, <2>1, TxTyped
  <2>3. p \in Asks
    BY <1>0, <2>1, Numbers DEF Form, SweepForm
  <2>4. next - 1 \in 0..LastTurn
    BY Counters, Numbers DEF SessionsInv
  <2> QED BY <1>0, <2>1, <2>2, <2>3, <2>4 DEF Form
<1>2. CASE ~x.kept
  <2>1. row[s] = Unborn /\ ~x.expired /\ row' = [row EXCEPT ![s] = made]
    BY <1>0, <1>1, <1>2 DEF AskForm, CommitDenied
  <2>2. made \in SessionRow
    BY <1>0, <1>1, Numbers DEF SessionRow
  <2>3. TypeOK'
    BY <1>0, <1>1, <2>1, <2>2, Counters DEF CommitDenied, SessionsInv, TypeOK
  <2>4. \A q \in Procs : q # p /\ Busy(q) => tx[q].own # s
    BY <1>0, <1>1, <1>2 DEF SessionsInv, ProcsSound, Pair
  <2>5. tx' = [tx EXCEPT ![p] = NoTx] /\ tx'[p] = NoTx /\ \A q \in Procs \ {p} : tx'[q] = tx[q]
    BY <1>0, <1>1 DEF CommitDenied, SessionsInv, TypeOK
  <2>6. row'[s] = made /\ \A u \in Ids \ {s} : row'[u] = row[u]
    BY <1>0, <1>1, <2>1 DEF SessionsInv, TypeOK
  <2>7. Made(s)
    BY <1>0, <2>1, <2>4, <2>5, <2>6 DEF Made, Busy
  <2>8. Quiet
    BY <1>0, <1>1, <2>5, <2>6, <2>7, Counters DEF CommitDenied, Quiet, Kept, Ended, SessionsInv
  <2> QED BY <1>0, <2>3, <2>8, QuietKeeps
<1>3. CASE x.kept /\ ~x.expired
  <2>1. row' = row
    BY <1>0, <1>3 DEF CommitDenied, SessionsInv, TypeOK
  <2>2. overlapped' = overlapped /\ overlapped \subseteq Ids
    BY <1>0 DEF CommitDenied, SessionsInv, TypeOK
  <2> QED BY <1>0, <1>1, <2>1, <2>2, EndKeeps DEF CommitDenied
<1>4. CASE x.kept /\ x.expired
  <2>1. Exists(s) /\ row' = [row EXCEPT ![s] = [row[s] EXCEPT !.status = "active"]]
    BY <1>0, <1>4 DEF CommitDenied
  <2>2. row[s] \in SessionRow
    BY <1>0, <1>1, <2>1, Counters DEF SessionsInv
  <2>0. PICK r : r = [row[s] EXCEPT !.status = "active"]
    OBVIOUS
  <2>3. /\ r \in SessionRow /\ r.count = row[s].count /\ r.last = row[s].last /\ r.summary = row[s].summary
        /\ r \notin {Unborn, Gone}
    <3>1. r.status = "active"
      BY <1>0, <2>0, <2>2 DEF SessionRow
    <3> QED BY <1>0, <2>0, <2>2, <3>1 DEF SessionRow, Unborn, Gone
  <2>4. TypeOK'
    BY <1>0, <1>1, <2>0, <2>1, <2>3, Counters DEF CommitDenied, SessionsInv, TypeOK
  <2>5. tx'[p] = NoTx /\ \A q \in Procs \ {p} : tx'[q] = tx[q]
    BY <1>0, <1>1 DEF CommitDenied, SessionsInv, TypeOK
  <2>6. row'[s] = r /\ \A u \in Ids \ {s} : row'[u] = row[u]
    BY <1>0, <1>1, <2>0, <2>1 DEF SessionsInv, TypeOK
  <2>7. SameRow(s)
    BY <1>0, <2>1, <2>3, <2>6 DEF SameRow, Exists
  <2>8. Quiet
    BY <1>0, <1>1, <2>5, <2>6, <2>7, Counters DEF CommitDenied, Quiet, Kept, Ended, SessionsInv
  <2> QED BY <1>0, <2>4, <2>8, QuietKeeps
<1> QED BY <1>0, <1>2, <1>3, <1>4

\* The status of rows that are there.
LEMMA StatusKeeps ==
    ASSUME SessionsInv, NEW S \in SUBSET Ids, NEW v \in {"expired", "deleted"}, \A s \in S : Exists(s),
           row' = [s \in Ids |-> IF s \in S THEN [row[s] EXCEPT !.status = v] ELSE row[s]],
           UNCHANGED <<home, next, ctx, digest, tx, idle, stale, overlapped>>,
           expiring' \subseteq Ids, removing' \subseteq Ids, events' \in 0..MaxEvents
    PROVE  SessionsInv'
<1>1. ASSUME NEW s \in S
      PROVE  row'[s] \in SessionRow /\ SameRow(s)
  <2>1. row[s] \in SessionRow /\ row'[s] = [row[s] EXCEPT !.status = v] /\ Exists(s)
    BY Counters DEF SessionsInv
  <2>2. row'[s] \in SessionRow /\ row'[s].count = row[s].count /\ row'[s].last = row[s].last
        /\ row'[s].summary = row[s].summary /\ row'[s].status = v
    BY <2>1 DEF SessionRow
  <2> QED BY <2>1, <2>2 DEF SameRow, Exists, Unborn, Gone
<1>2. \A s \in Ids \ S : row'[s] = row[s]
  OBVIOUS
<1>3. TypeOK'
  <2>1. row' \in [Ids -> SessionRow \cup {Unborn, Gone}]
    BY <1>1, <1>2 DEF SessionsInv, TypeOK
  <2> QED BY <2>1 DEF SessionsInv, TypeOK
<1>4. Quiet
  BY <1>1, <1>2, Counters DEF Quiet, Kept, SessionsInv
<1> QED BY <1>3, <1>4, QuietKeeps

LEMMA ExpireKeeps == ASSUME SessionsInv, Expire PROVE SessionsInv'
<1>1. expiring \subseteq Ids /\ expiring' = {} /\ removing' \subseteq Ids /\ events' \in 0..MaxEvents
  BY DEF Expire, SessionsInv, TypeOK
<1>2. CASE \A s \in expiring : Exists(s)
  BY <1>1, <1>2, StatusKeeps DEF Expire
<1>3. CASE ~ \A s \in expiring : Exists(s)
  <2>1. row' = [s \in Ids |-> IF s \in {} THEN [row[s] EXCEPT !.status = "expired"] ELSE row[s]]
    BY <1>3 DEF Expire, SessionsInv, TypeOK
  <2> QED BY <1>1, <2>1, StatusKeeps DEF Expire
<1> QED BY <1>2, <1>3

LEMMA DeleteSessionKeeps == ASSUME SessionsInv, NEW s \in Ids, DeleteSession(s) PROVE SessionsInv'
<1>1. expiring' \subseteq Ids /\ removing' \subseteq Ids /\ events' \in 0..MaxEvents
  BY Counters DEF DeleteSession, SessionsInv, TypeOK
<1>2. row' = [u \in Ids |-> IF u \in {s} THEN [row[u] EXCEPT !.status = "deleted"] ELSE row[u]]
  BY DEF DeleteSession, SessionsInv, TypeOK
<1> QED BY <1>1, <1>2, StatusKeeps DEF DeleteSession

LEMMA LossKeeps ==
    ASSUME SessionsInv, NEW S, Forget(S), UNCHANGED <<row, home, next, tx, idle, stale, overlapped>>,
           expiring' \subseteq Ids, removing' \subseteq Ids, events' \in 0..MaxEvents
    PROVE  SessionsInv'
<1>1. TypeOK'
  BY Forgotten DEF SessionsInv, TypeOK
<1>2. Quiet
  BY Forgotten, Counters DEF Quiet, SessionsInv
<1> QED BY <1>1, <1>2, QuietKeeps

LEMMA LosesKeep ==
    ASSUME SessionsInv, SelectIdle \/ \E s \in Ids : ClearDeleted(s) \/ LoseCache(s)
    PROVE  SessionsInv'
<1>1. CASE SelectIdle
  <2>1. events' \in 0..MaxEvents /\ removing' \subseteq Ids /\ expiring' \subseteq Ids
    BY <1>1, Counters DEF SelectIdle, SessionsInv, TypeOK
  <2> QED BY <1>1, <2>1, LossKeeps DEF SelectIdle
<1>2. ASSUME NEW s \in Ids, ClearDeleted(s) PROVE SessionsInv'
  <2>1. events' \in 0..MaxEvents /\ removing' \subseteq Ids /\ expiring' \subseteq Ids
    BY <1>2 DEF ClearDeleted, SessionsInv, TypeOK
  <2> QED BY <1>2, <2>1, LossKeeps DEF ClearDeleted
<1>3. ASSUME NEW s \in Ids, LoseCache(s) PROVE SessionsInv'
  <2>1. events' \in 0..MaxEvents /\ removing' \subseteq Ids /\ expiring' \subseteq Ids
    BY <1>3, Counters DEF LoseCache, SessionsInv, TypeOK
  <2> QED BY <1>3, <2>1, LossKeeps DEF LoseCache
<1> QED BY <1>1, <1>2, <1>3

LEMMA TimeKeeps == ASSUME SessionsInv, PassTime PROVE SessionsInv'
<1>1. events' \in 0..MaxEvents
  BY Counters DEF PassTime, SessionsInv
<1>2. stale' \in 0..idle' /\ idle' \in 0..(next - 1) /\ stale <= stale' /\ stale' \in Nat
  BY Counters DEF PassTime, SessionsInv
<1>3. TypeOK'
  BY <1>1, <1>2 DEF PassTime, SessionsInv, TypeOK
<1>4. Quiet
  BY <1>2 DEF PassTime, Quiet, Kept
<1> QED BY <1>3, <1>4, QuietKeeps

LEMMA StutterKeeps == ASSUME SessionsInv, UNCHANGED vars PROVE SessionsInv'
<1>1. TypeOK'
  BY DEF vars, SessionsInv, TypeOK
<1>2. Quiet
  BY Counters DEF vars, Quiet, Kept, SessionsInv
<1> QED BY <1>1, <1>2, QuietKeeps

-----------------------------------------------------------------------------
(* A transaction begins *)

LEMMA Fixes == ASSUME NEW S \in SUBSET Ids, NEW f \in [S -> 0..LastTurn]
               PROVE  f \in UNION {[R -> 0..LastTurn] : R \in SUBSET Ids}
  OBVIOUS

LEMMA BegunTyped == ASSUME NEW s \in Ids \cup {None} PROVE NewTx(s) \in Tx
<1>1. NoFix \in [{} -> 0..LastTurn] /\ {} \in SUBSET Ids
  BY DEF NoFix
<1>2. NoFix \in UNION {[R -> 0..LastTurn] : R \in SUBSET Ids}
  BY <1>1, Fixes
<1>3. NoMem \in [context : Seq(Turns), summary : SUBSET Turns]
  BY NoContext DEF NoMem
<1> QED BY <1>2, <1>3, Numbers DEF NewTx, Tx, Stages

LEMMA BeginKeeps ==
    ASSUME SessionsInv, NEW p \in Procs, ~Busy(p), NEW y \in Tx,
           y.turn = 0 /\ y.drop = {} /\ y.del = {} /\ y.todo = {} /\ DOMAIN y.fix = {}
             /\ y.clear = {} /\ y.wrote = {} /\ y.held = {} /\ y.mem = NoMem /\ y.count < next,
           y.stage \in {"loaded", "flushed"},
           p \in Asks => y.stage = "loaded" /\ y.own \in Ids /\ (~y.kept => row[y.own] = Unborn /\ ~y.expired),
           p = Sweeper => SweepForm(y),
           \A q \in Procs : Busy(q) =>
               /\ (~y.kept \/ ~tx[q].kept) => y.own # tx[q].own
               /\ y.own \in Affected(tx[q]) => y.own \in overlapped',
           y.own \in Ids \ overlapped' /\ row[y.own] # Gone => y.summary \subseteq Messages(y.own),
           tx' = [tx EXCEPT ![p] = y], overlapped \subseteq overlapped', overlapped' \subseteq Ids,
           UNCHANGED <<row, home, next, ctx, digest, expiring, idle, stale, removing, events>>
    PROVE  SessionsInv'
<1>1. TypeOK'
  BY DEF SessionsInv, TypeOK
<1>2. Moves(p, y)
  BY Counters DEF Moves, Kept, SessionsInv
<1>3. Form(p, y)'
  <2>1. TxForm(y)'
    BY Counters, TxTyped DEF TxForm, Late, Affected, SessionsInv
  <2>2. TrimForm(y)'
    BY DEF TrimForm
  <2>3. p \in Asks => AskForm(y)'
    BY DEF AskForm
  <2>4. p = Sweeper => SweepForm(y)'
    BY DEF SweepForm
  <2>5. y.stage = "loaded" \/ p \notin Asks
    OBVIOUS
  <2> QED BY <2>1, <2>2, <2>3, <2>4, <2>5 DEF Form
<1>4. ASSUME NEW q \in Procs \ {p}, Busy(q) PROVE Pair(y, tx[q])'
  <2>1. tx[q] \in Tx /\ tx'[q] = tx[q]
    BY <1>2, <1>4, BusyTyped, MovedTx DEF SessionsInv
  <2>2. 0 \notin tx[q].del
    BY <2>1, TxTyped, Numbers
  <2>3. Affected(y) = {}
    BY DEF Affected
  <2> QED BY <1>4, <2>1, <2>2, <2>3 DEF Pair, Affected
<1>5. ASSUME NEW s \in Ids \ overlapped', row[s] # Gone
      PROVE  digest'[s] \subseteq Messages(s) /\ Knows(y, s)'
  <2>1. digest[s] \subseteq Messages(s) /\ Messages(s)' = Messages(s)
    BY <1>5 DEF SessionsInv, RemembersKept, Remembers, Messages
  <2>2. ToSet(y.mem.context) = {} /\ y.mem.summary = {}
    BY NoContext DEF NoMem
  <2> QED BY <1>5, <2>1, <2>2 DEF Knows
<1> QED BY <1>1, <1>2, <1>3, <1>4, <1>5, MoveKeeps

LEMMA StartSessionKeeps ==
    ASSUME SessionsInv, NEW p \in Asks, NEW s \in Ids, StartSession(p, s) PROVE SessionsInv'
<1>1. PICK y : y = NewTx(s)
  OBVIOUS
<1>2. /\ y \in Tx /\ y.own = s /\ y.stage = "loaded" /\ y.turn = 0 /\ y.drop = {} /\ y.del = {} /\ y.todo = {}
      /\ DOMAIN y.fix = {} /\ y.clear = {} /\ y.wrote = {} /\ y.held = {} /\ y.mem = NoMem /\ y.count = 0
      /\ ~y.kept /\ ~y.expired /\ y.summary = {}
  BY <1>1, BegunTyped DEF NewTx, NoFix
<1>3. p \in Procs /\ p # Sweeper /\ 0 < next /\ overlapped \subseteq Ids
  BY Numbers, Counters DEF SessionsInv, TypeOK
<1>4. ASSUME NEW q \in Procs, Busy(q) PROVE y.own # tx[q].own /\ y.own \notin Affected(tx[q])
  <2>1. y.own # tx[q].own
    BY <1>2, <1>4 DEF StartSession, Own
  <2>2. y.own \notin Affected(tx[q])
    BY <1>2, <1>4 DEF StartSession, SessionsInv, ProcsSound, Form, TxForm
  <2> QED BY <2>1, <2>2
<1>5. /\ ~Busy(p) /\ row[s] = Unborn /\ tx' = [tx EXCEPT ![p] = y] /\ overlapped' = overlapped
      /\ UNCHANGED <<row, home, next, ctx, digest, expiring, idle, stale, removing, events>>
  BY <1>1 DEF StartSession
<1> QED BY <1>2, <1>3, <1>4, <1>5, BeginKeeps

LEMMA ResumeKeeps ==
    ASSUME SessionsInv, NEW p \in Asks, NEW s \in Ids, Resume(p, s) PROVE SessionsInv'
<1>1. PICK y : y = [NewTx(s) EXCEPT !.kept = TRUE, !.expired = row[s].status = "expired",
                                    !.count = row[s].count, !.summary = row[s].summary]
  OBVIOUS
<1>2. Exists(s) /\ row[s] \in SessionRow /\ row[s].count < next
  BY Counters DEF Resume, SessionsInv, RowsSound, RowForm
<1>3. /\ y.own = s /\ y.stage = "loaded" /\ y.turn = 0 /\ y.drop = {} /\ y.del = {} /\ y.todo = {}
      /\ DOMAIN y.fix = {} /\ y.clear = {} /\ y.wrote = {} /\ y.held = {} /\ y.mem = NoMem
      /\ y.count = row[s].count /\ y.kept = TRUE /\ y.summary = row[s].summary
  BY <1>1 DEF NewTx, NoFix
<1>4. y \in Tx
  <2>1. NewTx(s) \in Tx /\ row[s].count \in 0..LastTurn /\ row[s].summary \in SUBSET Turns
    BY <1>2, BegunTyped DEF SessionRow
  <2> QED BY <1>1, <2>1 DEF Tx
<1>5. p \in Procs /\ p # Sweeper /\ overlapped \subseteq Ids
  BY Numbers DEF SessionsInv, TypeOK
<1>6. ASSUME NEW q \in Procs, Busy(q)
      PROVE  /\ ~tx[q].kept => y.own # tx[q].own
             /\ y.own \in Affected(tx[q]) => y.own \in overlapped'
  <2>1. ~tx[q].kept => y.own # tx[q].own
    <3>1. Form(q, tx[q])
      BY <1>6 DEF SessionsInv, ProcsSound
    <3>2. row[s] # Unborn /\ s # None
      BY <1>2, Numbers DEF Exists
    <3> QED BY <1>3, <3>1, <3>2, Numbers DEF Form, AskForm, SweepForm
  <2>2. y.own \in Affected(tx[q]) => y.own \in overlapped'
    BY <1>3, <1>6 DEF Resume
  <2> QED BY <2>1, <2>2
<1>7. s \notin overlapped' => row[s].summary \subseteq Messages(s)
  <2>1. s \notin overlapped' => s \notin overlapped
    BY DEF Resume
  <2>2. row[s] # Gone
    BY <1>2 DEF Exists
  <2> QED BY <1>2, <2>1, <2>2 DEF SessionsInv, RemembersKept, Remembers
<1>8. /\ ~Busy(p) /\ tx' = [tx EXCEPT ![p] = y] /\ overlapped \subseteq overlapped' /\ overlapped' \subseteq Ids
      /\ UNCHANGED <<row, home, next, ctx, digest, expiring, idle, stale, removing, events>>
  BY <1>1, <1>5 DEF Resume
<1> QED BY <1>2, <1>3, <1>4, <1>5, <1>6, <1>7, <1>8, BeginKeeps

LEMMA StartSweepKeeps == ASSUME SessionsInv, StartSweep PROVE SessionsInv'
<1>1. PICK y : y = [NewTx(None) EXCEPT !.stage = "flushed"]
  OBVIOUS
<1>2. /\ y.own = None /\ y.stage = "flushed" /\ y.turn = 0 /\ y.drop = {} /\ y.del = {} /\ y.todo = {}
      /\ DOMAIN y.fix = {} /\ y.clear = {} /\ y.wrote = {} /\ y.held = {} /\ y.mem = NoMem /\ y.count = 0
      /\ ~y.kept
  BY <1>1 DEF NewTx, NoFix
<1>3. y \in Tx
  <2>1. NewTx(None) \in Tx /\ "flushed" \in Stages
    BY BegunTyped DEF Stages
  <2> QED BY <1>1, <2>1 DEF Tx
<1>4. Sweeper \in Procs /\ Sweeper \notin Asks /\ None \notin Ids /\ 0 < next /\ overlapped \subseteq Ids
  BY Numbers, Counters DEF SessionsInv, TypeOK
<1>5. SweepForm(y)
  BY <1>2 DEF SweepForm
<1>6. /\ ~Busy(Sweeper) /\ tx' = [tx EXCEPT ![Sweeper] = y] /\ overlapped' = overlapped
      /\ UNCHANGED <<row, home, next, ctx, digest, expiring, idle, stale, removing, events>>
  BY <1>1 DEF StartSweep
<1>7. ASSUME NEW q \in Procs, Busy(q) PROVE y.own # tx[q].own /\ y.own \notin Affected(tx[q])
  <2>1. q \in Asks /\ tx[q] \in Tx
    BY <1>6, <1>7, Numbers, BusyTyped DEF SessionsInv
  <2>2. tx[q].own \in Ids
    BY <1>7, <2>1 DEF SessionsInv, ProcsSound, Form, AskForm
  <2> QED BY <1>2, <1>4, <2>1, <2>2, TxTyped
<1> QED BY <1>2, <1>3, <1>4, <1>5, <1>6, <1>7, BeginKeeps

-----------------------------------------------------------------------------
(* A transaction goes on *)

LEMMA PairStays ==
    ASSUME NEW x \in Tx, NEW y \in Tx, NEW z \in Tx, Pair(x, z), overlapped \subseteq overlapped',
           y.own = x.own, y.kept = x.kept, y.turn = x.turn, (y.held \ x.held) \cap z.held = {},
           z.turn \notin y.del, z.own \in Affected(y) \ Affected(x) => z.own \in overlapped'
    PROVE  Pair(y, z)'
  BY DEF Pair, Affected

LEMMA TrimStays ==
    ASSUME NEW x, NEW y, TrimForm(x), y.drop = x.drop, y.fix = x.fix, y.del = x.del,
           y.turn = x.turn \/ x.del = {}, home' = home, stale' = stale, overlapped \subseteq overlapped'
    PROVE  TrimForm(y)'
<1>1. \A s : Messages(s)' = Messages(s)
  BY DEF Messages
<1>2. y.turn = x.turn => \A t : Newer(t, y)' = Newer(t, x)
  BY DEF Newer
<1> QED BY <1>1, <1>2 DEF TrimForm

\* The facts of a transaction that works.
LEMMA Working ==
    ASSUME SessionsInv, NEW p \in Procs, Busy(p)
    PROVE  /\ tx[p] \in Tx /\ Form(p, tx[p]) /\ TxForm(tx[p]) /\ TrimForm(tx[p])
           /\ p \in Asks <=> tx[p].own \in Ids
           /\ p \in Asks <=> tx[p].own # None
           /\ p \in Asks => AskForm(tx[p])
           /\ p = Sweeper => SweepForm(tx[p])
           /\ p \in Asks /\ tx[p].stage # "loaded" => LastTurnForm(tx[p])
           /\ \A q \in Procs \ {p} : Busy(q) => tx[q] \in Tx /\ Pair(tx[p], tx[q]) /\ Held(q) = tx[q].held
           /\ Held(p) = tx[p].held
<1>1. tx[p] \in Tx /\ Form(p, tx[p]) /\ \A q \in Procs \ {p} : Busy(q) => tx[q] \in Tx /\ Pair(tx[p], tx[q])
  BY BusyTyped DEF SessionsInv, ProcsSound
<1>2. p \in Asks => tx[p].own \in Ids
  BY <1>1 DEF Form, AskForm
<1>3. p \notin Asks => tx[p].own = None
  BY <1>1, Numbers DEF Form, SweepForm
<1> QED BY <1>1, <1>2, <1>3, Numbers DEF Form, Held

LEMMA ReactivateKeeps == ASSUME SessionsInv, NEW p \in Procs, Reactivate(p) PROVE SessionsInv'
<1>1. PICK x : x = tx[p]
  OBVIOUS
<1>2. PICK y : y = [x EXCEPT !.held = {x.own}]
  OBVIOUS
<1>3. /\ Busy(p) /\ x \in Tx /\ x.stage = "loaded" /\ x.own \in Ids /\ x.held = {} /\ p \in Asks
      /\ AskForm(x) /\ TxForm(x) /\ TrimForm(x) /\ tx' = [tx EXCEPT ![p] = y]
      /\ UNCHANGED <<row, home, next, ctx, digest, expiring, idle, stale, removing, events, overlapped>>
  <2>1. Busy(p) /\ x \in Tx /\ x.stage = "loaded" /\ x.held = {} /\ Exists(x.own) /\ x.expired
        /\ x.own \in Ids \cup {None}
    BY <1>1, Working, TxTyped DEF Reactivate
  <2>2. p \in Asks
    BY <1>1, <2>1, Working, Numbers DEF SweepForm
  <2> QED BY <1>1, <1>2, <2>1, <2>2, Working DEF Reactivate
<1>4. /\ y \in Tx /\ y.stage = x.stage /\ y.own = x.own /\ y.kept = x.kept /\ y.expired = x.expired
      /\ y.count = x.count /\ y.summary = x.summary /\ y.turn = x.turn /\ y.drop = x.drop /\ y.del = x.del
      /\ y.todo = x.todo /\ y.fix = x.fix /\ y.clear = x.clear /\ y.wrote = x.wrote /\ y.mem = x.mem
      /\ y.held = {x.own}
  BY <1>2, <1>3 DEF Tx
<1>5. TypeOK'
  BY <1>3, <1>4 DEF SessionsInv, TypeOK
<1>6. Moves(p, y)
  BY <1>1, <1>3, Counters DEF Moves, Kept, SessionsInv
<1>7. Form(p, y)'
  <2>1. TxForm(y)'
    BY <1>3, <1>4 DEF TxForm, Late, Affected
  <2>2. TrimForm(y)'
    BY <1>3, <1>4, TrimStays
  <2>3. AskForm(y)'
    BY <1>3, <1>4 DEF AskForm
  <2> QED BY <1>3, <1>4, <2>1, <2>2, <2>3, Numbers DEF Form
<1>8. ASSUME NEW q \in Procs \ {p}, Busy(q) PROVE Pair(y, tx[q])'
  <2>1. /\ tx[q] \in Tx /\ Pair(x, tx[q]) /\ {x.own} \cap tx[q].held = {} /\ tx'[q] = tx[q]
    BY <1>1, <1>3, <1>6, <1>8, Working, MovedTx DEF Reactivate, Lockable, SessionsInv
  <2> QED BY <1>3, <1>4, <2>1 DEF Pair, Affected
<1>9. ASSUME NEW s \in Ids \ overlapped', row[s] # Gone
      PROVE  digest'[s] \subseteq Messages(s) /\ Knows(y, s)'
  <2>1. Knows(x, s) /\ digest[s] \subseteq Messages(s)
    BY <1>1, <1>3, <1>9 DEF SessionsInv, RemembersKept, Remembers
  <2> QED BY <1>3, <1>4, <2>1 DEF Knows, Seen, Messages, Exists
<1> QED BY <1>3, <1>4, <1>5, <1>6, <1>7, <1>8, <1>9, MoveKeeps

LEMMA InsertTurnKeeps == ASSUME SessionsInv, NEW p \in Procs, InsertTurn(p) PROVE SessionsInv'
<1>1. PICK x : x = tx[p]
  OBVIOUS
<1>2. PICK y : y = [x EXCEPT !.stage = "flushed", !.turn = next, !.count = @ + 1, !.held = {x.own}]
  OBVIOUS
<1>3. /\ Busy(p) /\ x \in Tx /\ x.stage = "loaded" /\ x.own \in Ids /\ p \in Asks /\ next \in Turns
      /\ (x.kept => Exists(x.own)) /\ next' = next + 1 /\ next \in Nat \ {0}
      /\ AskForm(x) /\ TxForm(x) /\ TrimForm(x) /\ tx' = [tx EXCEPT ![p] = y]
      /\ UNCHANGED <<row, home, ctx, digest, expiring, idle, stale, removing, events, overlapped>>
  <2>1. Busy(p) /\ x \in Tx /\ x.stage = "loaded"
    BY <1>1, Working DEF InsertTurn
  <2>2. p \in Asks
    BY <1>1, <2>1, Working, Numbers DEF SweepForm
  <2> QED BY <1>1, <1>2, <2>1, <2>2, Working, Counters DEF InsertTurn, SessionsInv
<1>4. /\ y.stage = "flushed" /\ y.own = x.own /\ y.kept = x.kept /\ y.expired = x.expired
      /\ y.count = x.count + 1 /\ y.summary = x.summary /\ y.turn = next /\ y.drop = x.drop /\ y.del = x.del
      /\ y.todo = x.todo /\ y.fix = x.fix /\ y.clear = x.clear /\ y.wrote = x.wrote /\ y.mem = x.mem
      /\ y.held = {x.own} /\ y.drop = {} /\ y.del = {} /\ y.todo = {} /\ DOMAIN y.fix = {} /\ Affected(y) = {}
      /\ x.count \in Nat /\ x.count < next
  <2>1. x.drop = {} /\ x.del = {} /\ x.todo = {} /\ DOMAIN x.fix = {} /\ x.count < next
    BY <1>3 DEF TxForm
  <2>2. x.count \in Nat
    BY <1>3, TxTyped, Numbers
  <2> QED BY <1>2, <1>3, <2>1, <2>2 DEF Tx, Affected
<1>5. y \in Tx
  <2>1. x.count + 1 \in 0..LastTurn /\ next \in 0..LastTurn /\ {x.own} \in SUBSET Ids /\ "flushed" \in Stages
    BY <1>3, <1>4, Numbers DEF Stages
  <2> QED BY <1>2, <1>3, <2>1 DEF Tx
<1>6. TypeOK'
  <2>1. next' \in 1..(LastTurn + 1) /\ idle \in 0..(next' - 1)
    BY <1>3, Numbers, Counters DEF SessionsInv
  <2> QED BY <1>3, <1>5, <2>1 DEF SessionsInv, TypeOK
<1>7. Moves(p, y)
  BY <1>1, <1>3, Counters DEF Moves, Kept, SessionsInv
<1>8. (\A s : Messages(s)' = Messages(s) /\ Exists(s)' = Exists(s)) /\ home[next] = None
      /\ \A t \in Turns : home[t] # None => t < next
  <2>1. \A t \in Turns : home[t] # None => t < next
    BY DEF SessionsInv, RowsSound
  <2> QED BY <1>3, <2>1 DEF Messages, Exists
<1>9. Form(p, y)'
  <2>1. TxForm(y)'
    BY <1>3, <1>4, <1>8 DEF TxForm, Late, Affected
  <2>2. TrimForm(y)'
    BY <1>3, <1>4, TrimStays
  <2>3. AskForm(y)'
    BY <1>3, <1>4, <1>8 DEF AskForm
  <2>4. LastTurnForm(y)'
    <3>1. \A t \in ToSet(ctx[x.own]) : t < next
      BY <1>3 DEF SessionsInv, ContextsSound, ContextForm
    <3>2. \A t \in Messages(x.own) : t < next
      BY <1>3, <1>8, Numbers DEF Messages
    <3> QED BY <1>3, <1>4, <1>8, <3>1, <3>2 DEF LastTurnForm
  <2> QED BY <1>3, <2>1, <2>2, <2>3, <2>4, Numbers DEF Form
<1>10. ASSUME NEW q \in Procs \ {p}, Busy(q) PROVE Pair(y, tx[q])'
  <2>1. /\ tx[q] \in Tx /\ Pair(x, tx[q]) /\ {x.own} \cap tx[q].held = {} /\ tx'[q] = tx[q]
    <3>1. tx[q] \in Tx /\ Pair(x, tx[q]) /\ Held(q) = tx[q].held
      BY <1>1, <1>3, <1>10, Working
    <3>2. Held(q) \cap {x.own} = {}
      BY <1>1, <1>10 DEF InsertTurn, Lockable
    <3>3. tx'[q] = tx[q]
      BY <1>3, <1>5, <1>7, <1>10, MovedTx DEF SessionsInv
    <3> QED BY <3>1, <3>2, <3>3
  <2>2. tx[q].turn # next
    <3>1. CASE q \in Asks
      <4>1. tx[q].turn = 0 \/ tx[q].turn \in 1..(next - 1)
        BY <1>10, <3>1, Working DEF AskForm
      <4> QED BY <1>3, <4>1
    <3>2. CASE q = Sweeper
      BY <1>3, <1>10, <3>2, Working DEF SweepForm
    <3> QED BY <3>1, <3>2, Numbers
  <2>3. next \notin tx[q].del
    <3>1. TxForm(tx[q])
      BY <1>10, Working
    <3> QED BY <1>3, <3>1 DEF TxForm
  <2> QED BY <1>3, <1>4, <2>1, <2>2, <2>3 DEF Pair, Affected
<1>11. ASSUME NEW s \in Ids \ overlapped', row[s] # Gone
      PROVE  digest'[s] \subseteq Messages(s) /\ Knows(y, s)'
  <2>1. Knows(x, s) /\ digest[s] \subseteq Messages(s)
    BY <1>1, <1>3, <1>11 DEF SessionsInv, RemembersKept, Remembers
  <2> QED BY <1>3, <1>4, <1>8, <2>1 DEF Knows
<1> QED BY <1>3, <1>5, <1>6, <1>7, <1>9, <1>10, <1>11, MoveKeeps

LEMMA ReadContextKeeps == ASSUME SessionsInv, NEW p \in Procs, ReadContext(p) PROVE SessionsInv'
<1>1. PICK x : x = tx[p]
  OBVIOUS
<1>2. PICK c : c = ctx[x.own]
  OBVIOUS
<1>3. PICK m : m = IF digest[x.own] # {} THEN digest[x.own] ELSE x.summary
  OBVIOUS
<1>4. PICK y : y = [x EXCEPT !.stage = "read", !.mem = [context |-> c, summary |-> m]]
  OBVIOUS
<1>5. /\ Busy(p) /\ x \in Tx /\ x.stage = "settled" /\ x.own \in Ids /\ p \in Asks /\ x.own \notin DOMAIN x.fix
      /\ AskForm(x) /\ TxForm(x) /\ TrimForm(x) /\ LastTurnForm(x) /\ tx' = [tx EXCEPT ![p] = y]
      /\ UNCHANGED <<row, home, next, ctx, digest, expiring, idle, stale, removing, events, overlapped>>
  <2>1. Busy(p) /\ x \in Tx /\ x.stage = "settled" /\ x.own # None /\ x.own \notin DOMAIN x.fix
    BY <1>1, Working DEF ReadContext
  <2> QED BY <1>1, <1>2, <1>3, <1>4, <2>1, Working DEF ReadContext
<1>6. c \in Seq(Turns) /\ m \subseteq Turns
  <2>1. c \in BoundedSeq(Turns, Window) /\ digest[x.own] \subseteq Turns /\ x.summary \subseteq Turns
    BY <1>2, <1>5, TxTyped DEF SessionsInv, TypeOK
  <2> QED BY <1>3, <2>1, Bounded
<1>7. /\ y.stage = "read" /\ y.own = x.own /\ y.kept = x.kept /\ y.expired = x.expired
      /\ y.count = x.count /\ y.summary = x.summary /\ y.turn = x.turn /\ y.drop = x.drop /\ y.del = x.del
      /\ y.todo = x.todo /\ y.fix = x.fix /\ y.clear = x.clear /\ y.wrote = x.wrote
      /\ y.held = x.held /\ y.mem.context = c /\ y.mem.summary = m
  BY <1>4, <1>5 DEF Tx
<1>8. y \in Tx
  <2>1. [context |-> c, summary |-> m] \in [context : Seq(Turns), summary : SUBSET Turns] /\ "read" \in Stages
    BY <1>6 DEF Stages
  <2> QED BY <1>4, <1>5, <2>1 DEF Tx
<1>9. TypeOK'
  BY <1>5, <1>8 DEF SessionsInv, TypeOK
<1>10. Moves(p, y)
  BY <1>1, <1>5, Counters DEF Moves, Kept, SessionsInv
<1>11. \A s : Messages(s)' = Messages(s) /\ Exists(s)' = Exists(s)
  BY <1>5 DEF Messages, Exists
<1>12. Form(p, y)'
  <2>1. TxForm(y)'
    BY <1>5, <1>7, <1>11 DEF TxForm, Late, Affected
  <2>2. TrimForm(y)'
    BY <1>5, <1>7, TrimStays
  <2>3. AskForm(y)'
    BY <1>5, <1>7, <1>11 DEF AskForm
  <2>4. LastTurnForm(y)'
    <3>1. Increasing(c) /\ Covers(c, x.own)' /\ \A t \in ToSet(c) : t < x.turn
      BY <1>2, <1>5, <1>11 DEF SessionsInv, ContextsSound, ContextForm, LastTurnForm, Covers
    <3> QED BY <1>5, <1>7, <1>11, <3>1 DEF LastTurnForm
  <2> QED BY <1>5, <2>1, <2>2, <2>3, <2>4, Numbers DEF Form
<1>13. ASSUME NEW q \in Procs \ {p}, Busy(q) PROVE Pair(y, tx[q])'
  <2>1. tx[q] \in Tx /\ Pair(x, tx[q]) /\ tx'[q] = tx[q]
    BY <1>1, <1>5, <1>10, <1>13, Working, MovedTx DEF SessionsInv
  <2> QED BY <1>5, <1>7, <2>1 DEF Pair, Affected
<1>14. ASSUME NEW s \in Ids \ overlapped', row[s] # Gone
      PROVE  digest'[s] \subseteq Messages(s) /\ Knows(y, s)'
  <2>1. Knows(x, s) /\ digest[s] \subseteq Messages(s) /\ ContextKnows(s)
    BY <1>1, <1>5, <1>14 DEF SessionsInv, RemembersKept, Remembers
  <2>2. ASSUME x.own = s PROVE m \subseteq Messages(s) /\ ToSet(c) \subseteq Messages(s)
    <3>1. m \subseteq Messages(s)
      BY <1>3, <2>1, <2>2 DEF Knows
    <3>2. ASSUME NEW q \in Procs, Busy(q), tx[q].own = s, tx[q].stage = "written" PROVE FALSE
      <4>1. q # p /\ q \in Asks
        BY <1>1, <1>5, <3>2, Working
      <4>2. s \in tx[q].held /\ s \in x.held /\ tx[q].held \cap x.held = {}
        BY <1>1, <1>5, <2>2, <3>2, <4>1, Working DEF AskForm, Pair
      <4> QED BY <4>2
    <3> QED BY <1>2, <2>1, <2>2, <3>1, <3>2 DEF ContextKnows
  <2> QED BY <1>5, <1>7, <1>11, <2>1, <2>2 DEF Knows, Seen
<1> QED BY <1>5, <1>8, <1>9, <1>10, <1>12, <1>13, <1>14, MoveKeeps

\* An ask writes the context of its session.
LEMMA WriteKeeps ==
    ASSUME SessionsInv, NEW p \in Asks, Busy(p), NEW x, x = tx[p], x.stage \in {"settled", "read"},
           NEW y \in Tx,
           y.stage = "written" /\ y.own = x.own /\ y.kept = x.kept /\ y.expired = x.expired
             /\ y.count = x.count /\ y.summary = x.summary /\ y.turn = x.turn /\ y.drop = x.drop /\ y.del = x.del
             /\ y.todo = x.todo /\ y.fix = x.fix /\ y.clear = x.clear /\ y.held = x.held /\ y.mem = x.mem,
           NEW d \in BoundedSeq(Turns, Window), Increasing(d), Covers(d, x.own),
           \A t \in ToSet(d) : t <= x.turn, x.turn \in ToSet(d),
           ctx' = [ctx EXCEPT ![x.own] = d], digest' \in [Ids -> SUBSET Turns],
           \A s \in Ids \ {x.own} : digest'[s] = digest[s],
           x.own \in DOMAIN x.fix => digest' = digest /\ y.wrote = {},
           x.own \notin overlapped => /\ ToSet(d) \subseteq Messages(x.own) \cup {x.turn}
                                      /\ x.own \in DOMAIN x.fix => ToSet(d) \subseteq Seen(x, x.own)
                                      /\ digest'[x.own] \subseteq Messages(x.own)
                                      /\ y.wrote \subseteq Messages(x.own),
           tx' = [tx EXCEPT ![p] = y],
           UNCHANGED <<row, home, next, expiring, idle, stale, removing, events, overlapped>>
    PROVE  SessionsInv'
<1>1. /\ p \in Procs /\ x \in Tx /\ x.own \in Ids /\ AskForm(x) /\ TxForm(x) /\ TrimForm(x) /\ LastTurnForm(x)
  BY Working, Numbers
<1>2. ctx'[x.own] = d /\ (\A s \in Ids \ {x.own} : ctx'[s] = ctx[s])
      /\ ctx' \in [Ids -> BoundedSeq(Turns, Window)]
  BY <1>1 DEF SessionsInv, TypeOK
<1>3. TypeOK'
  BY <1>1, <1>2 DEF SessionsInv, TypeOK
<1>4. Moves(p, y)
  BY <1>1, <1>2, Counters DEF Moves, Kept, SessionsInv
<1>5. /\ \A s : Messages(s)' = Messages(s) /\ Exists(s)' = Exists(s)
      /\ tx'[p] = y /\ Busy(p)'
  BY <1>1, <1>4, MovedTx DEF SessionsInv
<1>6. Form(p, y)'
  <2>1. TxForm(y)'
    BY <1>1, <1>5 DEF TxForm, Late, Affected
  <2>2. TrimForm(y)'
    BY <1>1, TrimStays
  <2>3. AskForm(y)'
    BY <1>1, <1>5 DEF AskForm
  <2>4. LastTurnForm(y)'
    BY <1>1, <1>2, <1>5 DEF LastTurnForm
  <2> QED BY <2>1, <2>2, <2>3, <2>4, Numbers DEF Form
<1>7. ASSUME NEW q \in Procs \ {p}, Busy(q) PROVE Pair(y, tx[q])'
  <2>1. tx[q] \in Tx /\ Pair(x, tx[q]) /\ tx'[q] = tx[q]
    BY <1>1, <1>4, <1>7, Working, MovedTx DEF SessionsInv
  <2> QED BY <1>1, <2>1 DEF Pair, Affected
<1>8. ContextForm(x.own)'
  <2>1. ToSet(d) \subseteq Nat /\ x.turn \in Nat /\ x.turn < next
    <3>1. d \in Seq(Turns)
      BY Bounded
    <3>2. ToSet(d) \subseteq Turns
      BY <3>1 DEF ToSet
    <3> QED BY <1>1, <3>2, Numbers, Counters DEF AskForm, SessionsInv
  <2>2. \A t \in ToSet(d) : t < next
    BY <2>1, Counters DEF SessionsInv
  <2>3. PICK o : o = x.own
    OBVIOUS
  <2>4. Covers(d, o)'
    BY <1>5, <2>3 DEF Covers
  <2> QED BY <1>2, <2>2, <2>3, <2>4 DEF ContextForm
<1>9. \A s \in Ids : ctx'[s] = ctx[s] \/ ContextForm(s)'
  BY <1>2, <1>8
<1>10. ASSUME NEW s \in Ids \ overlapped', row[s] # Gone
       PROVE  /\ ctx'[s] = ctx[s] \/ ContextKnows(s)'
              /\ digest'[s] \subseteq Messages(s) /\ Knows(y, s)'
  <2>1. Knows(x, s) /\ digest[s] \subseteq Messages(s) /\ s \notin overlapped
    BY <1>1, <1>10 DEF SessionsInv, RemembersKept, Remembers
  <2>2. CASE s # x.own
    BY <1>1, <1>2, <1>5, <2>1, <2>2 DEF Knows
  <2>3. CASE s = x.own
    <3>1. digest'[s] \subseteq Messages(s)
      BY <2>1, <2>3
    <3>2. ContextKnows(s)'
      BY <1>1, <1>2, <1>5, <2>1, <2>3 DEF ContextKnows
    <3>3. Seen(y, s)' = Seen(x, s)
      BY <1>5 DEF Seen
    <3>4. Knows(y, s)'
      BY <1>1, <1>2, <1>5, <2>1, <2>3, <3>3 DEF Knows
    <3> QED BY <3>1, <3>2, <3>4
  <2> QED BY <2>2, <2>3
<1> QED BY <1>1, <1>3, <1>4, <1>6, <1>7, <1>9, <1>10, MoveKeeps

LEMMA AppendTurnKeeps == ASSUME SessionsInv, NEW p \in Procs, AppendTurn(p) PROVE SessionsInv'
<1>1. PICK x : x = tx[p]
  OBVIOUS
<1>2. PICK c : c = x.mem.context
  OBVIOUS
<1>3. PICK all : all = Append(c, x.turn)
  OBVIOUS
<1>4. PICK d : d = Latest(Window, all)
  OBVIOUS
<1>5. PICK told : told = x.mem.summary \cup (ToSet(all) \ ToSet(d))
  OBVIOUS
<1>6. /\ Busy(p) /\ x \in Tx /\ x.stage = "read" /\ p \in Asks /\ x.own \in Ids /\ x.own \notin DOMAIN x.fix
      /\ x.wrote = {} /\ LastTurnForm(x) /\ AskForm(x) /\ x.turn \in Turns
      /\ c \in Seq(Turns) /\ x.mem.summary \subseteq Turns
  <2>1. Busy(p) /\ x \in Tx /\ x.stage = "read" /\ TxForm(x)
    BY <1>1, Working DEF AppendTurn
  <2>2. p \in Asks
    BY <1>1, <2>1, Working, Numbers DEF SweepForm
  <2>3. AskForm(x) /\ LastTurnForm(x) /\ x.own \in Ids
    BY <1>1, <2>1, <2>2, Working
  <2>4. x.turn \in Turns
    BY <2>1, <2>3, Numbers, Counters DEF AskForm, SessionsInv
  <2>5. c \in Seq(Turns) /\ x.mem.summary \subseteq Turns
    BY <1>2, <2>1, TxTyped
  <2> QED BY <2>1, <2>2, <2>3, <2>4, <2>5 DEF TxForm
<1>7. /\ all \in Seq(Turns) /\ Increasing(all) /\ all # <<>> /\ all[Len(all)] = x.turn
      /\ ToSet(all) = ToSet(c) \cup {x.turn}
  <2>1. Increasing(c) /\ \A t \in ToSet(c) : t < x.turn
    BY <1>2, <1>6 DEF LastTurnForm
  <2> QED BY <1>3, <1>6, <2>1, AppendedLast, Numbers
<1>8. /\ d \in Seq(Turns) /\ Len(d) <= Window /\ Increasing(d) /\ ToSet(d) \subseteq ToSet(all)
      /\ \A t \in ToSet(all) : d # <<>> /\ t >= d[1] => t \in ToSet(d)
      /\ x.turn \in ToSet(d) /\ d # <<>> /\ d[1] \in ToSet(all)
  BY <1>4, <1>7, LatestOnes, Numbers
<1>9. d \in BoundedSeq(Turns, Window)
  BY <1>8, Bounded
<1>10. ToSet(c) \subseteq Nat /\ x.turn \in Nat /\ (\A t \in ToSet(c) : t < x.turn) /\ ToSet(all) \subseteq Turns
       /\ d[1] \in Nat
  <2>1. ToSet(c) \subseteq Turns
    BY <1>6 DEF ToSet
  <2>2. \A t \in ToSet(c) : t < x.turn
    BY <1>2, <1>6 DEF LastTurnForm
  <2> QED BY <1>6, <1>7, <1>8, <2>1, <2>2, Numbers
<1>11. Covers(d, x.own)
  <2> SUFFICES ASSUME NEW t \in Messages(x.own), t >= d[1] PROVE t \in ToSet(d)
    BY DEF Covers
  <2>1. t < x.turn /\ t \in Nat
    BY <1>6, Numbers DEF LastTurnForm, Messages
  <2>2. d[1] # x.turn /\ d[1] \in ToSet(c)
    BY <1>7, <1>8, <1>10, <2>1
  <2>3. c # <<>> /\ c[1] <= d[1] /\ c[1] \in Nat
    <3>1. PICK i \in 1..Len(c) : d[1] = c[i]
      BY <1>6, <2>2 DEF ToSet
    <3>2. c # <<>> /\ 1 \in DOMAIN c /\ c[1] \in Nat /\ i \in DOMAIN c
      BY <1>6, <3>1, Numbers
    <3>3. i = 1 \/ c[1] < c[i]
      <4>1. Increasing(c) /\ (i = 1 \/ 1 < i)
        BY <1>2, <1>6, <3>1 DEF LastTurnForm
      <4> QED BY <3>2, <4>1 DEF Increasing
    <3> QED BY <1>10, <3>1, <3>2, <3>3
  <2>4. t \in ToSet(c)
    <3>1. t >= c[1] /\ Covers(c, x.own)
      BY <1>2, <1>6, <1>10, <2>1, <2>3 DEF LastTurnForm
    <3> QED BY <2>3, <3>1 DEF Covers
  <2> QED BY <1>7, <1>8, <2>4
<1>12. \A t \in ToSet(d) : t <= x.turn
  BY <1>7, <1>8, <1>10
<1>13. ASSUME x.own \notin overlapped
       PROVE  ToSet(d) \subseteq Messages(x.own) \cup {x.turn} /\ told \subseteq Messages(x.own)
              /\ digest[x.own] \subseteq Messages(x.own)
  <2>1. row[x.own] # Gone
    BY <1>6 DEF AskForm, Exists, Unborn, Gone
  <2>2. Remembers(x.own) /\ p \in Procs
    BY <1>6, <1>13, <2>1, Numbers DEF SessionsInv, RemembersKept
  <2>3. Knows(x, x.own) /\ digest[x.own] \subseteq Messages(x.own)
    BY <1>1, <1>6, <2>2 DEF Remembers
  <2>4. ToSet(c) \subseteq Messages(x.own) /\ x.mem.summary \subseteq Messages(x.own)
    BY <1>2, <2>3 DEF Knows
  <2> QED BY <1>5, <1>7, <1>8, <2>3, <2>4
<1>14. told \subseteq Turns
  BY <1>5, <1>6, <1>10
<1>15. ctx' = [ctx EXCEPT ![x.own] = d] /\ UNCHANGED <<row, home, next, expiring, idle, stale, removing, events, overlapped>>
  BY <1>1, <1>2, <1>3, <1>4 DEF AppendTurn
<1>16. CASE digest' = [digest EXCEPT ![x.own] = told]
            /\ tx' = [tx EXCEPT ![p] = [x EXCEPT !.stage = "written", !.wrote = told]]
  <2>1. PICK y : y = [x EXCEPT !.stage = "written", !.wrote = told]
    OBVIOUS
  <2>2. /\ y.stage = "written" /\ y.own = x.own /\ y.kept = x.kept /\ y.expired = x.expired
        /\ y.count = x.count /\ y.summary = x.summary /\ y.turn = x.turn /\ y.drop = x.drop /\ y.del = x.del
        /\ y.todo = x.todo /\ y.fix = x.fix /\ y.clear = x.clear /\ y.held = x.held /\ y.mem = x.mem
        /\ y.wrote = told
    BY <1>6, <2>1 DEF Tx
  <2>3. y \in Tx
    <3>1. "written" \in Stages
      BY DEF Stages
    <3> QED BY <1>6, <1>14, <2>1, <3>1 DEF Tx
  <2>4. /\ digest' \in [Ids -> SUBSET Turns] /\ digest'[x.own] = told
        /\ \A s \in Ids \ {x.own} : digest'[s] = digest[s]
    BY <1>6, <1>14, <1>16 DEF SessionsInv, TypeOK
  <2>5. tx' = [tx EXCEPT ![p] = y]
    BY <1>16, <2>1
  <2> QED BY <1>1, <1>6, <1>8, <1>9, <1>11, <1>12, <1>13, <1>15, <2>2, <2>3, <2>4, <2>5, WriteKeeps
<1>17. CASE digest' = digest /\ tx' = [tx EXCEPT ![p] = [x EXCEPT !.stage = "written"]]
  <2>1. PICK y : y = [x EXCEPT !.stage = "written"]
    OBVIOUS
  <2>2. /\ y.stage = "written" /\ y.own = x.own /\ y.kept = x.kept /\ y.expired = x.expired
        /\ y.count = x.count /\ y.summary = x.summary /\ y.turn = x.turn /\ y.drop = x.drop /\ y.del = x.del
        /\ y.todo = x.todo /\ y.fix = x.fix /\ y.clear = x.clear /\ y.held = x.held /\ y.mem = x.mem
        /\ y.wrote = {}
    BY <1>6, <2>1 DEF Tx
  <2>3. y \in Tx
    <3>1. "written" \in Stages
      BY DEF Stages
    <3> QED BY <1>6, <2>1, <3>1 DEF Tx
  <2>4. digest' \in [Ids -> SUBSET Turns] /\ \A s \in Ids : digest'[s] = digest[s]
    BY <1>17 DEF SessionsInv, TypeOK
  <2>5. tx' = [tx EXCEPT ![p] = y]
    BY <1>17, <2>1
  <2> QED BY <1>1, <1>6, <1>8, <1>9, <1>11, <1>12, <1>13, <1>15, <2>2, <2>3, <2>4, <2>5, WriteKeeps
<1>18. \/ digest' = [digest EXCEPT ![x.own] = told]
          /\ tx' = [tx EXCEPT ![p] = [x EXCEPT !.stage = "written", !.wrote = told]]
       \/ digest' = digest /\ tx' = [tx EXCEPT ![p] = [x EXCEPT !.stage = "written"]]
  BY <1>1, <1>2, <1>3, <1>4, <1>5 DEF AppendTurn
<1> QED BY <1>16, <1>17, <1>18

LEMMA RebuildContextKeeps == ASSUME SessionsInv, NEW p \in Procs, RebuildContext(p) PROVE SessionsInv'
<1>1. PICK x : x = tx[p]
  OBVIOUS
<1>2. PICK S : S = Seen(x, x.own)
  OBVIOUS
<1>3. PICK N : N = Newest(Window, S)
  OBVIOUS
<1>4. PICK d : d = Ascending(N)
  OBVIOUS
<1>5. PICK y : y = [x EXCEPT !.stage = "written"]
  OBVIOUS
<1>6. /\ Busy(p) /\ x \in Tx /\ x.stage = "settled" /\ p \in Asks /\ x.own \in Ids /\ x.own \in DOMAIN x.fix
      /\ x.wrote = {} /\ LastTurnForm(x) /\ AskForm(x) /\ x.turn \in Turns /\ x.turn \in Nat
      /\ x.turn \notin x.del /\ tx' = [tx EXCEPT ![p] = y] /\ ctx' = [ctx EXCEPT ![x.own] = d]
      /\ UNCHANGED <<row, home, next, digest, expiring, idle, stale, removing, events, overlapped>>
  <2>1. Busy(p) /\ x \in Tx /\ x.stage = "settled" /\ TxForm(x) /\ x.own \in DOMAIN x.fix
    BY <1>1, Working DEF RebuildContext
  <2>2. p \in Asks
    BY <1>1, <2>1, Working, Numbers DEF SweepForm
  <2>3. AskForm(x) /\ LastTurnForm(x) /\ x.own \in Ids
    BY <1>1, <2>1, <2>2, Working
  <2>4. x.turn \in Turns /\ x.turn \in Nat
    BY <2>1, <2>3, Numbers, Counters DEF AskForm, SessionsInv
  <2> QED BY <1>1, <1>2, <1>3, <1>4, <1>5, <2>1, <2>2, <2>3, <2>4 DEF TxForm, RebuildContext
<1>7. S \in SUBSET (1..LastTurn) /\ S = (Messages(x.own) \ x.del) \cup {x.turn} /\ S \subseteq Nat
      /\ \A t \in Messages(x.own) : t < x.turn
  <2>1. S = (Messages(x.own) \ x.del) \cup {x.turn}
    BY <1>2, <1>6, Numbers DEF Seen
  <2> QED BY <1>6, <2>1, Numbers DEF Messages, LastTurnForm
<1>8. /\ N \subseteq S /\ (\A t \in N, u \in S : t < u => u \in N) /\ IsFiniteSet(N) /\ Cardinality(N) <= Window
  <2>1. LastTurn \in Nat /\ Window \in Nat \ {0}
    BY Numbers
  <2>2. S \in SUBSET (1..LastTurn)
    BY <1>7
  <2> QED BY <1>3, <2>1, <2>2, NewestOnes
<1>9. x.turn \in N
  <2>1. {u \in S : u > x.turn} = {}
    BY <1>6, <1>7
  <2>2. Cardinality({u \in S : u > x.turn}) = 0
    BY <2>1, FS_EmptySet
  <2>3. x.turn \in S /\ Cardinality({u \in S : u > x.turn}) < Window
    BY <1>7, <2>2, Numbers
  <2>4. N = {t \in S : Cardinality({u \in S : u > t}) < Window}
    BY <1>3 DEF Newest
  <2> QED BY <2>3, <2>4
<1>10. /\ d \in [1..Cardinality(N) -> N] /\ Cardinality(N) \in Nat /\ Increasing(d) /\ ToSet(d) = N
  BY <1>4, <1>7, <1>8, Ordered, Numbers
<1>11. d \in BoundedSeq(Turns, Window)
  <2>1. d \in Seq(N) /\ Len(d) = Cardinality(N) /\ N \subseteq Turns
    BY <1>7, <1>8, <1>10, Numbers
  <2>2. d \in Seq(Turns)
    BY <1>10, <2>1
  <2> QED BY <1>8, <2>1, <2>2, Bounded
<1>12. Covers(d, x.own)
  <2> SUFFICES ASSUME NEW t \in Messages(x.own), d # <<>>, t >= d[1] PROVE t \in ToSet(d)
    BY DEF Covers
  <2>1. d[1] \in N /\ d[1] \in S
    <3>1. Cardinality(N) # 0
      BY <1>8, <1>9, FS_EmptySet
    <3> QED BY <1>8, <1>10, <3>1
  <2>2. t \in Nat /\ d[1] \in Nat /\ d[1] # x.turn /\ d[1] \in Messages(x.own) \ x.del
    BY <1>7, <2>1, Numbers DEF Messages
  <2>3. t \notin x.del
    <3>1. t = d[1] \/ d[1] < t
      BY <2>2
    <3> QED BY <1>6, <2>2, <3>1 DEF LastTurnForm
  <2>4. t \in S /\ (t = d[1] \/ d[1] < t)
    BY <1>7, <2>2, <2>3
  <2> QED BY <1>8, <1>10, <2>1, <2>4
<1>13. \A t \in ToSet(d) : t <= x.turn
  <2>1. \A t \in S : t <= x.turn
    BY <1>6, <1>7
  <2> QED BY <1>8, <1>10, <2>1
<1>14. /\ y.stage = "written" /\ y.own = x.own /\ y.kept = x.kept /\ y.expired = x.expired
       /\ y.count = x.count /\ y.summary = x.summary /\ y.turn = x.turn /\ y.drop = x.drop /\ y.del = x.del
       /\ y.todo = x.todo /\ y.fix = x.fix /\ y.clear = x.clear /\ y.held = x.held /\ y.mem = x.mem
       /\ y.wrote = {}
  BY <1>5, <1>6 DEF Tx
<1>15. y \in Tx
  <2>1. "written" \in Stages
    BY DEF Stages
  <2> QED BY <1>5, <1>6, <2>1 DEF Tx
<1>16. digest' \in [Ids -> SUBSET Turns] /\ \A s \in Ids : digest'[s] = digest[s]
  BY <1>6 DEF SessionsInv, TypeOK
<1>17. x.own \notin overlapped => digest[x.own] \subseteq Messages(x.own)
  <2>1. row[x.own] # Gone
    BY <1>6 DEF AskForm, Exists, Unborn, Gone
  <2> QED BY <1>6, <2>1 DEF SessionsInv, RemembersKept, Remembers
<1>18. ToSet(d) \subseteq Messages(x.own) \cup {x.turn} /\ ToSet(d) \subseteq Seen(x, x.own)
  BY <1>2, <1>7, <1>8, <1>10
<1> QED BY <1>1, <1>6, <1>9, <1>10, <1>11, <1>12, <1>13, <1>14, <1>15, <1>16, <1>17, <1>18, WriteKeeps

LEMMA SelectAgedKeeps == ASSUME SessionsInv, NEW p \in Procs, SelectAged(p) PROVE SessionsInv'
<1>1. PICK x : x = tx[p]
  OBVIOUS
<1>2. PICK aged : aged = {s \in Ids : Exists(s) /\ row[s].last <= stale /\ s # x.own}
  OBVIOUS
<1>3. PICK y : y = [x EXCEPT !.stage = "aged", !.drop = aged]
  OBVIOUS
<1>4. /\ Busy(p) /\ x \in Tx /\ x.stage = "flushed" /\ TxForm(x) /\ TrimForm(x) /\ Forget(aged)
      /\ (p \in Asks => AskForm(x) /\ LastTurnForm(x)) /\ (p = Sweeper => SweepForm(x))
      /\ tx' = [tx EXCEPT ![p] = y]
      /\ overlapped' = overlapped \cup {s \in aged : \E q \in Asks : Own(q) = s}
      /\ UNCHANGED <<row, home, next, expiring, idle, stale, removing, events>>
  <2>1. Busy(p) /\ x \in Tx /\ x.stage = "flushed" /\ TxForm(x) /\ TrimForm(x)
        /\ (p \in Asks => AskForm(x) /\ LastTurnForm(x)) /\ (p = Sweeper => SweepForm(x))
    BY <1>1, Working DEF SelectAged
  <2> QED BY <1>1, <1>2, <1>3, <2>1 DEF SelectAged
<1>5. /\ y.stage = "aged" /\ y.own = x.own /\ y.kept = x.kept /\ y.expired = x.expired
      /\ y.count = x.count /\ y.summary = x.summary /\ y.turn = x.turn /\ y.drop = aged /\ y.del = x.del
      /\ y.todo = x.todo /\ y.fix = x.fix /\ y.clear = x.clear /\ y.wrote = x.wrote
      /\ y.held = x.held /\ y.mem = x.mem /\ aged \subseteq Ids
  BY <1>2, <1>3, <1>4 DEF Tx
<1>6. x.drop = {} /\ x.del = {} /\ x.todo = {} /\ DOMAIN x.fix = {} /\ x.wrote = {}
  BY <1>4 DEF TxForm
<1>7. y \in Tx
  <2>1. "aged" \in Stages
    BY DEF Stages
  <2> QED BY <1>3, <1>4, <1>5, <2>1 DEF Tx
<1>8. TypeOK'
  BY <1>4, <1>5, <1>7, Forgotten DEF SessionsInv, TypeOK
<1>9. Moves(p, y)
  BY <1>1, <1>4, Counters, Forgotten DEF Moves, SessionsInv
<1>10. (\A s : Messages(s)' = Messages(s) /\ Exists(s)' = Exists(s))
       /\ \A s \in Ids : ctx'[s] = ctx[s] \/ ctx'[s] = <<>>
  BY <1>4, Forgotten DEF Messages, Exists, Kept, Emptied, SessionsInv
<1>11. Form(p, y)'
  <2>1. TxForm(y)'
    <3>1. \A s \in aged : row[s] # Unborn /\ s # x.own
      BY <1>2 DEF Exists
    <3> QED BY <1>4, <1>5, <1>6, <3>1 DEF TxForm, Late, Affected
  <2>2. TrimForm(y)'
    <3>1. ASSUME NEW s \in aged, NEW t \in Messages(s) PROVE t <= stale
      <4>1. Exists(s) /\ row[s].last <= stale /\ row[s].last \in Nat /\ s \in Ids
        BY <1>2, Counters, Numbers DEF SessionsInv, SessionRow
      <4>2. t <= row[s].last /\ t \in Nat /\ stale \in Nat
        BY <3>1, <4>1, Numbers, Counters DEF SessionsInv, RowsSound, RowForm, Messages
      <4> QED BY <4>1, <4>2
    <3> QED BY <1>4, <1>5, <1>6, <1>10, <3>1 DEF TrimForm
  <2>3. p \in Asks => AskForm(y)'
    BY <1>4, <1>5, <1>10 DEF AskForm
  <2>4. p \in Asks => LastTurnForm(y)'
    <3>1. p \in Asks => x.own \in Ids
      BY <1>4 DEF AskForm
    <3> QED BY <1>4, <1>5, <1>6, <1>10, <3>1, NoContext DEF LastTurnForm
  <2>5. p = Sweeper => SweepForm(y)'
    BY <1>4, <1>5 DEF SweepForm
  <2> QED BY <2>1, <2>2, <2>3, <2>4, <2>5 DEF Form
<1>12. ASSUME NEW q \in Procs \ {p}, Busy(q) PROVE Pair(y, tx[q])'
  <2>1. tx[q] \in Tx /\ Pair(x, tx[q])
    BY <1>1, <1>4, <1>12, Working
  <2>2. tx'[q] = tx[q]
    BY <1>7, <1>9, <1>12, MovedTx DEF SessionsInv
  <2>3. tx[q].own \in aged => tx[q].own \in overlapped'
    <3>1. tx[q].own \in Ids => q \in Asks
      BY <1>12, Working
    <3> QED BY <1>4, <1>5, <1>12, <3>1 DEF Own
  <2> QED BY <1>4, <1>5, <1>6, <2>1, <2>2, <2>3 DEF Pair, Affected
<1>13. ASSUME NEW s \in Ids \ overlapped', row[s] # Gone
       PROVE  digest'[s] \subseteq Messages(s) /\ Knows(y, s)'
  <2>1. Knows(x, s) /\ digest[s] \subseteq Messages(s)
    BY <1>1, <1>4, <1>13 DEF SessionsInv, RemembersKept, Remembers
  <2>2. digest'[s] \subseteq Messages(s)
    BY <1>4, <2>1, Forgotten DEF Kept, Emptied, SessionsInv
  <2> QED BY <1>4, <1>5, <1>6, <1>10, <2>1, <2>2 DEF Knows
<1> QED BY <1>7, <1>8, <1>9, <1>10, <1>11, <1>12, <1>13, MoveKeeps

\* What the retention takes: old turns, and those that are followed by enough
\* others; of a session they are the first ones.
LEMMA OverdueOnes ==
    ASSUME SessionsInv, NEW p \in Procs, Busy(p), NEW x, x = tx[p], x.stage = "aged"
    PROVE  /\ \A t \in Overdue(p) \ {x.turn} : t \in Turns /\ home[t] \in Ids /\ home[t] \notin x.drop
           /\ \A t \in Overdue(p) : t <= stale \/ MaxTurns <= Cardinality(Newer(t, x))
           /\ x.own \in Ids =>
                \A t \in Overdue(p) \ {x.turn}, u \in Turns :
                    home[t] = x.own /\ home[u] = x.own /\ u < t => u \in Overdue(p)
<1> DEFINE there == {t \in Turns : home[t] # None /\ home[t] \notin x.drop}
           old == {t \in there : t <= stale}
           fresh == {t \in there \ old : row[home[t]].status # "deleted"}
           own == IF x.turn # 0 /\ (x.kept => row[x.own].status # "deleted") THEN {x.turn} ELSE {}
           counted == fresh \cup own
           newest == Newest(MaxTurns, counted)
<1>1. Overdue(p) = old \cup (counted \ newest)
  BY DEF Overdue
<1>2. x \in Tx /\ x.turn \in 0..LastTurn /\ x.own \notin x.drop /\ stale \in Nat /\ Turns \subseteq Nat /\ Turns = 1..LastTurn
      /\ LastTurn \in Nat /\ MaxTurns \in Nat \ {0} /\ (\A t \in Turns : home[t] \in Ids \cup {None})
  BY Working, TxTyped, Numbers, Counters DEF TxForm, SessionsInv, TypeOK
<1>3. own \subseteq {x.turn} /\ own \subseteq 1..LastTurn
  BY <1>2
<1>4. old \subseteq there /\ fresh \subseteq there /\ there \subseteq 1..LastTurn
  BY <1>2
<1>5. counted \in SUBSET (1..LastTurn)
  BY <1>3, <1>4
<1>6. /\ newest \subseteq counted /\ \A t \in newest, u \in counted : t < u => u \in newest
      /\ \A t \in counted \ newest : MaxTurns <= Cardinality({u \in counted : u > t})
  <2> HIDE DEF counted
  <2> QED BY <1>2, <1>5, NewestOnes
<1>7. \A t \in Overdue(p) \ {x.turn} : t \in there
  BY <1>1, <1>3, <1>4
<1>8. ASSUME NEW t \in counted \ newest PROVE MaxTurns <= Cardinality(Newer(t, x))
  <2>1. {u \in counted : u > t} \subseteq Newer(t, x)
    <3>1. \A u \in counted : u \in Turns /\ (home[u] # None \/ u = x.turn)
      BY <1>2, <1>3, <1>4
    <3> HIDE DEF counted
    <3> QED BY <3>1 DEF Newer
  <2>2. IsFiniteSet(Newer(t, x))
    <3>1. Newer(t, x) \in SUBSET (1..LastTurn)
      BY <1>2 DEF Newer
    <3> QED BY <1>2, <3>1, Ordered
  <2>3. Cardinality({u \in counted : u > t}) <= Cardinality(Newer(t, x))
    <3> HIDE DEF counted
    <3> QED BY <2>1, <2>2, FS_Subset
  <2>4. {u \in counted : u > t} \in SUBSET (1..LastTurn) /\ Newer(t, x) \in SUBSET (1..LastTurn)
    BY <1>2, <1>5, <2>1 DEF Newer
  <2>5. Cardinality({u \in counted : u > t}) \in Nat /\ Cardinality(Newer(t, x)) \in Nat
    <3> HIDE DEF counted
    <3> QED BY <1>2, <2>4, Ordered
  <2>6. MaxTurns <= Cardinality({u \in counted : u > t})
    BY <1>6
  <2> HIDE DEF counted
  <2> QED BY <1>2, <2>3, <2>5, <2>6
<1>9. \A t \in Overdue(p) : t <= stale \/ MaxTurns <= Cardinality(Newer(t, x))
  <2>1. \A t \in old : t <= stale
    OBVIOUS
  <2> QED BY <1>1, <1>8, <2>1
<1>10. ASSUME x.own \in Ids, NEW t \in Overdue(p) \ {x.turn}, NEW u \in Turns,
              home[t] = x.own, home[u] = x.own, u < t
       PROVE  u \in Overdue(p)
  <2>1. t \in there /\ u \in there /\ t \in Nat /\ u \in Nat
    BY <1>2, <1>7, <1>10, Numbers
  <2>2. CASE t <= stale
    <3>1. u \in old
      BY <1>2, <1>10, <2>1, <2>2
    <3> QED BY <1>1, <3>1
  <2>3. CASE t \in counted \ newest /\ u \in counted
    <3>1. u \notin newest
      BY <1>6, <1>10, <2>3
    <3> QED BY <1>1, <2>3, <3>1
  <2>4. CASE t \in counted /\ u \notin counted /\ ~(t <= stale)
    <3>1. row[x.own].status # "deleted"
      BY <1>3, <1>10, <2>4
    <3>2. u \in old
      BY <1>10, <2>1, <2>4, <3>1
    <3> QED BY <1>1, <3>2
  <2>5. t \in old \/ t \in counted \ newest
    BY <1>1
  <2> QED BY <2>2, <2>3, <2>4, <2>5
<1> QED BY <1>2, <1>7, <1>9, <1>10

LEMMA SelectOverdueKeeps == ASSUME SessionsInv, NEW p \in Procs, SelectOverdue(p) PROVE SessionsInv'
<1>1. PICK x : x = tx[p]
  OBVIOUS
<1>2. PICK del : del = Overdue(p) \ {x.turn}
  OBVIOUS
<1>3. PICK affected : affected = {home[t] : t \in del}
  OBVIOUS
<1>4. PICK clear : clear = {s \in affected : IF s = x.own THEN x.summary # {} ELSE row[s].summary # {}}
  OBVIOUS
<1>5. PICK y : y = [x EXCEPT !.stage = "deleted", !.del = del, !.todo = affected,
                             !.held = @ \cup x.drop, !.clear = clear]
  OBVIOUS
<1>6. /\ Busy(p) /\ x \in Tx /\ x.stage = "aged" /\ TxForm(x) /\ TrimForm(x) /\ Lockable(p, x.drop)
      /\ (p \in Asks => AskForm(x) /\ LastTurnForm(x)) /\ (p = Sweeper => SweepForm(x))
      /\ tx' = [tx EXCEPT ![p] = y]
      /\ overlapped' = overlapped \cup
            {s \in affected : \/ \E q \in Asks \ {p} : Own(q) = s
                              \/ s = x.own /\ row[s].summary # x.summary}
      /\ UNCHANGED <<row, home, next, ctx, digest, expiring, idle, stale, removing, events>>
  <2>1. Busy(p) /\ x \in Tx /\ x.stage = "aged" /\ TxForm(x) /\ TrimForm(x)
        /\ (p \in Asks => AskForm(x) /\ LastTurnForm(x)) /\ (p = Sweeper => SweepForm(x))
    BY <1>1, Working DEF SelectOverdue
  <2> QED BY <1>1, <1>2, <1>3, <1>4, <1>5, <2>1 DEF SelectOverdue
<1>7. /\ \A t \in del : t \in Turns /\ home[t] \in Ids /\ home[t] \notin x.drop
      /\ \A t \in del : t <= stale \/ MaxTurns <= Cardinality(Newer(t, x))
      /\ x.own \in Ids => \A t \in del, u \in Turns : home[t] = x.own /\ home[u] = x.own /\ u < t => u \in Overdue(p)
  BY <1>1, <1>2, <1>6, OverdueOnes
<1>8. /\ affected \subseteq Ids /\ clear \subseteq affected /\ x.turn \notin del /\ affected \cap x.drop = {}
      /\ \A t \in del : home[t] \in affected
  BY <1>2, <1>3, <1>4, <1>7
<1>9. /\ y.stage = "deleted" /\ y.own = x.own /\ y.kept = x.kept /\ y.expired = x.expired
      /\ y.count = x.count /\ y.summary = x.summary /\ y.turn = x.turn /\ y.drop = x.drop /\ y.del = del
      /\ y.todo = affected /\ y.fix = x.fix /\ y.clear = clear /\ y.wrote = x.wrote
      /\ y.held = x.held \cup x.drop /\ y.mem = x.mem
  BY <1>5, <1>6 DEF Tx
<1>10. x.del = {} /\ x.todo = {} /\ DOMAIN x.fix = {} /\ x.wrote = {} /\ x.own \notin x.drop
       /\ (\A s \in x.drop : row[s] # Unborn) /\ x.count < next
  BY <1>6 DEF TxForm, Affected
<1>11. y \in Tx
  <2>1. "deleted" \in Stages /\ x.held \cup x.drop \in SUBSET Ids /\ del \in SUBSET Turns
        /\ affected \in SUBSET Ids /\ clear \in SUBSET Ids
    BY <1>6, <1>7, <1>8, TxTyped DEF Stages
  <2> QED BY <1>5, <1>6, <2>1 DEF Tx
<1>12. TypeOK'
  BY <1>6, <1>8, <1>11 DEF SessionsInv, TypeOK
<1>13. Moves(p, y)
  BY <1>1, <1>6, Counters DEF Moves, Kept, SessionsInv
<1>14. \A s : Messages(s)' = Messages(s) /\ Exists(s)' = Exists(s)
  BY <1>6 DEF Messages, Exists
<1>15. \A s \in affected : row[s] # Unborn
  <2> SUFFICES ASSUME NEW t \in del PROVE row[home[t]] # Unborn
    BY <1>3
  <2>1. t \in Messages(home[t]) /\ home[t] \in Ids
    BY <1>7 DEF Messages
  <2> QED BY <2>1 DEF SessionsInv, RowsSound, RowForm, Exists
<1>16. Form(p, y)'
  <2>1. TxForm(y)'
    <3>1. \A t \in del : t < next
      BY <1>7, Numbers DEF SessionsInv, RowsSound
    <3> QED BY <1>6, <1>8, <1>9, <1>10, <1>15, <3>1 DEF TxForm, Late, Affected
  <2>2. TrimForm(y)'
    <3>1. \A t : Newer(t, y)' = Newer(t, x)
      BY <1>6, <1>9 DEF Newer
    <3>2. \A s \in x.drop \ overlapped : \A t \in Messages(s) : t <= stale
      BY <1>6, <1>10 DEF TrimForm
    <3>3. \A t \in del : t <= stale \/ MaxTurns <= Cardinality(Newer(t, x))
      BY <1>7
    <3> QED BY <1>6, <1>9, <1>10, <1>14, <3>1, <3>2, <3>3 DEF TrimForm
  <2>3. p \in Asks => AskForm(y)'
    BY <1>6, <1>9, <1>14 DEF AskForm
  <2>4. p \in Asks => LastTurnForm(y)'
    <3>1. \A t, u \in Messages(x.own) : p \in Asks /\ t \in del /\ u < t => u \in del
      BY <1>2, <1>6, <1>7, Numbers DEF AskForm, LastTurnForm, Messages
    <3> QED BY <1>6, <1>9, <1>14, <3>1 DEF LastTurnForm
  <2>5. p = Sweeper => SweepForm(y)'
    BY <1>6, <1>9 DEF SweepForm
  <2> QED BY <2>1, <2>2, <2>3, <2>4, <2>5 DEF Form
<1>17. ASSUME NEW q \in Procs \ {p}, Busy(q) PROVE Pair(y, tx[q])'
  <2>1. tx[q] \in Tx /\ Pair(x, tx[q]) /\ Held(q) = tx[q].held /\ Held(q) \cap x.drop = {}
    <3>1. tx[q] \in Tx /\ Pair(x, tx[q]) /\ Held(q) = tx[q].held
      BY <1>1, <1>6, <1>17, Working
    <3>2. Held(q) \cap x.drop = {}
      BY <1>6, <1>17 DEF Lockable
    <3> QED BY <3>1, <3>2
  <2>2. tx'[q] = tx[q]
    BY <1>11, <1>13, <1>17, MovedTx DEF SessionsInv
  <2>3. tx[q].own \in affected => tx[q].own \in overlapped'
    <3>1. tx[q].own \in Ids => q \in Asks
      BY <1>17, Working
    <3> QED BY <1>6, <1>8, <1>17, <3>1 DEF Own
  <2>4. tx[q].turn \notin del
    <3>1. q \in Asks /\ tx[q].turn # 0 => home[tx[q].turn] = None
      BY <1>17, Working DEF AskForm
    <3>2. tx[q].turn # 0 => home[tx[q].turn] = None
      BY <1>17, <3>1, Working, Numbers DEF SweepForm
    <3> QED BY <1>7, <3>2, Numbers
  <2> QED BY <1>6, <1>9, <1>10, <2>1, <2>2, <2>3, <2>4 DEF Pair, Affected
<1>18. ASSUME NEW s \in Ids \ overlapped', row[s] # Gone
       PROVE  digest'[s] \subseteq Messages(s) /\ Knows(y, s)'
  <2>1. Knows(x, s) /\ digest[s] \subseteq Messages(s)
    BY <1>1, <1>6, <1>18 DEF SessionsInv, RemembersKept, Remembers
  <2>2. s \in affected /\ s \notin clear => row[s].summary = {}
    BY <1>4, <1>6, <1>18
  <2> QED BY <1>6, <1>9, <1>10, <1>14, <2>1, <2>2 DEF Knows
<1> QED BY <1>6, <1>11, <1>12, <1>13, <1>16, <1>17, <1>18, MoveKeeps

LEMMA SeenCount ==
    ASSUME SessionsInv, NEW p \in Procs, Busy(p), tx[p].stage # "loaded", NEW s \in Ids
    PROVE  /\ Cardinality(Seen(tx[p], s)) \in Nat /\ Cardinality(Seen(tx[p], s)) < next
           /\ Cardinality(Seen(tx[p], s)) \in 0..LastTurn
           /\ tx[p].own = s => Cardinality(Seen(tx[p], s)) > 0
           /\ Cardinality(Seen(tx[p], s)) = 0 => Messages(s) \subseteq tx[p].del
<1>1. PICK x : x = tx[p]
  OBVIOUS
<1>2. PICK S : S = Seen(x, s)
  OBVIOUS
<1>3. next \in Nat \ {0} /\ next - 1 \in Nat /\ next - 1 <= LastTurn /\ LastTurn \in Nat
  BY Counters, Numbers DEF SessionsInv
<1>4. x.own = s => x.turn \in 1..(next - 1)
  BY <1>1, Working DEF AskForm
<1>5. S \in SUBSET (1..(next - 1))
  <2>1. \A t \in Messages(s) : t \in 1..(next - 1)
    BY <1>3, Numbers DEF SessionsInv, RowsSound, Messages
  <2> QED BY <1>2, <1>4, <2>1 DEF Seen
<1>6. IsFiniteSet(1..(next - 1)) /\ Cardinality(1..(next - 1)) = next - 1
  BY <1>3, FS_Interval
<1>7. Cardinality(S) <= Cardinality(1..(next - 1)) /\ IsFiniteSet(S)
  BY <1>5, <1>6, FS_Subset
<1>8. Cardinality(S) \in Nat
  BY <1>7, FS_CardinalityType
<1>9. Cardinality(S) < next /\ Cardinality(S) \in 0..LastTurn
  BY <1>3, <1>6, <1>7, <1>8
<1>10. Cardinality(S) = 0 <=> S = {}
  BY <1>7, FS_EmptySet
<1>11. x.own = s => Cardinality(S) > 0
  <2>1. x.own = s => x.turn \in S
    BY <1>2, <1>4, <1>3 DEF Seen
  <2> QED BY <1>8, <1>10, <2>1
<1>12. Cardinality(S) = 0 => Messages(s) \subseteq x.del
  BY <1>2, <1>10 DEF Seen
<1> QED BY <1>1, <1>2, <1>8, <1>9, <1>11, <1>12

LEMMA RecountKeeps == ASSUME SessionsInv, NEW p \in Procs, NEW s \in Ids, Recount(p, s) PROVE SessionsInv'
<1>1. PICK x : x = tx[p]
  OBVIOUS
<1>2. PICK n : n = Cardinality(Seen(x, s))
  OBVIOUS
<1>3. PICK f : f = [u \in DOMAIN x.fix \cup {s} |-> IF u = s THEN n ELSE x.fix[u]]
  OBVIOUS
<1>4. PICK y : y = [x EXCEPT !.todo = @ \ {s}, !.fix = f, !.held = @ \cup ({s} \cap x.clear)]
  OBVIOUS
<1>5. /\ Busy(p) /\ x \in Tx /\ x.stage = "deleted" /\ TxForm(x) /\ TrimForm(x) /\ Forget({s}) /\ s \in x.todo
      /\ (s \in x.clear => Lockable(p, {s}))
      /\ (p \in Asks => AskForm(x) /\ LastTurnForm(x)) /\ (p = Sweeper => SweepForm(x))
      /\ tx' = [tx EXCEPT ![p] = y]
      /\ UNCHANGED <<row, home, next, expiring, idle, stale, removing, events, overlapped>>
  <2>1. Busy(p) /\ x \in Tx /\ x.stage = "deleted" /\ TxForm(x) /\ TrimForm(x)
        /\ (p \in Asks => AskForm(x) /\ LastTurnForm(x)) /\ (p = Sweeper => SweepForm(x))
    BY <1>1, Working DEF Recount
  <2> QED BY <1>1, <1>2, <1>3, <1>4, <2>1 DEF Recount
<1>6. /\ y.stage = x.stage /\ y.own = x.own /\ y.kept = x.kept /\ y.expired = x.expired
      /\ y.count = x.count /\ y.summary = x.summary /\ y.turn = x.turn /\ y.drop = x.drop /\ y.del = x.del
      /\ y.todo = x.todo \ {s} /\ y.fix = f /\ y.clear = x.clear /\ y.wrote = x.wrote
      /\ y.held = x.held \cup ({s} \cap x.clear) /\ y.mem = x.mem
  BY <1>4, <1>5 DEF Tx
<1>7. /\ n \in Nat /\ n < next /\ n \in 0..LastTurn /\ (x.own = s => n > 0) /\ (n = 0 => Messages(s) \subseteq x.del)
  BY <1>1, <1>2, <1>5, SeenCount
<1>8. DOMAIN f = DOMAIN x.fix \cup {s} /\ f[s] = n /\ \A u \in DOMAIN x.fix : u # s => f[u] = x.fix[u]
  BY <1>3
<1>9. Affected(y) = Affected(x) /\ y.todo \cup DOMAIN y.fix = x.todo \cup DOMAIN x.fix
  BY <1>5, <1>6, <1>8 DEF Affected
<1>10. y \in Tx
  <2>1. f \in [DOMAIN x.fix \cup {s} -> 0..LastTurn] /\ DOMAIN x.fix \cup {s} \in SUBSET Ids
    BY <1>3, <1>5, <1>7, TxTyped
  <2>2. f \in UNION {[R -> 0..LastTurn] : R \in SUBSET Ids}
    BY <2>1, Fixes
  <2>3. x.todo \ {s} \in SUBSET Ids /\ x.held \cup ({s} \cap x.clear) \in SUBSET Ids
    BY <1>5, TxTyped
  <2> QED BY <1>4, <1>5, <2>2, <2>3 DEF Tx
<1>11. TypeOK'
  BY <1>5, <1>10, Forgotten DEF SessionsInv, TypeOK
<1>12. Moves(p, y)
  BY <1>1, <1>5, Counters, Forgotten DEF Moves, SessionsInv
<1>13. (\A u : Messages(u)' = Messages(u) /\ Exists(u)' = Exists(u))
       /\ (\A u \in Ids : ctx'[u] = ctx[u] \/ ctx'[u] = <<>>)
       /\ ctx'[s] = <<>> /\ digest'[s] = {}
       /\ \A u \in Ids \ {s} : ctx'[u] = ctx[u] /\ digest'[u] = digest[u]
  BY <1>5, Forgotten DEF Messages, Exists, Kept, Emptied, SessionsInv
<1>14. Form(p, y)'
  <2>1. TxForm(y)'
    <3>1. x.own \in DOMAIN f => x.wrote = {} /\ f[x.own] > 0
      BY <1>5, <1>7, <1>8 DEF TxForm
    <3>2. \A u \in DOMAIN f : f[u] < next
      BY <1>5, <1>7, <1>8 DEF TxForm
    <3>3. /\ x.count < next /\ x.own \notin x.drop /\ x.turn \notin x.del
          /\ x.clear \subseteq y.todo \cup DOMAIN y.fix /\ x.drop \subseteq y.held /\ x.wrote = {}
          /\ \A t \in x.del : t < next /\ (home[t] = None \/ home[t] \in y.todo \cup DOMAIN y.fix)
          /\ \A u \in Affected(y) : row[u] # Unborn
      BY <1>5, <1>6, <1>9 DEF TxForm, Late
    <3> QED BY <1>5, <1>6, <3>1, <3>2, <3>3 DEF TxForm, Late, Affected
  <2>2. TrimForm(y)'
    <3>1. \A t : Newer(t, y)' = Newer(t, x)
      BY <1>5, <1>6 DEF Newer
    <3>2. \A u \in DOMAIN f \ overlapped : f[u] = 0 => Messages(u) \subseteq x.del
      BY <1>5, <1>7, <1>8 DEF TrimForm
    <3> QED BY <1>5, <1>6, <1>13, <3>1, <3>2 DEF TrimForm
  <2>3. p \in Asks => AskForm(y)'
    BY <1>5, <1>6, <1>13 DEF AskForm
  <2>4. p \in Asks => LastTurnForm(y)'
    <3>1. p \in Asks => x.own \in Ids
      BY <1>5 DEF AskForm
    <3> QED BY <1>5, <1>6, <1>13, <3>1, NoContext DEF LastTurnForm
  <2>5. p = Sweeper => SweepForm(y)'
    BY <1>5, <1>6 DEF SweepForm
  <2> QED BY <2>1, <2>2, <2>3, <2>4, <2>5 DEF Form
<1>15. ASSUME NEW q \in Procs \ {p}, Busy(q) PROVE Pair(y, tx[q])'
  <2>1. tx[q] \in Tx /\ Pair(x, tx[q]) /\ Held(q) = tx[q].held
    BY <1>1, <1>5, <1>15, Working
  <2>2. tx'[q] = tx[q]
    BY <1>10, <1>12, <1>15, MovedTx DEF SessionsInv
  <2>3. ({s} \cap x.clear) \cap tx[q].held = {}
    BY <1>5, <1>15, <2>1 DEF Lockable
  <2>4. (y.held \ x.held) \cap tx[q].held = {} /\ tx[q].turn \notin y.del
    BY <1>6, <2>1, <2>3 DEF Pair
  <2>5. Pair(x, tx[q]) => (x.held \cap tx[q].held = {} /\ y.held \cap tx[q].held = {})
    BY <2>4 DEF Pair
  <2> QED BY <1>5, <1>6, <1>9, <2>1, <2>2, <2>4, <2>5 DEF Pair, Affected
<1>16. ASSUME NEW u \in Ids \ overlapped', row[u] # Gone
       PROVE  digest'[u] \subseteq Messages(u) /\ Knows(y, u)'
  <2>1. Knows(x, u) /\ digest[u] \subseteq Messages(u)
    BY <1>1, <1>5, <1>16 DEF SessionsInv, RemembersKept, Remembers
  <2>2. digest'[u] \subseteq Messages(u)
    BY <1>13, <2>1
  <2>3. Seen(y, u)' = Seen(x, u)
    BY <1>5, <1>6, <1>13 DEF Seen
  <2> QED BY <1>5, <1>6, <1>8, <1>9, <1>13, <2>1, <2>2, <2>3, NoContext DEF Knows
<1> QED BY <1>5, <1>10, <1>11, <1>12, <1>13, <1>14, <1>15, <1>16, MoveKeeps

LEMMA SettleKeeps == ASSUME SessionsInv, NEW p \in Procs, Settle(p) PROVE SessionsInv'
<1>1. PICK x : x = tx[p]
  OBVIOUS
<1>2. PICK empty : empty = {s \in DOMAIN x.fix : x.fix[s] = 0}
  OBVIOUS
<1>3. PICK stage : stage = IF x.own = None THEN "written" ELSE "settled"
  OBVIOUS
<1>4. PICK y : y = [x EXCEPT !.stage = stage, !.drop = @ \cup empty, !.held = @ \cup DOMAIN x.fix]
  OBVIOUS
<1>5. /\ Busy(p) /\ x \in Tx /\ x.stage = "deleted" /\ TxForm(x) /\ TrimForm(x) /\ x.todo = {}
      /\ Lockable(p, DOMAIN x.fix) /\ (\A s \in DOMAIN x.fix \ (empty \cup {x.own}) : Exists(s))
      /\ (p \in Asks => AskForm(x) /\ LastTurnForm(x) /\ stage = "settled")
      /\ (p = Sweeper => SweepForm(x) /\ stage = "written")
      /\ tx' = [tx EXCEPT ![p] = y]
      /\ UNCHANGED <<row, home, next, ctx, digest, expiring, idle, stale, removing, events, overlapped>>
  <2>1. Busy(p) /\ x \in Tx /\ x.stage = "deleted" /\ TxForm(x) /\ TrimForm(x)
        /\ (p \in Asks => AskForm(x) /\ LastTurnForm(x) /\ stage = "settled")
        /\ (p = Sweeper => SweepForm(x) /\ stage = "written")
    BY <1>1, <1>3, Working, Numbers DEF Settle
  <2> QED BY <1>1, <1>2, <1>3, <1>4, <2>1 DEF Settle
<1>6. /\ y.stage = stage /\ y.own = x.own /\ y.kept = x.kept /\ y.expired = x.expired
      /\ y.count = x.count /\ y.summary = x.summary /\ y.turn = x.turn /\ y.drop = x.drop \cup empty
      /\ y.del = x.del /\ y.todo = {} /\ y.fix = x.fix /\ y.clear = x.clear /\ y.wrote = {}
      /\ y.held = x.held \cup DOMAIN x.fix /\ y.mem = x.mem /\ empty \subseteq DOMAIN x.fix /\ x.wrote = {}
  <2>1. x.wrote = {}
    BY <1>5 DEF TxForm
  <2> QED BY <1>2, <1>4, <1>5, <2>1 DEF Tx
<1>7. stage \in {"settled", "written"} /\ Affected(y) = Affected(x)
  BY <1>3, <1>5, <1>6 DEF Affected
<1>8. y \in Tx
  <2>1. x.drop \cup empty \in SUBSET Ids /\ x.held \cup DOMAIN x.fix \in SUBSET Ids /\ stage \in Stages
    BY <1>5, <1>6, <1>7, TxTyped DEF Stages
  <2> QED BY <1>4, <1>5, <2>1 DEF Tx
<1>9. TypeOK'
  BY <1>5, <1>8 DEF SessionsInv, TypeOK
<1>10. Moves(p, y)
  BY <1>1, <1>5, Counters DEF Moves, Kept, SessionsInv
<1>11. \A s : Messages(s)' = Messages(s) /\ Exists(s)' = Exists(s)
  BY <1>5 DEF Messages, Exists
<1>12. Form(p, y)'
  <2>1. TxForm(y)'
    <3>1. x.own \in DOMAIN x.fix => x.fix[x.own] > 0 /\ x.own \notin empty
      <4>1. x.own \in DOMAIN x.fix => x.fix[x.own] > 0
        BY <1>5 DEF TxForm
      <4> QED BY <1>2, <4>1
    <3>2. \A s \in DOMAIN x.fix : x.fix[s] = 0 => s \in y.drop
      BY <1>2, <1>6
    <3>3. \A s \in DOMAIN x.fix : s \in y.drop \/ s = x.own \/ Exists(s)
      BY <1>5, <1>6
    <3>4. /\ x.count < next /\ x.own \notin y.drop /\ x.turn \notin x.del /\ x.clear \subseteq DOMAIN x.fix
          /\ y.drop \subseteq y.held
          /\ (\A t \in x.del : t < next /\ (home[t] = None \/ home[t] \in DOMAIN x.fix))
          /\ (\A s \in DOMAIN x.fix : x.fix[s] < next)
          /\ \A s \in Affected(y) : row[s] # Unborn
      BY <1>5, <1>6, <1>7, <3>1 DEF TxForm, Late
    <3> QED BY <1>5, <1>6, <1>7, <1>11, <3>1, <3>2, <3>3, <3>4 DEF TxForm, Late, Affected
  <2>2. TrimForm(y)'
    <3>1. \A t : Newer(t, y)' = Newer(t, x)
      BY <1>5, <1>6 DEF Newer
    <3>2. \A s \in empty \ overlapped : Messages(s) \subseteq x.del
      BY <1>2, <1>5 DEF TrimForm
    <3> QED BY <1>5, <1>6, <1>11, <3>1, <3>2 DEF TrimForm
  <2>3. p \in Asks => AskForm(y)'
    BY <1>5, <1>6, <1>11 DEF AskForm
  <2>4. p \in Asks => LastTurnForm(y)'
    BY <1>5, <1>6, <1>11 DEF LastTurnForm
  <2>5. p = Sweeper => SweepForm(y)'
    BY <1>5, <1>6 DEF SweepForm
  <2> QED BY <2>1, <2>2, <2>3, <2>4, <2>5 DEF Form
<1>13. ASSUME NEW q \in Procs \ {p}, Busy(q) PROVE Pair(y, tx[q])'
  <2>1. tx[q] \in Tx /\ Pair(x, tx[q]) /\ Held(q) = tx[q].held
    BY <1>1, <1>5, <1>13, Working
  <2>2. tx'[q] = tx[q]
    BY <1>8, <1>10, <1>13, MovedTx DEF SessionsInv
  <2>3. DOMAIN x.fix \cap tx[q].held = {}
    BY <1>5, <1>13, <2>1 DEF Lockable
  <2>4. y.held \cap tx[q].held = {}
    BY <1>6, <2>1, <2>3 DEF Pair
  <2> QED BY <1>5, <1>6, <1>7, <2>1, <2>2, <2>4 DEF Pair, Affected
<1>14. ASSUME NEW s \in Ids \ overlapped', row[s] # Gone
       PROVE  digest'[s] \subseteq Messages(s) /\ Knows(y, s)'
  <2>1. Knows(x, s) /\ digest[s] \subseteq Messages(s)
    BY <1>1, <1>5, <1>14 DEF SessionsInv, RemembersKept, Remembers
  <2>2. Seen(y, s)' = Seen(x, s)
    BY <1>6, <1>11 DEF Seen
  <2> QED BY <1>5, <1>6, <1>11, <2>1, <2>2 DEF Knows
<1> QED BY <1>5, <1>8, <1>9, <1>10, <1>12, <1>13, <1>14, MoveKeeps

-----------------------------------------------------------------------------
(* A transaction commits *)

\* What is there after the commit of x: its turn is the only message that
\* comes; the others, the rows of the dropped sessions and its own apart, stay.
LEMMA CommitFacts ==
    ASSUME SessionsInv, NEW p \in Procs, Commit(p), NEW x, x = tx[p]
    PROVE  /\ Busy(p) /\ x \in Tx /\ x.stage = "written" /\ x.todo = {} /\ TxForm(x) /\ TrimForm(x)
           /\ tx' = [tx EXCEPT ![p] = NoTx] /\ tx'[p] = NoTx
           /\ \A q \in Procs \ {p} : tx'[q] = tx[q] /\ Busy(q)' = Busy(q)
           /\ UNCHANGED <<next, ctx, digest, expiring, idle, stale, removing, events, overlapped>>
           /\ \A s \in x.drop : Messages(s)' = {} /\ row'[s] = Gone /\ row[s] # Unborn
           /\ \A s \in Ids \ x.drop : Messages(s)' = Seen(x, s)
           /\ \A s \in Ids : s \notin DOMAIN x.fix /\ s # x.own => Messages(s) \cap x.del = {}
           /\ \A s \in Ids \ (x.drop \cup DOMAIN x.fix \cup {x.own}) : row'[s] = row[s] /\ Messages(s)' = Messages(s)
           /\ \A t \in Turns : home'[t] = None \/ home'[t] = home[t] \/ (t = x.turn /\ home'[t] = x.own /\ x.own \in Ids)
           /\ x.turn # 0 => x.own \in Ids /\ home[x.turn] = None /\ home'[x.turn] = x.own
           /\ \A t \in Turns : home[t] # None /\ home'[t] # home[t] => t \in x.del \/ home[t] \in x.drop
<1>1. /\ Busy(p) /\ x \in Tx /\ x.stage = "written" /\ TxForm(x) /\ TrimForm(x)
      /\ (p \in Asks => AskForm(x)) /\ (p = Sweeper => SweepForm(x))
      /\ tx' = [tx EXCEPT ![p] = NoTx]
      /\ UNCHANGED <<next, ctx, digest, expiring, idle, stale, removing, events, overlapped>>
  BY Working DEF Commit
<1>2. home' = [t \in Turns |-> IF t \in x.del \/ home[t] \in x.drop THEN None
                               ELSE IF t = x.turn THEN x.own ELSE home[t]]
  BY DEF Commit
<1>3. row' = [s \in Ids |-> IF s \in x.drop THEN Gone
                            ELSE IF s = x.own THEN Persisted(p)
                            ELSE IF s \in DOMAIN x.fix THEN Recounted(p, s) ELSE row[s]]
  BY DEF Commit
<1>4. x.todo = {} /\ x.own \notin x.drop /\ x.turn \notin x.del /\ x.drop \subseteq Ids /\ x.del \subseteq Turns
      /\ (\A s \in x.drop : row[s] # Unborn) /\ None \notin x.drop
  <2>1. x.drop \subseteq Ids /\ x.del \subseteq Turns
    BY <1>1, TxTyped
  <2> QED BY <1>1, <2>1, Numbers DEF TxForm, Late, Affected
<1>5. tx'[p] = NoTx /\ \A q \in Procs \ {p} : tx'[q] = tx[q] /\ Busy(q)' = Busy(q)
  BY <1>1 DEF SessionsInv, TypeOK, Busy
<1>6. x.turn # 0 => x.own \in Ids /\ home[x.turn] = None /\ x.turn \in Turns
  <2>1. p \in Asks => x.turn \in Turns
    BY <1>1, Counters, Numbers DEF AskForm, SessionsInv
  <2> QED BY <1>1, <2>1, Numbers DEF AskForm, SweepForm
<1>7. x.turn # 0 => home'[x.turn] = x.own
  BY <1>2, <1>4, <1>6
<1>8. x.own \in Ids => x.turn # 0
  BY <1>1, Working, Counters DEF AskForm, SessionsInv
<1>9. \A t \in Turns : \/ home'[t] = None \/ home'[t] = home[t]
                       \/ (t = x.turn /\ home'[t] = x.own /\ x.own \in Ids)
  <2> SUFFICES ASSUME NEW t \in Turns PROVE \/ home'[t] = None \/ home'[t] = home[t]
                                            \/ (t = x.turn /\ home'[t] = x.own /\ x.own \in Ids)
    OBVIOUS
  <2>1. t = x.turn => x.turn # 0
    BY Numbers
  <2> QED BY <1>2, <1>6, <2>1
<1>10. \A t \in Turns : home[t] # None /\ home'[t] # home[t] => t \in x.del \/ home[t] \in x.drop
  <2> SUFFICES ASSUME NEW t \in Turns, home[t] # None, home'[t] # home[t]
               PROVE  t \in x.del \/ home[t] \in x.drop
    OBVIOUS
  <2>1. t # x.turn
    BY <1>6, Numbers
  <2> QED BY <1>2, <2>1
<1>11. \A s \in x.drop : Messages(s)' = {} /\ row'[s] = Gone
  <2> SUFFICES ASSUME NEW s \in x.drop PROVE Messages(s)' = {} /\ row'[s] = Gone
    OBVIOUS
  <2>1. ASSUME NEW t \in Turns PROVE home'[t] # s
    BY <1>2, <1>4
  <2> QED BY <1>3, <1>4, <2>1 DEF Messages
<1>12. \A s \in Ids \ x.drop : Messages(s)' = Seen(x, s)
  <2> SUFFICES ASSUME NEW s \in Ids \ x.drop PROVE Messages(s)' = Seen(x, s)
    OBVIOUS
  <2>1. ASSUME NEW t \in Turns PROVE home'[t] = s <=> t \in Seen(x, s)
    <3>1. t # 0 /\ s # None
      BY Numbers
    <3>2. CASE t = x.turn
      BY <1>2, <1>4, <1>6, <3>1, <3>2 DEF Seen, Messages
    <3>3. CASE t # x.turn
      BY <1>2, <1>4, <3>1, <3>3 DEF Seen, Messages
    <3> QED BY <3>2, <3>3
  <2>2. Seen(x, s) \subseteq Turns
    BY <1>6 DEF Seen, Messages
  <2> QED BY <2>1, <2>2 DEF Messages
<1>13. \A s \in Ids : s \notin DOMAIN x.fix => Messages(s) \cap x.del = {}
  BY <1>1, <1>4, Numbers DEF TxForm, Messages
<1>14. \A s \in Ids \ (x.drop \cup DOMAIN x.fix \cup {x.own}) : row'[s] = row[s] /\ Messages(s)' = Messages(s)
  <2> SUFFICES ASSUME NEW s \in Ids \ (x.drop \cup DOMAIN x.fix \cup {x.own})
               PROVE  row'[s] = row[s] /\ Messages(s)' = Messages(s)
    OBVIOUS
  <2>1. Messages(s)' = Seen(x, s) /\ Messages(s) \cap x.del = {}
    BY <1>12, <1>13
  <2>2. Seen(x, s) = Messages(s)
    BY <2>1 DEF Seen
  <2> QED BY <1>3, <2>1, <2>2
<1> QED BY <1>1, <1>4, <1>5, <1>6, <1>7, <1>9, <1>10, <1>11, <1>12, <1>13, <1>14

\* The rows it writes.
LEMMA CommitRows ==
    ASSUME SessionsInv, NEW p \in Procs, Commit(p), NEW x, x = tx[p]
    PROVE  /\ TypeOK'
           /\ \A s \in Ids : s = x.own \/ (s \in DOMAIN x.fix /\ s \notin x.drop) =>
                /\ Exists(s)' /\ row[s] # Gone
                /\ row'[s].count \in Nat /\ row'[s].count < next /\ row'[s].count > 0
                /\ row'[s].summary = {} \/ (s \notin x.clear /\ (\/ s = x.own /\ row'[s].summary = x.wrote
                                                                 \/ Exists(s) /\ row'[s].summary = row[s].summary /\ x.wrote = {}
                                                                 \/ Exists(s) /\ row'[s].summary = row[s].summary /\ s # x.own))
           /\ x.own \in Ids => row'[x.own].last = x.turn
           /\ \A s \in DOMAIN x.fix : s # x.own /\ s \notin x.drop => Exists(s) /\ row'[s].last = row[s].last
<1>1. /\ Busy(p) /\ x \in Tx /\ x.stage = "written" /\ TxForm(x) /\ x.todo = {}
      /\ tx' = [tx EXCEPT ![p] = NoTx] /\ x.own \notin x.drop
      /\ UNCHANGED <<next, ctx, digest, expiring, idle, stale, removing, events, overlapped>>
      /\ (x.own \in Ids => AskForm(x)) /\ DOMAIN x.fix \subseteq Ids
      /\ next \in Nat /\ next <= LastTurn + 1 /\ LastTurn \in Nat
  <2>1. TxForm(x) => x.own \notin x.drop
    BY DEF TxForm
  <2> QED BY <2>1, CommitFacts, Working, TxTyped, Counters, Numbers DEF SessionsInv
<1>2. row' = [s \in Ids |-> IF s \in x.drop THEN Gone
                            ELSE IF s = x.own THEN Persisted(p)
                            ELSE IF s \in DOMAIN x.fix THEN Recounted(p, s) ELSE row[s]]
  BY DEF Commit
<1>3. \A s \in DOMAIN x.fix : x.fix[s] \in 0..LastTurn /\ x.fix[s] \in Nat /\ x.fix[s] < next
                              /\ (s \notin x.drop => x.fix[s] > 0)
  <2>1. \A s \in DOMAIN x.fix : x.fix[s] \in 0..LastTurn /\ x.fix[s] \in Nat
    BY <1>1, TxTyped, Numbers
  <2>2. \A s \in DOMAIN x.fix : x.fix[s] < next /\ (x.fix[s] = 0 => s \in x.drop)
    BY <1>1 DEF TxForm, Late
  <2> QED BY <2>1, <2>2
<1>4. ASSUME NEW s \in DOMAIN x.fix, s # x.own, s \notin x.drop
      PROVE  /\ Exists(s) /\ row'[s] \in SessionRow /\ row'[s].count = x.fix[s] /\ row'[s].last = row[s].last
             /\ row'[s].summary = {} \/ (s \notin x.clear /\ row'[s].summary = row[s].summary)
  <2>1. Exists(s) /\ s \in Ids /\ row[s] \in SessionRow
    BY <1>1, <1>4, Counters DEF TxForm, Late, SessionsInv
  <2>2. row'[s] = [row[s] EXCEPT !.count = x.fix[s], !.summary = IF s \in x.clear THEN {} ELSE @]
    BY <1>2, <1>4, <2>1 DEF Recounted
  <2> QED BY <1>3, <2>1, <2>2 DEF SessionRow
<1>5. ASSUME x.own \in Ids
      PROVE  /\ row'[x.own] \in SessionRow /\ row'[x.own].last = x.turn /\ row[x.own] # Gone
             /\ row'[x.own].count \in Nat /\ row'[x.own].count < next /\ row'[x.own].count > 0
             /\ row'[x.own].summary = {} \/ (x.own \notin x.clear /\
                   (\/ row'[x.own].summary = x.wrote
                    \/ (Exists(x.own) /\ row'[x.own].summary = row[x.own].summary /\ x.wrote = {})))
  <2>1. PICK old : old = IF x.kept THEN row[x.own]
                         ELSE [status |-> "active", count |-> 0, summary |-> {}, last |-> 0]
    OBVIOUS
  <2>2. old.status \in {"active", "expired", "deleted"} /\ old.summary \subseteq Turns
        /\ (old.summary = {} \/ (Exists(x.own) /\ old.summary = row[x.own].summary)) /\ row[x.own] # Gone
    <3>1. CASE x.kept
      <4>1. Exists(x.own) /\ row[x.own] \in SessionRow
        BY <1>1, <1>5, <3>1, Counters DEF AskForm, SessionsInv
      <4> QED BY <2>1, <3>1, <4>1 DEF SessionRow, Exists
    <3>2. CASE ~x.kept
      BY <1>1, <1>5, <2>1, <3>2 DEF AskForm, Unborn, Gone
    <3> QED BY <3>1, <3>2
  <2>3. row'[x.own] = [status |-> IF x.expired THEN "active" ELSE old.status,
                       count |-> IF x.own \in DOMAIN x.fix THEN x.fix[x.own] ELSE x.count,
                       summary |-> IF x.own \in x.clear THEN {} ELSE IF x.wrote # {} THEN x.wrote ELSE old.summary,
                       last |-> x.turn]
    BY <1>1, <1>2, <1>5, <2>1 DEF Persisted
  <2>4. x.count \in Nat /\ x.count < next /\ x.count > 0 /\ x.count \in 0..LastTurn /\ x.turn \in 0..LastTurn
        /\ x.wrote \subseteq Turns /\ x.expired \in BOOLEAN
    BY <1>1, <1>5, TxTyped, Numbers DEF AskForm, TxForm
  <2>5. row'[x.own].count \in 0..LastTurn /\ row'[x.own].count \in Nat /\ row'[x.own].count < next
        /\ row'[x.own].count > 0
    BY <1>1, <1>3, <2>3, <2>4
  <2> QED BY <2>2, <2>3, <2>4, <2>5 DEF SessionRow
<1>6. \A s \in Ids : s \in x.drop \/ s = x.own \/ s \in DOMAIN x.fix \/ row'[s] = row[s]
  BY <1>2
<1>7. TypeOK'
  <2>1. \A s \in Ids : row'[s] \in SessionRow \cup {Unborn, Gone}
    BY <1>2, <1>4, <1>5, <1>6 DEF SessionsInv, TypeOK
  <2>2. row' \in [Ids -> SessionRow \cup {Unborn, Gone}]
    BY <1>2, <2>1
  <2>3. home' \in [Turns -> Ids \cup {None}]
    BY <1>1, TxTyped DEF Commit, SessionsInv, TypeOK
  <2> QED BY <1>1, <2>2, <2>3 DEF SessionsInv, TypeOK
<1>8. \A s \in Ids : row'[s] \in SessionRow => Exists(s)'
  <2>1. \A r \in SessionRow : r \notin {Unborn, Gone}
    BY DEF SessionRow, Unborn, Gone
  <2> QED BY <2>1 DEF Exists
<1>9. ASSUME NEW s \in Ids, s = x.own \/ (s \in DOMAIN x.fix /\ s \notin x.drop)
      PROVE  /\ Exists(s)' /\ row[s] # Gone
             /\ row'[s].count \in Nat /\ row'[s].count < next /\ row'[s].count > 0
             /\ row'[s].summary = {} \/ (s \notin x.clear /\ (\/ s = x.own /\ row'[s].summary = x.wrote
                                                              \/ Exists(s) /\ row'[s].summary = row[s].summary /\ x.wrote = {}
                                                              \/ Exists(s) /\ row'[s].summary = row[s].summary /\ s # x.own))
  <2>1. CASE s = x.own
    BY <1>5, <1>8, <2>1
  <2>2. CASE s # x.own
    <3>1. Exists(s) => row[s] # Gone
      BY DEF Exists
    <3> QED BY <1>3, <1>4, <1>8, <1>9, <2>2, <3>1
  <2> QED BY <2>1, <2>2
<1> QED BY <1>4, <1>5, <1>7, <1>9

LEMMA CommitKeepsRows == ASSUME SessionsInv, NEW p \in Procs, Commit(p) PROVE RowsSound' /\ ContextsSound'
<1>1. PICK x : x = tx[p]
  OBVIOUS
<1>2. /\ Busy(p) /\ x \in Tx /\ x.stage = "written" /\ TxForm(x) /\ next' = next /\ ctx' = ctx
      /\ next \in Nat /\ DOMAIN x.fix \subseteq Ids /\ x.own \notin x.drop /\ x.drop \subseteq Ids
      /\ (x.own \in Ids => LastTurnForm(x) /\ AskForm(x))
  <2>1. TxForm(x) => x.own \notin x.drop
    BY DEF TxForm
  <2>2. tx[p].own \in Ids /\ tx[p].stage = "written" => LastTurnForm(tx[p]) /\ AskForm(tx[p])
    BY <1>1, CommitFacts, Working
  <2> QED BY <1>1, <2>1, <2>2, CommitFacts, TxTyped, Counters DEF SessionsInv
<1>3. \A t \in Turns : home'[t] # None => t < next
  <2>1. x.own \in Ids => x.turn < next /\ x.turn # 0
    BY <1>2 DEF AskForm
  <2> QED BY <1>1, <2>1, CommitFacts DEF SessionsInv, RowsSound
<1>4. \A s \in Ids : s # x.own => Messages(s)' \subseteq Messages(s)
  BY <1>1, CommitFacts DEF Seen
<1>5. x.own \in Ids => Messages(x.own)' \subseteq Messages(x.own) \cup {x.turn}
  BY <1>1, <1>2, CommitFacts DEF Seen
<1>6. ASSUME NEW s \in Ids PROVE RowForm(s)'
  <2>1. RowForm(s)
    BY DEF SessionsInv, RowsSound
  <2>2. CASE s \in x.drop
    <3>1. Messages(s)' = {} /\ ~Exists(s)'
      BY <1>1, <2>2, CommitFacts DEF Exists
    <3> QED BY <3>1 DEF RowForm
  <2>3. CASE s = x.own
    <3>1. /\ Exists(s)' /\ row'[s].count < next /\ row'[s].count > 0 /\ row'[s].last = x.turn
      BY <1>1, <2>3, CommitRows
    <3>2. x.turn < next /\ x.turn \in Nat /\ \A t \in Messages(s) : t < x.turn /\ t \in Nat
      BY <1>2, <2>3, Numbers DEF AskForm, LastTurnForm, Messages
    <3>3. \A t \in Messages(s)' : t <= x.turn
      BY <1>5, <2>3, <3>2
    <3> QED BY <1>2, <3>1, <3>2, <3>3 DEF RowForm
  <2>4. CASE s \in DOMAIN x.fix /\ s # x.own /\ s \notin x.drop
    <3>1. /\ Exists(s)' /\ row'[s].count < next /\ row'[s].count > 0
      BY <1>1, <2>4, CommitRows
    <3>2. Exists(s) /\ row'[s].last = row[s].last
      BY <1>1, <2>4, CommitRows
    <3>3. Messages(s)' \subseteq Messages(s)
      BY <1>4, <2>4
    <3> QED BY <1>2, <2>1, <3>1, <3>2, <3>3 DEF RowForm
  <2>5. CASE s \notin DOMAIN x.fix /\ s # x.own /\ s \notin x.drop
    <3>1. row'[s] = row[s] /\ Messages(s)' = Messages(s)
      BY <1>1, <2>5, CommitFacts
    <3> QED BY <1>2, <2>1, <3>1 DEF RowForm, Exists
  <2> QED BY <2>2, <2>3, <2>4, <2>5
<1>7. ASSUME NEW s \in Ids PROVE ContextForm(s)'
  <2>1. ContextForm(s)
    BY DEF SessionsInv, ContextsSound
  <2>2. \A t \in Messages(s)' : t \in Messages(s) \/ (s = x.own /\ t = x.turn)
    BY <1>4, <1>5
  <2>3. s = x.own => ctx[s] = <<>> \/ x.turn \in ToSet(ctx[s])
    BY <1>2 DEF LastTurnForm
  <2>4. PICK c : c = ctx[s]
    OBVIOUS
  <2>5. Covers(c, s)'
    BY <2>1, <2>2, <2>3, <2>4 DEF ContextForm, Covers
  <2> QED BY <1>2, <2>1, <2>4, <2>5 DEF ContextForm
<1> QED BY <1>2, <1>3, <1>6, <1>7 DEF RowsSound, ContextsSound

\* Turns that were to stay for another transaction stay, but for those that
\* have enough newer ones themselves.
LEMMA StillNewer ==
    ASSUME SessionsInv, NEW p \in Procs, Commit(p), overlapped = {}, NEW z, NEW t \in Turns,
           ~(t <= stale), MaxTurns <= Cardinality(Newer(t, z)),
           z.turn # 0 => home[z.turn] = None
    PROVE  MaxTurns <= Cardinality(Newer(t, z)')
<1>1. PICK x : x = tx[p]
  OBVIOUS
<1>2. PICK R : R = {u \in Turns : u > t /\ home[u] # None /\ home'[u] = None}
  OBVIOUS
<1>3. /\ x \in Tx /\ TrimForm(x) /\ TxForm(x) /\ t \in Nat /\ stale \in Nat /\ Turns \subseteq Nat /\ Turns = 1..LastTurn
      /\ LastTurn \in Nat /\ MaxTurns \in Nat
      /\ x.turn # 0 => home'[x.turn] = x.own /\ x.own \in Ids /\ x.own # None
      /\ stale' = stale
  BY <1>1, CommitFacts, Numbers, Counters DEF SessionsInv
<1>4. \A u \in R : u \in x.del
  <2> SUFFICES ASSUME NEW u \in R, u \notin x.del PROVE FALSE
    OBVIOUS
  <2>1. u \in Turns /\ u > t /\ home[u] # None /\ home'[u] # home[u]
    BY <1>2
  <2>2. home[u] \in x.drop
    BY <1>1, <2>1, CommitFacts
  <2>3. u \in Messages(home[u])
    BY <2>1 DEF Messages
  <2>4. u <= stale
    BY <1>3, <2>2, <2>3 DEF TrimForm
  <2> QED BY <1>3, <2>1, <2>4
<1>5. \A v : Newer(v, z) \in SUBSET (1..LastTurn) /\ Newer(v, x) \in SUBSET (1..LastTurn)
             /\ Newer(v, z)' \in SUBSET (1..LastTurn)
  BY <1>3 DEF Newer
<1>6. CASE R = {}
  <2>1. Newer(t, z) \subseteq Newer(t, z)'
    BY <1>2, <1>6 DEF Newer
  <2>2. IsFiniteSet(Newer(t, z)') /\ Cardinality(Newer(t, z)') \in Nat /\ Cardinality(Newer(t, z)) \in Nat
    BY <1>3, <1>5, Ordered
  <2>3. Cardinality(Newer(t, z)) <= Cardinality(Newer(t, z)')
    BY <2>1, <2>2, FS_Subset
  <2> QED BY <1>3, <2>2, <2>3
<1>7. CASE R # {}
  <2>1. PICK u \in R : \A v \in R : v <= u
    <3>1. R \in SUBSET (1..LastTurn)
      BY <1>2, <1>3
    <3> QED BY <1>3, <1>7, <3>1, Greatest
  <2>2. u \in x.del /\ u \in Turns /\ u > t /\ u \in Nat /\ ~(u <= stale)
    BY <1>2, <1>3, <1>4
  <2>3. MaxTurns <= Cardinality(Newer(u, x))
    BY <1>3, <2>2 DEF TrimForm
  <2>4. Newer(u, x) \subseteq Newer(t, z)'
    <3> SUFFICES ASSUME NEW v \in Newer(u, x) PROVE v \in Newer(t, z)'
      OBVIOUS
    <3>1. v \in Turns /\ v > u /\ v > t /\ (home[v] # None \/ v = x.turn) /\ v \in Nat
      BY <1>3, <2>2 DEF Newer
    <3>2. home'[v] # None
      <4>1. CASE v = x.turn
        BY <1>3, <3>1, <4>1, Numbers
      <4>2. CASE v # x.turn /\ home'[v] = None
        <5>1. v \in R
          BY <1>2, <3>1, <4>2
        <5> QED BY <2>1, <2>2, <3>1, <5>1
      <4> QED BY <4>1, <4>2
    <3> QED BY <3>1, <3>2 DEF Newer
  <2>5. IsFiniteSet(Newer(t, z)') /\ Cardinality(Newer(t, z)') \in Nat /\ Cardinality(Newer(u, x)) \in Nat
    BY <1>3, <1>5, Ordered
  <2>6. Cardinality(Newer(u, x)) <= Cardinality(Newer(t, z)')
    BY <2>4, <2>5, FS_Subset
  <2> QED BY <1>3, <2>3, <2>5, <2>6
<1> QED BY <1>6, <1>7

LEMMA CommitKeepsProcs == ASSUME SessionsInv, NEW p \in Procs, Commit(p) PROVE ProcsSound'
<1>1. PICK x : x = tx[p]
  OBVIOUS
<1>2. /\ Busy(p) /\ x \in Tx /\ x.stage = "written" /\ TxForm(x) /\ x.todo = {} /\ tx'[p] = NoTx
      /\ DOMAIN x.fix \subseteq Ids /\ x.drop \subseteq Ids /\ x.own \notin x.drop
      /\ x.drop \subseteq x.held /\ DOMAIN x.fix \subseteq x.held
      /\ (\A q \in Procs \ {p} : tx'[q] = tx[q] /\ Busy(q)' = Busy(q))
      /\ UNCHANGED <<next, ctx, digest, stale, overlapped>>
  <2>1. TxForm(x) /\ x.stage = "written" =>
            x.own \notin x.drop /\ x.drop \subseteq x.held /\ DOMAIN x.fix \subseteq x.held
    BY DEF TxForm, Late
  <2>2. /\ Busy(p) /\ x \in Tx /\ x.stage = "written" /\ TxForm(x) /\ x.todo = {} /\ tx'[p] = NoTx
        /\ (\A q \in Procs \ {p} : tx'[q] = tx[q] /\ Busy(q)' = Busy(q))
        /\ UNCHANGED <<next, ctx, digest, stale, overlapped>>
    BY <1>1, CommitFacts
  <2> QED BY <2>1, <2>2, TxTyped
<1>3. \A s \in Ids : Exists(s) /\ s \notin x.drop => Exists(s)'
  <2>1. \A s \in Ids : s = x.own \/ (s \in DOMAIN x.fix /\ s \notin x.drop) => Exists(s)'
    BY <1>1, CommitRows
  <2>2. \A s \in Ids \ (x.drop \cup DOMAIN x.fix \cup {x.own}) : row'[s] = row[s]
    BY <1>1, CommitFacts
  <2> QED BY <2>1, <2>2 DEF Exists
<1>4. \A s \in Ids : row[s] # Unborn => row'[s] # Unborn
  <2>1. \A s \in Ids : s = x.own \/ (s \in DOMAIN x.fix /\ s \notin x.drop) => Exists(s)'
    BY <1>1, CommitRows
  <2>2. \A s \in Ids \ (x.drop \cup DOMAIN x.fix \cup {x.own}) : row'[s] = row[s]
    BY <1>1, CommitFacts
  <2>3. \A s \in x.drop : row'[s] = Gone
    BY <1>1, CommitFacts
  <2> QED BY <2>1, <2>2, <2>3 DEF Exists, Unborn, Gone
<1>5. \A s \in Ids : Messages(s)' \subseteq Messages(s) \/ s = x.own
  BY <1>1, CommitFacts DEF Seen
<1>6. x.own \in Ids => Messages(x.own)' \subseteq Messages(x.own) \cup {x.turn}
  BY <1>1, <1>2, CommitFacts DEF Seen
<1>7. ASSUME NEW q \in Procs \ {p}, Busy(q) PROVE Form(q, tx[q])'
  <2>0. PICK z : z = tx[q]
    OBVIOUS
  <2>1. /\ tx'[q] = z /\ z \in Tx /\ Form(q, z) /\ TxForm(z) /\ TrimForm(z) /\ Pair(x, z)
        /\ (q \in Asks => AskForm(z)) /\ (q = Sweeper => SweepForm(z))
        /\ (q \in Asks /\ z.stage # "loaded" => LastTurnForm(z))
    <3>1. tx'[q] = z
      BY <1>2, <1>7, <2>0
    <3>2. Pair(x, z)
      BY <1>1, <1>2, <1>7, <2>0, Working
    <3> QED BY <1>7, <2>0, <3>1, <3>2, Working
  <2>2. z.own \in Ids /\ z.stage # "loaded" => z.own \notin x.held /\ z.own \in z.held /\ z.own # x.own
    <3>1. z.own \in Ids => q \in Asks
      BY <1>7, <2>0, Working
    <3>2. x.own \in Ids => x.own \in x.held
      BY <1>1, <1>2, Working DEF AskForm
    <3> QED BY <2>1, <3>1, <3>2 DEF AskForm, Pair
  <2>3. z.drop \subseteq Ids /\ DOMAIN z.fix \subseteq Ids /\ z.del \subseteq Turns /\ z.held \subseteq Ids
        /\ Affected(z) \subseteq Ids /\ Turns \subseteq Nat
    BY <2>1, TxTyped, Numbers
  <2>4. ASSUME q \in Asks PROVE AskForm(z)'
    <3>1. z.turn # 0 => home'[z.turn] = home[z.turn]
      <4>1. z.turn # 0 => home[z.turn] = None /\ z.turn \in Turns /\ z.turn # x.turn
        <5>1. z.turn # 0 => z.turn \in 1..(next - 1) /\ home[z.turn] = None
          BY <2>1, <2>4 DEF AskForm
        <5>2. z.turn # 0 => z.turn # x.turn
          BY <2>1 DEF Pair
        <5> QED BY <5>1, <5>2, Counters, Numbers DEF SessionsInv
      <4> QED BY <1>1, <4>1, CommitFacts
    <3>2. ~z.kept => row'[z.own] = row[z.own]
      <4>1. ~z.kept => z.own \in Ids /\ row[z.own] = Unborn /\ z.own # x.own
        BY <2>1, <2>4 DEF AskForm, Pair
      <4>2. \A s \in Affected(x) : row[s] # Unborn
        BY <1>2 DEF TxForm
      <4> QED BY <1>1, <4>1, <4>2, CommitFacts DEF Affected
    <3>3. z.kept /\ z.stage # "loaded" => Exists(z.own)'
      <4>1. z.kept /\ z.stage # "loaded" => z.own \in Ids /\ Exists(z.own)
        BY <2>1, <2>4 DEF AskForm
      <4>2. PICK s : s = z.own
        OBVIOUS
      <4> QED BY <1>2, <1>3, <2>2, <4>1, <4>2
    <3> QED BY <1>2, <2>1, <2>4, <3>1, <3>2, <3>3, Counters DEF AskForm, SessionsInv
  <2>5. ASSUME q \in Asks, z.stage # "loaded" PROVE LastTurnForm(z)'
    <3>1. z.own \in Ids /\ z.own # x.own /\ Messages(z.own)' \subseteq Messages(z.own)
      <4>1. z.own \in Ids
        BY <2>1, <2>5 DEF AskForm
      <4> QED BY <1>5, <2>2, <2>5, <4>1
    <3>2. Covers(z.mem.context, z.own) => Covers(z.mem.context, z.own)'
      BY <3>1 DEF Covers
    <3> QED BY <1>2, <2>1, <2>5, <3>1, <3>2 DEF LastTurnForm
  <2>6. q = Sweeper => SweepForm(z)'
    BY <2>1 DEF SweepForm
  <2>7. TxForm(z)'
    <3>1. ASSUME z.stage \in Late, NEW s \in DOMAIN z.fix PROVE s \in z.drop \/ s = z.own \/ Exists(s)'
      <4>1. s \in z.held /\ (s \in z.drop \/ s = z.own \/ Exists(s)) /\ s \in Ids
        BY <2>1, <2>3, <3>1 DEF TxForm
      <4>2. s \notin x.drop
        BY <1>2, <2>1, <4>1 DEF Pair
      <4> QED BY <1>3, <4>1, <4>2
    <3>2. ASSUME NEW t \in z.del PROVE t < next /\ (home'[t] = None \/ home'[t] \in z.todo \cup DOMAIN z.fix)
      <4>1. t < next /\ (home[t] = None \/ home[t] \in z.todo \cup DOMAIN z.fix) /\ t # x.turn /\ t \in Turns
        BY <2>1, <2>3, <3>2 DEF TxForm, Pair
      <4> QED BY <1>1, <4>1, CommitFacts
    <3>3. \A s \in Affected(z) : row'[s] # Unborn
      BY <1>4, <2>1, <2>3 DEF TxForm
    <3> QED BY <1>2, <2>1, <3>1, <3>2, <3>3 DEF TxForm
  <2>8. TrimForm(z)'
    <3>1. \A s \in Affected(z) \ overlapped : Messages(s)' \subseteq Messages(s)
      <4>1. \A s \in Affected(z) \ overlapped : s # x.own
        BY <2>1 DEF Pair
      <4> QED BY <1>5, <2>3, <4>1
    <3>2. \A s \in z.drop \ overlapped : \A t \in Messages(s)' : t <= stale \/ t \in z.del
      BY <2>1, <3>1 DEF TrimForm, Affected
    <3>3. \A s \in DOMAIN z.fix \ overlapped : z.fix[s] = 0 => Messages(s)' \subseteq z.del
      BY <2>1, <3>1 DEF TrimForm, Affected
    <3>4. ASSUME overlapped = {}, NEW t \in z.del PROVE t <= stale \/ MaxTurns <= Cardinality(Newer(t, z)')
      <4>1. t <= stale \/ MaxTurns <= Cardinality(Newer(t, z))
        BY <2>1, <3>4 DEF TrimForm
      <4>2. t \in Turns
        BY <2>3
      <4>3. z.turn # 0 => home[z.turn] = None
        BY <2>1, Numbers DEF AskForm, SweepForm
      <4> QED BY <3>4, <4>1, <4>2, <4>3, StillNewer
    <3> QED BY <1>2, <3>2, <3>3, <3>4 DEF TrimForm
  <2> QED BY <2>0, <2>1, <2>4, <2>5, <2>6, <2>7, <2>8 DEF Form
<1>8. ASSUME NEW q \in Procs \ {p}, NEW r \in Procs \ {p}, q # r, Busy(q), Busy(r)
      PROVE  Pair(tx[q], tx[r])'
  <2>1. Pair(tx[q], tx[r]) /\ tx'[q] = tx[q] /\ tx'[r] = tx[r]
    BY <1>2, <1>8 DEF SessionsInv, ProcsSound
  <2> QED BY <1>2, <2>1 DEF Pair, Affected
<1> QED BY <1>2, <1>7, <1>8 DEF ProcsSound, Busy

LEMMA CommitKeepsMemory == ASSUME SessionsInv, NEW p \in Procs, Commit(p) PROVE RemembersKept'
<1> SUFFICES ASSUME NEW s \in Ids \ overlapped', row'[s] # Gone PROVE Remembers(s)'
  BY DEF RemembersKept
<1>1. PICK x : x = tx[p]
  OBVIOUS
<1>2. /\ Busy(p) /\ x \in Tx /\ x.stage = "written" /\ TxForm(x) /\ x.todo = {} /\ tx'[p] = NoTx
      /\ (\A q \in Procs \ {p} : tx'[q] = tx[q] /\ Busy(q)' = Busy(q))
      /\ ctx' = ctx /\ digest' = digest /\ overlapped' = overlapped
      /\ s \notin x.drop /\ Messages(s)' = Seen(x, s)
  BY <1>1, CommitFacts
<1>3. Remembers(s) /\ Knows(x, s) /\ ~Busy(p)'
  <2>1. row[s] # Gone
    <3>1. s = x.own \/ (s \in DOMAIN x.fix /\ s \notin x.drop) => row[s] # Gone
      BY <1>1, CommitRows
    <3>2. s \notin DOMAIN x.fix /\ s # x.own => row'[s] = row[s]
      BY <1>1, <1>2, CommitFacts
    <3> QED BY <1>2, <3>1, <3>2
  <2> QED BY <1>1, <1>2, <2>1 DEF SessionsInv, RemembersKept, Remembers, Busy
<1>4. ASSUME NEW q \in Procs \ {p}, Busy(q)
      PROVE  Knows(tx[q], s) /\ (tx[q].own = s => s \notin DOMAIN x.fix) /\ (s = x.own => s \notin Affected(tx[q]))
  <2>1. Pair(x, tx[q])
    BY <1>1, <1>2, <1>4, Working
  <2> QED BY <1>2, <1>3, <1>4, <2>1 DEF Remembers, Pair, Affected
<1>5. ASSUME NEW q \in Procs, Busy(q)' PROVE q # p /\ Busy(q) /\ tx'[q] = tx[q]
  BY <1>2, <1>3, <1>5
<1>6. CASE s \in DOMAIN x.fix
  <2>1. digest[s] = {} /\ ToSet(ctx[s]) \subseteq Seen(x, s) /\ (s # x.own => ctx[s] = <<>>)
    BY <1>3, <1>6, NoContext DEF Knows
  <2>2. row'[s].summary = {}
    <3>1. s = x.own => x.wrote = {}
      BY <1>2, <1>6 DEF TxForm
    <3>2. s \notin x.clear /\ Exists(s) => row[s].summary = {}
      BY <1>3, <1>6 DEF Knows
    <3> QED BY <1>1, <1>2, <1>6, <3>1, <3>2, CommitRows
  <2>3. ContextKnows(s)'
    BY <1>2, <2>1 DEF ContextKnows
  <2>4. ASSUME NEW q \in Procs, Busy(q)' PROVE Knows(tx[q], s)'
    <3>1. q # p /\ Busy(q) /\ tx'[q] = tx[q]
      BY <1>5, <2>4
    <3>2. Knows(tx[q], s) /\ tx[q].own # s /\ (s = x.own => s \notin Affected(tx[q]))
      BY <1>4, <1>6, <3>1
    <3> QED BY <1>2, <2>1, <2>2, <3>1, <3>2 DEF Knows, Affected
  <2> QED BY <1>2, <2>1, <2>2, <2>3, <2>4 DEF Remembers
<1>7. CASE s \notin DOMAIN x.fix /\ s = x.own
  <2>1. Messages(s) \subseteq Messages(s)' /\ x.turn \in Messages(s)'
    <3>1. x.turn # 0
      BY <1>1, <1>2, <1>7, Working, Counters DEF AskForm, SessionsInv
    <3>2. Messages(s) \cap x.del = {}
      BY <1>2, <1>7, Numbers DEF TxForm, Messages
    <3> QED BY <1>2, <1>7, <3>1, <3>2 DEF Seen
  <2>2. row'[s].summary \subseteq Messages(s)
    <3>1. x.wrote \subseteq Messages(s)
      BY <1>3, <1>7 DEF Knows
    <3>2. Exists(s) => row[s].summary \subseteq Messages(s)
      BY <1>3 DEF Remembers
    <3> QED BY <1>1, <1>7, <3>1, <3>2, CommitRows
  <2>3. ContextKnows(s)'
    <3> SUFFICES ASSUME NEW t \in ToSet(ctx[s]), t \notin Messages(s)'
                 PROVE  \E q \in Procs : Busy(q)' /\ tx'[q].own = s /\ tx'[q].stage = "written" /\ t = tx'[q].turn
      BY <1>2 DEF ContextKnows
    <3>1. PICK q \in Procs : Busy(q) /\ tx[q].own = s /\ tx[q].stage = "written" /\ t = tx[q].turn
      BY <1>3, <2>1 DEF Remembers, ContextKnows
    <3>2. q # p
      BY <1>1, <2>1, <3>1
    <3> QED BY <1>2, <3>1, <3>2
  <2>4. ASSUME NEW q \in Procs, Busy(q)' PROVE Knows(tx[q], s)'
    <3>1. q # p /\ Busy(q) /\ tx'[q] = tx[q]
      BY <1>5, <2>4
    <3>2. Knows(tx[q], s) /\ s \notin Affected(tx[q])
      BY <1>4, <1>7, <3>1
    <3> QED BY <1>2, <2>1, <3>1, <3>2 DEF Knows, Affected
  <2>5. digest[s] \subseteq Messages(s)
    BY <1>3 DEF Remembers
  <2> QED BY <1>2, <2>1, <2>2, <2>3, <2>4, <2>5 DEF Remembers
<1>8. CASE s \notin DOMAIN x.fix /\ s # x.own
  <2>1. row'[s] = row[s] /\ Messages(s)' = Messages(s)
    BY <1>1, <1>2, <1>8, CommitFacts
  <2>2. ContextKnows(s)'
    <3> SUFFICES ASSUME NEW t \in ToSet(ctx[s]), t \notin Messages(s)'
                 PROVE  \E q \in Procs : Busy(q)' /\ tx'[q].own = s /\ tx'[q].stage = "written" /\ t = tx'[q].turn
      BY <1>2 DEF ContextKnows
    <3>1. PICK q \in Procs : Busy(q) /\ tx[q].own = s /\ tx[q].stage = "written" /\ t = tx[q].turn
      BY <1>3, <2>1 DEF Remembers, ContextKnows
    <3>2. q # p
      BY <1>1, <1>8, <3>1
    <3> QED BY <1>2, <3>1, <3>2
  <2>3. ASSUME NEW q \in Procs, Busy(q)' PROVE Knows(tx[q], s)'
    <3>1. q # p /\ Busy(q) /\ tx'[q] = tx[q]
      BY <1>5, <2>3
    <3>2. Knows(tx[q], s)
      BY <1>4, <3>1
    <3>3. Seen(tx[q], s)' = Seen(tx[q], s)
      BY <2>1, <3>1 DEF Seen
    <3> QED BY <1>2, <2>1, <3>1, <3>2, <3>3 DEF Knows, Exists
  <2> QED BY <1>2, <1>3, <2>1, <2>2, <2>3 DEF Remembers, Exists
<1> QED BY <1>6, <1>7, <1>8

LEMMA CommitKeeps == ASSUME SessionsInv, NEW p \in Procs, Commit(p) PROVE SessionsInv'
<1>1. TypeOK'
  BY CommitRows
<1> QED BY <1>1, CommitKeepsRows, CommitKeepsProcs, CommitKeepsMemory DEF SessionsInv

-----------------------------------------------------------------------------
(* All steps *)

LEMMA WorkKeeps == ASSUME SessionsInv, NEW p \in Procs, Work(p) PROVE SessionsInv'
<1>1. Retain(p) => SessionsInv'
  BY SelectAgedKeeps, SelectOverdueKeeps, RecountKeeps, SettleKeeps DEF Retain
<1>2. Reactivate(p) \/ InsertTurn(p) \/ CommitDenied(p) => SessionsInv'
  BY ReactivateKeeps, InsertTurnKeeps, CommitDeniedKeeps
<1>3. ReadContext(p) \/ AppendTurn(p) \/ RebuildContext(p) => SessionsInv'
  BY ReadContextKeeps, AppendTurnKeeps, RebuildContextKeeps
<1>4. Commit(p) \/ RowMissing(p) \/ Victim(p) => SessionsInv'
  BY CommitKeeps, RowMissingKeeps, VictimKeeps
<1> QED BY <1>1, <1>2, <1>3, <1>4 DEF Work

LEMMA NextKeeps == SessionsInv /\ [Next]_vars => SessionsInv'
<1> SUFFICES ASSUME SessionsInv, [Next]_vars PROVE SessionsInv'
  OBVIOUS
<1>1. CASE \E p \in Asks, s \in Ids : StartSession(p, s) \/ Resume(p, s)
  BY <1>1, StartSessionKeeps, ResumeKeeps
<1>2. CASE StartSweep
  BY <1>2, StartSweepKeeps
<1>3. CASE \E p \in Procs : Work(p) \/ Fail(p)
  BY <1>3, WorkKeeps, FailKeeps
<1>4. CASE SelectIdle \/ Expire
  BY <1>4, LosesKeep, ExpireKeeps
<1>5. CASE \E s \in Ids : DeleteSession(s) \/ ClearDeleted(s) \/ LoseCache(s)
  BY <1>5, DeleteSessionKeeps, LosesKeep
<1>6. CASE PassTime
  BY <1>6, TimeKeeps
<1>7. CASE UNCHANGED vars
  BY <1>7, StutterKeeps
<1> QED BY <1>1, <1>2, <1>3, <1>4, <1>5, <1>6, <1>7 DEF Next

\* The inductive invariant holds in every state.
THEOREM SessionsInductive == Spec => []SessionsInv
<1> QED BY InitSessions, NextKeeps, PTL DEF Spec

\* The hot context of a session is the end of its history, in order and without
\* a gap, and a row with messages has a count, whatever asks, sweeps, expiry and
\* deletions do at the same time and wherever they fail.
THEOREM SessionsStaySound == Spec => []SessionsSound
<1>1. SessionsInv => SessionsSound
  <2> SUFFICES ASSUME SessionsInv PROVE SessionsSound
    OBVIOUS
  <2>1. ContextIsRecent
    <3> SUFFICES ASSUME NEW s \in Ids, ctx[s] # <<>>
                 PROVE  Increasing(ctx[s]) /\ {t \in Messages(s) : t >= Head(ctx[s])} \subseteq ToSet(ctx[s])
      BY DEF ContextIsRecent
    <3>1. ctx[s] \in Seq(Turns)
      BY Bounded DEF SessionsInv, TypeOK
    <3>2. Head(ctx[s]) = ctx[s][1]
      BY <3>1
    <3> QED BY <3>2 DEF SessionsInv, ContextsSound, ContextForm, Covers
  <2>2. Counted
    <3> SUFFICES ASSUME NEW s \in Ids, Exists(s), Messages(s) # {} PROVE row[s].count > 0
      BY DEF Counted
    <3> QED BY DEF SessionsInv, RowsSound, RowForm
  <2> QED BY <2>1, <2>2 DEF SessionsSound, SessionsInv
<1> QED BY <1>1, SessionsInductive, PTL

\* A turn that was trimmed is neither in the hot context nor in a summary, but
\* where an ask overlapped the trimming or failed after it wrote the context.
THEOREM TrimmedIsForgotten == Spec => []ForgetsTrimmed
<1>1. SessionsInv => ForgetsTrimmed
  <2> SUFFICES ASSUME SessionsInv, NEW s \in Ids \ overlapped, Exists(s)
               PROVE  ToSet(ctx[s]) \cup digest[s] \cup row[s].summary \subseteq Known(s)
    BY DEF ForgetsTrimmed
  <2>1. Remembers(s)
    <3>1. row[s] # Gone
      BY DEF Exists
    <3> QED BY <3>1 DEF SessionsInv, RemembersKept
  <2>2. digest[s] \cup row[s].summary \subseteq Messages(s)
    BY <2>1 DEF Remembers
  <2>3. ASSUME NEW t \in ToSet(ctx[s]), t \notin Messages(s) PROVE t \in Known(s)
    <3>1. PICK p \in Procs : Busy(p) /\ tx[p].own = s /\ t = tx[p].turn
      BY <2>1, <2>3 DEF Remembers, ContextKnows
    <3>2. p \in Asks /\ Own(p) = s
      BY <3>1, Working DEF Own
    <3> QED BY <3>1, <3>2 DEF Known
  <2> QED BY <2>2, <2>3 DEF Known
<1> QED BY <1>1, SessionsInductive, PTL

\* The retention takes the turns of more than 7 days and the oldest beyond
\* MaxTurns, and no others, where no ask overlapped a trimming.
THEOREM OnlyTheOldestGo == Spec => DropsOldest
<1>1. SessionsInv /\ [Next]_vars => [overlapped = {} => \A t \in Turns : home[t] # None /\ Spared(t) => home'[t] = home[t]]_vars
  <2> SUFFICES ASSUME SessionsInv, Next, overlapped = {}, NEW t \in Turns, home[t] # None, Spared(t)
               PROVE  home'[t] = home[t]
    OBVIOUS
  <2>1. ASSUME NEW p \in Procs, Commit(p) PROVE home'[t] = home[t]
    <3> SUFFICES ASSUME home'[t] # home[t] PROVE FALSE
      OBVIOUS
    <3>1. PICK x : x = tx[p]
      OBVIOUS
    <3>2. t \in x.del \/ home[t] \in x.drop
      BY <2>1, <3>1, CommitFacts
    <3>3. TrimForm(x) /\ x \in Tx
      BY <2>1, <3>1, CommitFacts
    <3>4. ~(t <= stale) /\ t \in Nat /\ stale \in Nat /\ MaxTurns \in Nat /\ LastTurn \in Nat /\ Turns = 1..LastTurn
      BY Numbers, Counters DEF Spared, SessionsInv
    <3>5. t \in x.del
      <4>1. t \in Messages(home[t])
        BY DEF Messages
      <4> QED BY <3>2, <3>3, <3>4, <4>1 DEF TrimForm
    <3>6. MaxTurns <= Cardinality(Newer(t, x))
      BY <3>3, <3>4, <3>5 DEF TrimForm
    <3>7. PICK U : U = {u \in Turns : u > t /\ (home[u] # None \/ home'[u] # None)}
      OBVIOUS
    <3>8. Newer(t, x) \subseteq U
      <4>1. x.turn # 0 => home'[x.turn] # None
        BY <2>1, <3>1, CommitFacts, Numbers
      <4> QED BY <3>7, <4>1, Numbers DEF Newer
    <3>9. U \in SUBSET (1..LastTurn) /\ Newer(t, x) \in SUBSET (1..LastTurn)
      BY <3>4, <3>7, <3>8
    <3>10. IsFiniteSet(U) /\ Cardinality(U) \in Nat /\ Cardinality(Newer(t, x)) \in Nat
      BY <3>4, <3>9, Ordered
    <3>11. Cardinality(Newer(t, x)) <= Cardinality(U)
      BY <3>8, <3>10, FS_Subset
    <3>12. Cardinality(U) < MaxTurns
      BY <3>7 DEF Spared
    <3> QED BY <3>4, <3>6, <3>10, <3>11, <3>12
  <2>2. ASSUME NEW p \in Procs, Work(p), ~Commit(p) PROVE home' = home
    BY <2>2 DEF Work, Retain, Reactivate, InsertTurn, CommitDenied, SelectAged, SelectOverdue, Recount, Settle,
                ReadContext, AppendTurn, RebuildContext, RowMissing, Victim
  <2>3. ASSUME NEW p \in Procs, Fail(p) PROVE home' = home
    BY <2>3 DEF Fail
  <2>4. CASE \E p \in Asks, s \in Ids : StartSession(p, s) \/ Resume(p, s)
    BY <2>4 DEF StartSession, Resume
  <2>5. CASE StartSweep \/ SelectIdle \/ Expire \/ PassTime
    BY <2>5 DEF StartSweep, SelectIdle, Expire, PassTime
  <2>6. CASE \E s \in Ids : DeleteSession(s) \/ ClearDeleted(s) \/ LoseCache(s)
    BY <2>6 DEF DeleteSession, ClearDeleted, LoseCache
  <2> QED BY <2>1, <2>2, <2>3, <2>4, <2>5, <2>6 DEF Next
<1> QED BY <1>1, SessionsInductive, PTL DEF Spec, DropsOldest
=============================================================================
