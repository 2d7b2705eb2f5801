----------------------------- MODULE HitTests_proofs ----------------------------
(***************************************************************************)
(* Proofs about the services that work through lists: test runs,           *)
(* evaluations, and the requests of other systems with the tables they     *)
(* import, for lists and tables of any length.                             *)
(*                                                                         *)
(* Evaluations: figures add up because every request under way owns a run  *)
(* that is not settled (RequestsOwn), so none ends the run of another.     *)
(*                                                                         *)
(* API clients: a key has one document, because while one request at a     *)
(* time uses it (OneUpload) what it is about to store or to record is      *)
(* missing (KeyKept), and a key nobody uses and nobody remembers has made  *)
(* none.  A source that a client lists is not being deleted either         *)
(* (SourcesInv).                                                           *)
(*                                                                         *)
(* Hit-rate tests: an edit that nobody else crosses knows all rows of its  *)
(* case and how many there are (EditsAlone), so that what is there when it *)
(* commits is one list; and the numbering of a list by itself is the order *)
(* of its questions (OrderedRows).                                         *)
(*                                                                         *)
(* Test runs: what the code adds up step by step is a function on 0..n     *)
(* here, so that facts about sums follow from Upwards, and existence from  *)
(* StepByStep.  A run keeps its results and both figures together, with    *)
(* serial numbers for its comparison (FiguresInv).                         *)
(*                                                                         *)
(* Imports: what an import has stored and what is left make its table      *)
(* (ImportGoes), because batches hold the rows they were split from        *)
(* (BatchesHoldRows) and each step moves the first of them.  Two imports   *)
(* never have a document in common (ImportsApart), and the documents of    *)
(* one are scheduled together because nobody else touches them.            *)
(***************************************************************************)
EXTENDS HitTests, RagasRuns, ExternalApi, FunctionTheorems, FiniteSetTheorems, SequenceTheorems,
        WellFoundedInduction, TLAPS

-----------------------------------------------------------------------------
(* Numbers *)

\* A nonempty set of numbers has a least one.
LEMMA LeastThereIs ==
    ASSUME NEW S, S \subseteq Nat, S # {}
    PROVE  \E m \in S : \A i \in S : m <= i
<1> DEFINE below == OpToRel(<, Nat)
<1>1. IsWellFoundedOn(below, Nat)
  BY NatLessThanWellFounded
<1>2. ASSUME NEW x \in Nat, NEW y \in Nat, y < x PROVE <<y, x>> \in below
  BY <1>2 DEF OpToRel
<1> HIDE DEF below
<1>3. PICK m \in S : \A y \in S : ~(<<y, m>> \in below)
  BY <1>1, WFMin
<1>4. ASSUME NEW i \in S PROVE m <= i
  <2>1. i \in Nat /\ m \in Nat
    BY <1>3
  <2>2. ~(i < m)
    BY <1>2, <1>3, <2>1
  <2> QED BY <2>1, <2>2
<1> QED BY <1>4

-----------------------------------------------------------------------------
(* RagasRuns: evaluations are shown whole *)

\* What the proofs need of a request: its run is one of those made, is its
\* own, and not settled.
RequestsOwn ==
    /\ \A p \in Evaluators : Evaluating(p) =>
        /\ {"stage", "run", "specs", "samples", "scored"} \subseteq DOMAIN evaluation[p]
        /\ evaluation[p].run \in DOMAIN ragas_runs
        /\ evaluation[p].scored \in Seq(SUBSET Metrics)
        /\ ragas_runs[evaluation[p].run].status \in {"running", "gone"}
    /\ \A p, q \in Evaluators : Evaluating(p) /\ Evaluating(q) /\ evaluation[p].run = evaluation[q].run => p = q

RunRows == [status : {"running", "completed", "failed", "gone"}, items : Seq(SUBSET Metrics),
            sample_count : Nat, success_counts : [Metrics -> Nat]]

RagasInv == /\ ragas_runs \in Seq(RunRows) /\ DOMAIN evaluation = Evaluators
            /\ RequestsOwn /\ AllOrNothing

\* What a run shows adds up.
Adds(r) == IF r.status = "completed"
           THEN /\ r.sample_count = Len(r.items)
                /\ r.success_counts = Successes(r.items)
                /\ \E m \in Metrics : r.success_counts[m] > 0
           ELSE r.items = <<>> /\ r.sample_count = 0

\* AllOrNothing says it of every run.
LEMMA AllAdd == AllOrNothing <=> \A i \in DOMAIN ragas_runs : Adds(ragas_runs[i])
  BY DEF AllOrNothing, Adds

\* A new run, and one whose base is gone, shows nothing.
LEMMA NothingShown ==
    /\ NewEvaluation \in RunRows /\ Adds(NewEvaluation) /\ NewEvaluation.status = "running"
    /\ [NewEvaluation EXCEPT !.status = "gone"] \in RunRows
    /\ Adds([NewEvaluation EXCEPT !.status = "gone"])
    /\ [NewEvaluation EXCEPT !.status = "gone"].status = "gone"
<1>1. [m \in Metrics |-> 0] \in [Metrics -> Nat] /\ <<>> \in Seq(SUBSET Metrics)
  OBVIOUS
<1> QED BY <1>1 DEF NewEvaluation, RunRows, Adds

\* The counts of a list of scores, one of which is there at least.
LEMMA CountsOfScores ==
    ASSUME NEW scored \in Seq(SUBSET Metrics)
    PROVE  /\ Successes(scored) \in [Metrics -> Nat]
           /\ (\E i \in DOMAIN scored : scored[i] # {}) => \E m \in Metrics : Successes(scored)[m] > 0
<1> DEFINE having(m) == {i \in DOMAIN scored : m \in scored[i]}
<1>1. ASSUME NEW m \in Metrics PROVE IsFiniteSet(having(m)) /\ Cardinality(having(m)) \in Nat
  <2>1. DOMAIN scored = 1..Len(scored) /\ Len(scored) \in Nat
    OBVIOUS
  <2>2. IsFiniteSet(1..Len(scored))
    BY <2>1, FS_Interval
  <2>3. having(m) \subseteq 1..Len(scored)
    BY <2>1
  <2> HIDE DEF having
  <2>4. IsFiniteSet(having(m))
    BY <2>2, <2>3, FS_Subset
  <2> QED BY <2>4, FS_CardinalityType
<1>2. \A m \in Metrics : Successes(scored)[m] = Cardinality(having(m))
  BY DEF Successes
<1>3. Successes(scored) \in [Metrics -> Nat]
  <2>1. Successes(scored) = [m \in Metrics |-> Cardinality(having(m))]
    BY DEF Successes
  <2> HIDE DEF having
  <2> QED BY <1>1, <2>1
<1>4. ASSUME NEW i \in DOMAIN scored, scored[i] # {} PROVE \E m \in Metrics : Successes(scored)[m] > 0
  <2>1. PICK m \in Metrics : m \in scored[i]
    <3>1. scored[i] \in SUBSET Metrics
      BY ElementOfSeq
    <3> QED BY <1>4, <3>1
  <2>2. having(m) # {}
    BY <2>1
  <2> HIDE DEF having
  <2>3. Cardinality(having(m)) # 0
    BY <1>1, <2>2, FS_EmptySet
  <2> QED BY <1>1, <1>2, <2>3
<1> QED BY <1>3, <1>4

\* No run has been made at the start.
LEMMA RagasStarts == RagasInit => RagasInv
  BY DEF RagasInit, RagasInv, RequestsOwn, AllOrNothing, Evaluating

\* A request that goes on without touching its run.
LEMMA RequestGoesOn ==
    ASSUME RagasInv, NEW p \in Evaluators, ragas_runs' = ragas_runs, NEW x,
           evaluation' = [evaluation EXCEPT ![p] = x],
           x = None \/ /\ Evaluating(p) /\ DOMAIN x = DOMAIN evaluation[p]
                       /\ x.run = evaluation[p].run /\ x.scored \in Seq(SUBSET Metrics)
    PROVE  RagasInv'
<1>1. evaluation'[p] = x /\ \A q \in Evaluators \ {p} : evaluation'[q] = evaluation[q]
  BY DEF RagasInv
<1>2. RequestsOwn'
  BY <1>1 DEF RagasInv, RequestsOwn, Evaluating
<1>3. AllOrNothing'
  BY DEF RagasInv, AllOrNothing, Successes
<1> QED BY <1>2, <1>3 DEF RagasInv

\* A request that gives up leaves its run as it is.
LEMMA RequestFails ==
    ASSUME RagasInv, NEW p \in Evaluators, Fail(p)
    PROVE  RagasInv' /\ ragas_runs' = ragas_runs
<1>1. evaluation' = [evaluation EXCEPT ![p] = None] /\ ragas_runs' = ragas_runs
  BY DEF Fail
<1> QED BY <1>1, RequestGoesOn

\* A new run is added at the end and belongs to its request.
LEMMA EvaluationStarts ==
    ASSUME RagasInv, NEW p \in Evaluators, NEW specs \in SpecLists, StartEvaluation(p, specs)
    PROVE  RagasInv' /\ \A i \in DOMAIN ragas_runs : ragas_runs'[i] = ragas_runs[i]
<1> DEFINE n == Len(ragas_runs) + 1
           x == [stage |-> "resolving", run |-> n, specs |-> Capped(specs), samples |-> <<>>, scored |-> <<>>]
<1>1. /\ ~Evaluating(p) /\ ragas_runs' = Append(ragas_runs, NewEvaluation)
      /\ evaluation' = [evaluation EXCEPT ![p] = x]
  BY DEF StartEvaluation
<1>2. /\ {"stage", "run", "specs", "samples", "scored"} \subseteq DOMAIN x
      /\ x.run = n /\ x.scored \in Seq(SUBSET Metrics)
  OBVIOUS
<1> HIDE DEF x
<1>3. evaluation'[p] = x /\ \A q \in Evaluators \ {p} : evaluation'[q] = evaluation[q]
  BY <1>1 DEF RagasInv
<1>4. /\ ragas_runs' \in Seq(RunRows) /\ DOMAIN ragas_runs = 1..Len(ragas_runs) /\ Len(ragas_runs) \in Nat
      /\ DOMAIN ragas_runs' = DOMAIN ragas_runs \cup {n} /\ n \notin DOMAIN ragas_runs
      /\ ragas_runs'[n] = NewEvaluation
      /\ \A i \in DOMAIN ragas_runs : ragas_runs'[i] = ragas_runs[i]
  BY <1>1, NothingShown DEF RagasInv
<1> HIDE DEF n
<1>5. RequestsOwn'
  <2>1. ASSUME NEW q \in Evaluators, evaluation'[q] # None
        PROVE  /\ {"stage", "run", "specs", "samples", "scored"} \subseteq DOMAIN evaluation'[q]
               /\ evaluation'[q].run \in DOMAIN ragas_runs'
               /\ evaluation'[q].scored \in Seq(SUBSET Metrics)
               /\ ragas_runs'[evaluation'[q].run].status \in {"running", "gone"}
               /\ q # p => evaluation'[q].run \in DOMAIN ragas_runs
    <3>1. CASE q = p
      BY <1>2, <1>3, <1>4, <3>1, NothingShown
    <3>2. CASE q # p
      BY <1>3, <1>4, <2>1, <3>2 DEF RagasInv, RequestsOwn, Evaluating
    <3> QED BY <3>1, <3>2
  <2>2. ASSUME NEW q \in Evaluators, NEW r \in Evaluators, evaluation'[q] # None, evaluation'[r] # None,
               evaluation'[q].run = evaluation'[r].run
        PROVE  q = r
    <3>1. CASE q # p /\ r # p
      BY <1>3, <2>2, <3>1 DEF RagasInv, RequestsOwn, Evaluating
    <3>2. CASE q = p /\ r # p
      BY <1>2, <1>3, <1>4, <2>1, <2>2, <3>2
    <3>3. CASE q # p /\ r = p
      BY <1>2, <1>3, <1>4, <2>1, <2>2, <3>3
    <3> QED BY <3>1, <3>2, <3>3
  <2> QED BY <2>1, <2>2 DEF RequestsOwn, Evaluating
<1>6. AllOrNothing'
  <2>1. ASSUME NEW i \in DOMAIN ragas_runs' PROVE Adds(ragas_runs'[i])
    BY <1>4, NothingShown, AllAdd DEF RagasInv
  <2> QED BY <2>1 DEF AllOrNothing, Adds
<1>7. DOMAIN evaluation' = Evaluators
  BY <1>1 DEF RagasInv
<1> QED BY <1>4, <1>5, <1>6, <1>7 DEF RagasInv

\* A request that takes in samples or scores one of them.
LEMMA RequestWorks ==
    ASSUME RagasInv, NEW p \in Evaluators, Evaluating(p),
           \/ \E samples : Resolve(p, samples)
           \/ \E succeeded \in SUBSET Metrics : ScoreSample(p, succeeded)
    PROVE  RagasInv' /\ ragas_runs' = ragas_runs
<1> DEFINE e == evaluation[p]
<1>0. {"stage", "run", "specs", "samples", "scored"} \subseteq DOMAIN e /\ e.scored \in Seq(SUBSET Metrics)
  BY DEF RagasInv, RequestsOwn
<1>1. CASE \E samples : Resolve(p, samples)
  <2>1. PICK samples : Resolve(p, samples)
    BY <1>1
  <2> DEFINE x == [e EXCEPT !.samples = @ \o samples,
                            !.stage = IF Len(e.samples \o samples) >= Len(e.specs) THEN "scoring" ELSE @]
  <2>2. evaluation' = [evaluation EXCEPT ![p] = x] /\ ragas_runs' = ragas_runs
    BY <2>1 DEF Resolve
  <2>3. DOMAIN x = DOMAIN e /\ x.run = e.run /\ x.scored = e.scored
    BY <1>0
  <2> HIDE DEF x
  <2> QED BY <1>0, <2>2, <2>3, RequestGoesOn
<1>2. CASE \E succeeded \in SUBSET Metrics : ScoreSample(p, succeeded)
  <2>1. PICK succeeded \in SUBSET Metrics : ScoreSample(p, succeeded)
    BY <1>2
  <2> DEFINE x == [e EXCEPT !.scored = Append(@, succeeded)]
  <2>2. evaluation' = [evaluation EXCEPT ![p] = x] /\ ragas_runs' = ragas_runs
    BY <2>1 DEF ScoreSample
  <2>3. DOMAIN x = DOMAIN e /\ x.run = e.run /\ x.scored = Append(e.scored, succeeded)
    BY <1>0
  <2> HIDE DEF x
  <2>4. x.scored \in Seq(SUBSET Metrics)
    BY <1>0, <2>3
  <2> QED BY <2>2, <2>3, <2>4, RequestGoesOn
<1> QED BY <1>1, <1>2

\* A request that completes its run, with all items and the figures.
LEMMA RequestCompletes ==
    ASSUME RagasInv, NEW p \in Evaluators, Complete(p)
    PROVE  /\ RagasInv'
           /\ \A i \in DOMAIN ragas_runs : ragas_runs'[i] # ragas_runs[i] =>
                  /\ ragas_runs[i].status = "running"
                  /\ Evaluating(p) /\ evaluation[p].run = i /\ evaluation'[p] = None
<1> DEFINE e == evaluation[p]
           i == e.run
           r == Completed(e.samples, e.scored)
<1>1. CASE Fail(p)
  BY <1>1, RequestFails
<1>2. CASE ~Fail(p)
  <2>1. /\ Evaluating(p) /\ Len(e.scored) = Len(e.samples)
        /\ ragas_runs[i].status # "gone" /\ \E k \in DOMAIN e.scored : e.scored[k] # {}
        /\ ragas_runs' = [ragas_runs EXCEPT ![i] = r]
        /\ evaluation' = [evaluation EXCEPT ![p] = None]
    BY <1>2 DEF Complete
  <2>2. i \in DOMAIN ragas_runs /\ e.scored \in Seq(SUBSET Metrics) /\ ragas_runs[i].status = "running"
    BY <2>1 DEF RagasInv, RequestsOwn
  <2>3. r \in RunRows /\ Adds(r)
    <3>1. /\ Successes(e.scored) \in [Metrics -> Nat]
          /\ \E m \in Metrics : Successes(e.scored)[m] > 0
      BY <2>1, <2>2, CountsOfScores
    <3>2. Len(e.samples) \in Nat
      BY <2>1, <2>2
    <3>3. r = [status |-> "completed", items |-> e.scored, sample_count |-> Len(e.samples),
               success_counts |-> Successes(e.scored)]
      BY DEF Completed
    <3> HIDE DEF r, e
    <3> QED BY <2>1, <2>2, <3>1, <3>2, <3>3 DEF RunRows, Adds
  <2> HIDE DEF r
  <2>4. /\ DOMAIN ragas_runs' = DOMAIN ragas_runs /\ ragas_runs'[i] = r
        /\ \A k \in DOMAIN ragas_runs \ {i} : ragas_runs'[k] = ragas_runs[k]
    BY <2>1, <2>2 DEF RagasInv
  <2>5. ragas_runs' \in Seq(RunRows)
    BY <2>1, <2>2, <2>3 DEF RagasInv
  <2>6. evaluation'[p] = None /\ \A q \in Evaluators \ {p} : evaluation'[q] = evaluation[q]
    BY <2>1 DEF RagasInv
  <2>7. RequestsOwn'
    <3>1. ASSUME NEW q \in Evaluators, evaluation'[q] # None
          PROVE  /\ evaluation'[q] = evaluation[q] /\ Evaluating(q)
                 /\ evaluation[q].run # i /\ evaluation[q].run \in DOMAIN ragas_runs
      BY <2>1, <2>6, <3>1 DEF RagasInv, RequestsOwn, Evaluating
    <3>2. ASSUME NEW q \in Evaluators, evaluation'[q] # None
          PROVE  /\ {"stage", "run", "specs", "samples", "scored"} \subseteq DOMAIN evaluation'[q]
                 /\ evaluation'[q].run \in DOMAIN ragas_runs'
                 /\ evaluation'[q].scored \in Seq(SUBSET Metrics)
                 /\ ragas_runs'[evaluation'[q].run].status \in {"running", "gone"}
      BY <2>4, <3>1, <3>2 DEF RagasInv, RequestsOwn
    <3>3. ASSUME NEW q \in Evaluators, NEW s \in Evaluators, evaluation'[q] # None, evaluation'[s] # None,
                 evaluation'[q].run = evaluation'[s].run
          PROVE  q = s
      BY <3>1, <3>3 DEF RagasInv, RequestsOwn
    <3> QED BY <3>2, <3>3 DEF RequestsOwn, Evaluating
  <2>8. AllOrNothing'
    <3>1. ASSUME NEW k \in DOMAIN ragas_runs' PROVE Adds(ragas_runs'[k])
      BY <2>3, <2>4, AllAdd DEF RagasInv
    <3> QED BY <3>1 DEF AllOrNothing, Adds
  <2>9. DOMAIN evaluation' = Evaluators
    BY <2>1 DEF RagasInv
  <2> QED BY <2>1, <2>2, <2>4, <2>5, <2>6, <2>7, <2>8, <2>9 DEF RagasInv
<1> QED BY <1>1, <1>2

\* The deletion of the base, which may take all runs along.
LEMMA BaseGoes ==
    ASSUME RagasInv, NEW permanent \in BOOLEAN, DeleteBase(permanent)
    PROVE  /\ RagasInv'
           /\ \A i \in DOMAIN ragas_runs : ragas_runs'[i] # ragas_runs[i] =>
                  ragas_runs'[i].status = "gone" /\ base' = "purged"
<1> DEFINE gone == [NewEvaluation EXCEPT !.status = "gone"]
<1>1. evaluation' = evaluation
  BY DEF DeleteBase
<1>2. CASE ragas_runs' = ragas_runs
  <2>1. RequestsOwn' /\ AllOrNothing'
    BY <1>1, <1>2 DEF RagasInv, RequestsOwn, AllOrNothing, Evaluating
  <2> QED BY <1>1, <1>2, <2>1 DEF RagasInv
<1>3. CASE ragas_runs' # ragas_runs
  <2>1. base' = "purged" /\ ragas_runs' = [i \in DOMAIN ragas_runs |-> gone]
    BY <1>3 DEF DeleteBase
  <2>2. gone \in RunRows /\ Adds(gone) /\ gone.status = "gone"
    BY NothingShown
  <2> HIDE DEF gone
  <2>3. ragas_runs' \in Seq(RunRows)
    <3>1. ragas_runs' \in [1..Len(ragas_runs) -> RunRows] /\ Len(ragas_runs) \in Nat
      BY <2>1, <2>2 DEF RagasInv
    <3> QED BY <3>1, SeqDef
  <2>4. DOMAIN ragas_runs' = DOMAIN ragas_runs /\ \A i \in DOMAIN ragas_runs : ragas_runs'[i] = gone
    BY <2>1
  <2>5. RequestsOwn'
    BY <1>1, <2>2, <2>4 DEF RagasInv, RequestsOwn, Evaluating
  <2>6. AllOrNothing'
    BY <2>2, <2>4 DEF AllOrNothing, Adds
  <2> QED BY <1>1, <2>1, <2>2, <2>3, <2>4, <2>5, <2>6 DEF RagasInv
<1> QED BY <1>2, <1>3

\* What SettledStays says of a step.
Settles == \A i \in DOMAIN ragas_runs :
    ragas_runs'[i] # ragas_runs[i] =>
        \/ ragas_runs'[i].status = "gone" /\ base' = "purged"
        \/ /\ ragas_runs[i].status = "running"
           /\ \E p \in Evaluators : /\ Evaluating(p) /\ evaluation[p].run = i
                                    /\ evaluation'[p] = None

\* Every step keeps the invariant and settles only what SettledStays allows.
LEMMA RagasStep == RagasInv /\ [RagasNext]_ragas_vars => RagasInv' /\ [Settles]_ragas_vars
<1> SUFFICES ASSUME RagasInv, [RagasNext]_ragas_vars PROVE RagasInv' /\ [Settles]_ragas_vars
  OBVIOUS
<1>1. ASSUME NEW p \in Evaluators,
             \/ \E samples \in Samples : CollectHistory(p, samples)
             \/ \E yes \in BOOLEAN : LoadHistorical(p, yes) \/ MaterializeQuestion(p, yes)
             \/ \E succeeded \in SUBSET Metrics : ScoreSample(p, succeeded)
             \/ BreakDown(p)
      PROVE  RagasInv' /\ ragas_runs' = ragas_runs
  <2>1. Evaluating(p)
    BY <1>1 DEF CollectHistory, LoadHistorical, MaterializeQuestion, Pending, ScoreSample, BreakDown
  <2>2. \/ Fail(p) \/ \E samples : Resolve(p, samples)
        \/ \E succeeded \in SUBSET Metrics : ScoreSample(p, succeeded)
    BY <1>1 DEF CollectHistory, LoadHistorical, MaterializeQuestion, BreakDown
  <2> QED BY <2>1, <2>2, RequestFails, RequestWorks
<1>2. ASSUME NEW p \in Evaluators, BreakOffRun(p) PROVE RagasInv' /\ ragas_runs' = ragas_runs
  <2>1. ragas_runs' = ragas_runs /\ evaluation' = [evaluation EXCEPT ![p] = None]
    BY <1>2 DEF BreakOffRun
  <2> QED BY <2>1, RequestGoesOn
<1>3. CASE PublishBase \/ UNCHANGED ragas_vars
  <2>1. ragas_runs' = ragas_runs /\ evaluation' = evaluation
    BY <1>3 DEF PublishBase, ragas_vars
  <2>2. RagasInv'
    BY <2>1 DEF RagasInv, RequestsOwn, AllOrNothing, Evaluating
  <2> QED BY <2>1, <2>2 DEF Settles
<1>4. ASSUME NEW p \in Evaluators, NEW specs \in SpecLists, StartEvaluation(p, specs)
      PROVE  RagasInv' /\ Settles
  BY <1>4, EvaluationStarts DEF Settles
<1>5. ASSUME NEW p \in Evaluators, Complete(p) PROVE RagasInv' /\ Settles
  BY <1>5, RequestCompletes DEF Settles
<1>6. ASSUME NEW permanent \in BOOLEAN, DeleteBase(permanent) PROVE RagasInv' /\ Settles
  BY <1>6, BaseGoes DEF Settles
<1> QED BY <1>1, <1>2, <1>3, <1>4, <1>5, <1>6 DEF RagasNext, Settles

\* A run shows its samples all together with figures that add up or none of
\* them, whatever failed in between (evaluate of ragas_evaluation.py).
THEOREM RunsAllOrNothing == RagasSpec => []AllOrNothing
<1>1. RagasInv /\ [RagasNext]_ragas_vars => RagasInv'
  BY RagasStep
<1>2. RagasInv => AllOrNothing
  BY DEF RagasInv
<1> QED BY <1>1, <1>2, RagasStarts, PTL DEF RagasSpec

\* What a settled run shows is changed by the deletion of its base alone, and
\* no request settles the run of another.
THEOREM SettledRunsStay == RagasSpec => SettledStays
<1>1. RagasInv /\ [RagasNext]_ragas_vars => RagasInv' /\ [Settles]_ragas_vars
  BY RagasStep
<1>2. [][Settles]_ragas_vars => SettledStays
  BY DEF SettledStays, Settles
<1> HIDE DEF Settles
<1> QED BY <1>1, <1>2, RagasStarts, PTL DEF RagasSpec

-----------------------------------------------------------------------------
(* API clients and data sources *)

\* What requests keep between their steps; what an import keeps is in a part of
\* its own, below.
UploadOwners == Clients \X (Keys \cup {NoKey})
ClientCalls == {Idle} \cup [stage : {"lookup", "store"}, owner : UploadOwners, content : Contents]
                \cup [stage : {"record"}, owner : UploadOwners, content : Contents, file : Nat]
                \cup [stage : {"remove"}, source : Sources]
                \cup [stage : {"create"}, client : Clients, allowed : SUBSET Sources]
ExternalShape ==
    /\ source \in [Sources -> {"unused", "enabled", "disabled", "deleted"}]
    /\ client \in [Clients -> {Absent} \cup ClientRows]
    /\ DOMAIN call = Callers
    /\ \A p \in Callers : \/ call[p] \in ClientCalls
                          \/ "stage" \in DOMAIN call[p] /\ call[p].stage = "import"
    /\ \E S : files \in Seq(S)
    /\ \A n \in DOMAIN files : {"owner", "content"} \subseteq DOMAIN files[n]

LiveClient(c) == client[c] # Absent /\ client[c].st # "deleted"
MadeFor(o) == {n \in DOMAIN files : files[n].owner = o}
Remembers(o) == \E r \in remembered : r.owner = o
Uploads(p, o) == call[p].stage \in {"lookup", "store", "record"} /\ call[p].owner = o

\* One key, used by one request at a time.
OneUpload(o) == \A p, q \in Callers : Uploads(p, o) /\ Uploads(q, o) => p = q
KeyKept(o) ==
    /\ \A p \in Callers : Uploads(p, o) =>
         /\ call[p].stage = "store" => MadeFor(o) = {} /\ ~Remembers(o)
         /\ call[p].stage = "record" => /\ MadeFor(o) = {call[p].file} /\ ~Remembers(o)
                                        /\ files[call[p].file].content = call[p].content
    /\ \A r \in remembered : r.owner = o => MadeFor(o) = {r.file} /\ files[r.file].content = r.content
    /\ ~Remembers(o) /\ (\A p \in Callers : Uploads(p, o) => call[p].stage # "record") => MadeFor(o) = {}
KeyInv(c, k) == <<c, k>> \notin disturbed =>
    /\ OneUpload(<<c, k>>)
    /\ LiveClient(c) => KeyKept(<<c, k>>)
    /\ client[c] = Absent => MadeFor(<<c, k>>) = {} /\ \A p \in Callers : ~Uploads(p, <<c, k>>)
    /\ ~LiveClient(c) => ~Remembers(<<c, k>>)
KeysInv == \A c \in Clients, k \in Keys : KeyInv(c, k)

SourcesInv ==
    /\ ListedSourcesExist
    /\ \A p \in Callers, c \in Clients : call[p].stage = "remove" /\ LiveClient(c) =>
         call[p].source \notin client[c].allowed \ unchecked

ExternalInv == ExternalShape /\ KeysInv /\ SourcesInv

-----------------------------------------------------------------------------

LEMMA AppendAny ==
    ASSUME NEW S, NEW s \in Seq(S), NEW x
    PROVE  /\ Append(s, x) \in Seq(S \cup {x}) /\ Len(s) \in Nat /\ DOMAIN s = 1..Len(s)
           /\ DOMAIN Append(s, x) = 1..(Len(s) + 1)
           /\ \A i \in 1..Len(s) : Append(s, x)[i] = s[i]
           /\ Append(s, x)[Len(s) + 1] = x
<1>1. s \in Seq(S \cup {x})
  BY SeqDef
<1> QED BY <1>1

\* What a request holds at each of its stages.
LEMMA CallTypes ==
    ASSUME ExternalShape, NEW p \in Callers
    PROVE  /\ call[p].stage \in {"lookup", "store"} =>
                call[p] \in [stage : {"lookup", "store"}, owner : UploadOwners, content : Contents]
           /\ call[p].stage = "record" => call[p] \in [stage : {"record"}, owner : UploadOwners, content : Contents, file : Nat]
           /\ call[p].stage = "remove" => call[p] \in [stage : {"remove"}, source : Sources]
           /\ call[p].stage = "create" => call[p] \in [stage : {"create"}, client : Clients, allowed : SUBSET Sources]
           /\ Idle.stage = "idle" /\ "stage" \in DOMAIN call[p]
  BY DEF ExternalShape, ClientCalls, Idle

\* A step that leaves a key alone, or ends a request that had stored nothing.
LEMMA KeyAlone ==
    ASSUME NEW c \in Clients, NEW k \in Keys, KeyInv(c, k),
           disturbed \subseteq disturbed', MadeFor(<<c, k>>)' = MadeFor(<<c, k>>),
           \A n \in MadeFor(<<c, k>>) : files'[n].content = files[n].content,
           \A r : r.owner = <<c, k>> => (r \in remembered' <=> r \in remembered),
           LiveClient(c)' <=> LiveClient(c), client'[c] = Absent <=> client[c] = Absent,
           \A p \in Callers : \/ Uploads(p, <<c, k>>)' /\ call'[p] = call[p]
                              \/ ~Uploads(p, <<c, k>>)'
                                 /\ (Uploads(p, <<c, k>>) /\ call[p].stage = "record" => <<c, k>> \in disturbed')
    PROVE  KeyInv(c, k)'
<1> SUFFICES ASSUME <<c, k>> \notin disturbed' PROVE KeyInv(c, k)'
  BY DEF KeyInv
<1> DEFINE o == <<c, k>>
<1>1. \A p \in Callers : Uploads(p, o)' => Uploads(p, o)
  BY DEF Uploads
<1>2. OneUpload(o)'
  BY <1>1 DEF KeyInv, OneUpload
<1>3. Remembers(o)' <=> Remembers(o)
  BY DEF Remembers
<1>4. ASSUME LiveClient(c) PROVE KeyKept(o)'
  <2>1. KeyKept(o)
    BY <1>4 DEF KeyInv
  <2>2. ASSUME NEW p \in Callers, Uploads(p, o)'
        PROVE  /\ call'[p].stage = "store" => MadeFor(o)' = {} /\ ~Remembers(o)'
               /\ call'[p].stage = "record" => /\ MadeFor(o)' = {call'[p].file} /\ ~Remembers(o)'
                                               /\ files'[call'[p].file].content = call'[p].content
    BY <1>1, <1>3, <2>1, <2>2 DEF KeyKept
  <2>3. \A r \in remembered' : r.owner = o => MadeFor(o)' = {r.file} /\ files'[r.file].content = r.content
    BY <2>1 DEF KeyKept
  <2>4. ~Remembers(o)' /\ (\A p \in Callers : Uploads(p, o)' => call'[p].stage # "record") => MadeFor(o)' = {}
    BY <1>3, <2>1 DEF KeyKept, Uploads
  <2> QED BY <2>2, <2>3, <2>4 DEF KeyKept
<1> QED BY <1>1, <1>2, <1>3, <1>4 DEF KeyInv

\* A document is added, or documents are scheduled.
LEMMA FilesAppend ==
    ASSUME ExternalShape, NEW row, files' = Append(files, row)
    PROVE  /\ Len(files) + 1 \in Nat /\ files'[Len(files) + 1] = row
           /\ (\E S : files' \in Seq(S)) /\ DOMAIN files' = DOMAIN files \cup {Len(files) + 1}
           /\ \A n \in DOMAIN files : files'[n] = files[n] /\ n # Len(files) + 1
           /\ \A o : MadeFor(o)' = IF row.owner = o THEN MadeFor(o) \cup {Len(files) + 1} ELSE MadeFor(o)
<1>1. PICK S : files \in Seq(S)
  BY DEF ExternalShape
<1>2. /\ files' \in Seq(S \cup {row}) /\ Len(files) \in Nat /\ DOMAIN files = 1..Len(files)
      /\ DOMAIN files' = 1..(Len(files) + 1) /\ files'[Len(files) + 1] = row
      /\ \A n \in 1..Len(files) : files'[n] = files[n]
  BY <1>1, AppendAny
<1>3. DOMAIN files' = DOMAIN files \cup {Len(files) + 1} /\ \A n \in DOMAIN files : n # Len(files) + 1
  BY <1>2
<1> QED BY <1>2, <1>3 DEF MadeFor

LEMMA FilesSame ==
    ASSUME ExternalShape, files' = [n \in DOMAIN files |-> files'[n]],
           \A n \in DOMAIN files : \/ files'[n] = files[n]
                                   \/ \E b : files'[n] = [files[n] EXCEPT !.scheduled = b]
    PROVE  /\ (\E S : files' \in Seq(S)) /\ DOMAIN files' = DOMAIN files
           /\ \A n \in DOMAIN files' : {"owner", "content"} \subseteq DOMAIN files'[n]
           /\ \A n \in DOMAIN files : files'[n].content = files[n].content
           /\ \A o : MadeFor(o)' = MadeFor(o)
<1>1. PICK S : files \in Seq(S)
  BY DEF ExternalShape
<1>2. Len(files) \in Nat /\ DOMAIN files = 1..Len(files)
  BY <1>1
<1>3. files' \in [1..Len(files) -> {files'[n] : n \in 1..Len(files)}]
  BY <1>2
<1>4. files' \in Seq({files'[n] : n \in 1..Len(files)})
  BY <1>2, <1>3, SeqDef
<1>5. \A n \in DOMAIN files : files'[n].content = files[n].content /\ files'[n].owner = files[n].owner
                              /\ DOMAIN files'[n] = DOMAIN files[n]
  BY DEF ExternalShape
<1> QED BY <1>4, <1>5 DEF ExternalShape, MadeFor

\* The steps of an upload.
LEMMA UploadKeepsKeys ==
    ASSUME ExternalInv, NEW p \in Callers, NEW c \in Clients, NEW k \in Keys,
           \/ \E d \in Clients, l \in Keys \cup {NoKey}, x \in Contents : StartUpload(p, d, l, x)
           \/ Lookup(p) \/ Store(p) \/ Refuse(p) \/ Record(p)
    PROVE  KeyInv(c, k)'
<1> DEFINE o == <<c, k>>
<1> USE CallTypes DEF ExternalInv
<1>1. DOMAIN call = Callers /\ KeyInv(c, k) /\ k # NoKey
  BY ExternalAssumption DEF ExternalShape, KeysInv
<1>2. ASSUME NEW d \in Clients, NEW l \in Keys \cup {NoKey}, NEW x \in Contents, StartUpload(p, d, l, x)
      PROVE  KeyInv(c, k)'
  <2>1. /\ call[p] = Idle /\ call'[p] = [stage |-> "lookup", owner |-> <<d, l>>, content |-> x]
        /\ \A q \in Callers \ {p} : call'[q] = call[q]
        /\ UNCHANGED <<source, client, files, remembered, unchecked>> /\ LiveClient(d)
        /\ disturbed' = IF l # NoKey /\ SameKey(d, l) # {} THEN disturbed \cup {<<d, l>>} ELSE disturbed
    BY <1>1, <1>2 DEF StartUpload, Begin, Free, Admitted, LiveClient
  <2>2. MadeFor(o)' = MadeFor(o) /\ (LiveClient(c)' <=> LiveClient(c)) /\ disturbed \subseteq disturbed'
    BY <2>1 DEF MadeFor, LiveClient
  <2>3. \A q \in Callers \ {p} : Uploads(q, o)' <=> Uploads(q, o)
    BY <2>1 DEF Uploads
  <2>4. ~Uploads(p, o)
    BY <2>1 DEF Uploads
  <2>5. CASE <<d, l>> # o
    <3>1. ~Uploads(p, o)'
      BY <2>1, <2>5 DEF Uploads
    <3> QED BY <1>1, <2>1, <2>2, <2>3, <2>4, <3>1, KeyAlone
  <2>6. CASE <<d, l>> = o
    <3> SUFFICES ASSUME o \notin disturbed' PROVE KeyInv(c, k)'
      BY DEF KeyInv
    <3>1. \A q \in Callers : ~Uploads(q, o)
      BY <1>1, <2>1, <2>6 DEF SameKey, Uploads
    <3>2. \A q \in Callers : Uploads(q, o)' => q = p /\ call'[q].stage = "lookup"
      BY <2>1, <2>3, <3>1
    <3>3. OneUpload(o)'
      BY <3>2 DEF OneUpload
    <3>4. LiveClient(c) /\ client[c] # Absent /\ o \notin disturbed
      BY <2>1, <2>2, <2>6 DEF LiveClient
    <3>5. KeyKept(o)
      BY <1>1, <3>4 DEF KeyInv
    <3>6. KeyKept(o)'
      BY <2>1, <2>2, <3>1, <3>2, <3>5 DEF KeyKept, Remembers
    <3> QED BY <2>1, <2>2, <3>3, <3>4, <3>6 DEF KeyInv
  <2> QED BY <2>5, <2>6
<1>3. ASSUME Lookup(p) \/ Refuse(p) PROVE KeyInv(c, k)'
  <2>1. /\ call[p].stage \in {"lookup", "store"} /\ \A q \in Callers \ {p} : call'[q] = call[q]
        /\ UNCHANGED <<source, client, files, remembered, disturbed, unchecked>>
    BY <1>1, <1>3 DEF Lookup, Refuse, Finish
  <2>2. MadeFor(o)' = MadeFor(o) /\ (LiveClient(c)' <=> LiveClient(c))
    BY <2>1 DEF MadeFor, LiveClient
  <2>3. \A q \in Callers \ {p} : Uploads(q, o)' <=> Uploads(q, o)
    BY <2>1 DEF Uploads
  <2>4. CASE call'[p] = Idle \/ call[p].owner # o
    <3>1. ~Uploads(p, o)'
      BY <1>1, <1>3, <2>1, <2>4 DEF Uploads, Lookup, Refuse, Finish
    <3> QED BY <1>1, <2>1, <2>2, <2>3, <3>1, KeyAlone
  <2>5. CASE call'[p] # Idle /\ call[p].owner = o
    <3> SUFFICES ASSUME o \notin disturbed PROVE KeyInv(c, k)'
      BY <2>1 DEF KeyInv
    <3>1. /\ call[p].stage = "lookup" /\ ~Remembers(o)
          /\ call'[p] = [call[p] EXCEPT !.stage = "store"]
      BY <1>1, <1>3, <2>5 DEF Lookup, Refuse, Finish, Remembers
    <3>2. call'[p].stage = "store" /\ call'[p].owner = o /\ Uploads(p, o) /\ Uploads(p, o)'
      BY <2>5, <3>1 DEF Uploads
    <3>3. OneUpload(o) /\ OneUpload(o)' /\ \A q \in Callers : Uploads(q, o) => q = p
      BY <1>1, <2>3, <3>2 DEF KeyInv, OneUpload
    <3>4. client[c] # Absent
      BY <1>1, <3>2 DEF KeyInv
    <3>5. ASSUME LiveClient(c) PROVE KeyKept(o)'
      <4>1. KeyKept(o)
        BY <1>1, <3>5 DEF KeyInv
      <4>2. MadeFor(o) = {}
        BY <3>1, <3>3, <4>1 DEF KeyKept
      <4> QED BY <2>1, <2>2, <2>3, <3>1, <3>2, <3>3, <4>2 DEF KeyKept, Remembers
    <3> QED BY <1>1, <2>1, <2>2, <3>1, <3>3, <3>4, <3>5 DEF KeyInv, Remembers
  <2> QED BY <2>4, <2>5
<1>4. ASSUME Store(p) PROVE KeyInv(c, k)'
  <2> DEFINE n == Len(files) + 1
             row == [owner |-> call[p].owner, content |-> call[p].content, import |-> 0, rows |-> <<>>,
                     scheduled |-> FALSE]
  <2>1. /\ call[p].stage = "store" /\ (\A q \in Callers \ {p} : call'[q] = call[q])
        /\ call'[p] = [stage |-> "record", owner |-> call[p].owner, content |-> call[p].content, file |-> n]
        /\ files' = Append(files, row)
        /\ UNCHANGED <<source, client, remembered, disturbed, unchecked>>
    BY <1>1, <1>4 DEF Store
  <2>7. row.owner = call[p].owner /\ row.content = call[p].content
    OBVIOUS
  <2> HIDE DEF row
  <2>8. /\ files'[n] = row
        /\ \A m \in DOMAIN files : files'[m] = files[m] /\ m # n
        /\ MadeFor(o)' = IF row.owner = o THEN MadeFor(o) \cup {n} ELSE MadeFor(o)
    <3>1. ExternalShape /\ files' = Append(files, row)
      BY <2>1
    <3> QED BY <3>1, FilesAppend
  <2> HIDE DEF n
  <2>2. /\ files'[n].content = call[p].content
        /\ \A m \in DOMAIN files : files'[m] = files[m] /\ m # n
        /\ MadeFor(o)' = IF call[p].owner = o THEN MadeFor(o) \cup {n} ELSE MadeFor(o)
    BY <2>7, <2>8
  <2>9. UNCHANGED <<client, remembered, disturbed>>
    BY <2>1
  <2>3. \A q \in Callers \ {p} : Uploads(q, o)' <=> Uploads(q, o)
    BY <2>1 DEF Uploads
  <2>4. LiveClient(c)' <=> LiveClient(c)
    BY <2>1 DEF LiveClient
  <2>5. CASE call[p].owner # o
    <3>1. ~Uploads(p, o) /\ ~Uploads(p, o)'
      BY <2>1, <2>5 DEF Uploads
    <3>2. MadeFor(o)' = MadeFor(o) /\ \A m \in MadeFor(o) : files'[m].content = files[m].content
      BY <2>2, <2>5 DEF MadeFor
    <3>3. \A q \in Callers \ {p} : call'[q] = call[q]
      BY <2>1
    <3> QED BY <1>1, <2>3, <2>4, <2>9, <3>1, <3>2, <3>3, KeyAlone
  <2>6. CASE call[p].owner = o
    <3> SUFFICES ASSUME o \notin disturbed PROVE KeyInv(c, k)'
      BY <2>1 DEF KeyInv
    <3>1. Uploads(p, o) /\ Uploads(p, o)'
      BY <2>1, <2>6 DEF Uploads
    <3>2. OneUpload(o)' /\ \A q \in Callers : Uploads(q, o)' => q = p
      BY <1>1, <2>3, <3>1 DEF KeyInv, OneUpload
    <3>3. client[c] # Absent
      BY <1>1, <3>1 DEF KeyInv
    <3>4. ASSUME LiveClient(c) PROVE KeyKept(o)'
      <4>1. MadeFor(o) = {} /\ ~Remembers(o)
        BY <1>1, <2>1, <3>1, <3>4 DEF KeyInv, KeyKept
      <4>2. MadeFor(o)' = {n} /\ ~Remembers(o)'
        BY <2>1, <2>2, <2>6, <4>1 DEF Remembers
      <4>3. \A q \in Callers : Uploads(q, o)' => call'[q].stage = "record" /\ call'[q].file = n
                                              /\ call'[q].content = call[p].content
        BY <2>1, <3>2
      <4> QED BY <2>2, <3>1, <4>2, <4>3 DEF KeyKept, Remembers
    <3> QED BY <1>1, <2>1, <2>4, <3>2, <3>3, <3>4 DEF KeyInv, Remembers
  <2> QED BY <2>5, <2>6
<1>5. ASSUME Record(p) PROVE KeyInv(c, k)'
  <2> DEFINE record == [owner |-> call[p].owner, content |-> call[p].content, file |-> call[p].file]
             valid == call[p].owner[2] = NoKey \/ client[call[p].owner[1]].st # "deleted"
  <2>1. /\ call[p].stage = "record" /\ (\A q \in Callers \ {p} : call'[q] = call[q]) /\ call'[p] = Idle
        /\ remembered' = IF call[p].owner[2] # NoKey /\ valid THEN remembered \cup {record} ELSE remembered
        /\ files' = [files EXCEPT ![call[p].file].scheduled = valid]
        /\ UNCHANGED <<source, client, disturbed, unchecked>>
    BY <1>1, <1>5 DEF Record, Finish
  <2>2. /\ MadeFor(o)' = MadeFor(o)
        /\ \A m \in DOMAIN files : files'[m].content = files[m].content
    BY <2>1 DEF MadeFor, ExternalShape
  <2>3. \A q \in Callers \ {p} : Uploads(q, o)' <=> Uploads(q, o)
    BY <2>1 DEF Uploads
  <2>4. (LiveClient(c)' <=> LiveClient(c)) /\ ~Uploads(p, o)'
    BY <2>1 DEF LiveClient, Uploads
  <2>5. CASE call[p].owner # o
    <3>1. ~Uploads(p, o)
      BY <2>5 DEF Uploads
    <3>2. \A r : r.owner = o => (r \in remembered' <=> r \in remembered)
      BY <2>1, <2>5
    <3>3. \A m \in MadeFor(o) : files'[m].content = files[m].content
      BY <2>2 DEF MadeFor
    <3>4. UNCHANGED <<client, disturbed>> /\ \A q \in Callers \ {p} : call'[q] = call[q]
      BY <2>1
    <3> QED BY <1>1, <2>2, <2>3, <2>4, <3>1, <3>2, <3>3, <3>4, KeyAlone
  <2>6. CASE call[p].owner = o
    <3> SUFFICES ASSUME o \notin disturbed PROVE KeyInv(c, k)'
      BY <2>1 DEF KeyInv
    <3>1. Uploads(p, o)
      BY <2>1, <2>6 DEF Uploads
    <3>2. OneUpload(o)' /\ \A q \in Callers : ~Uploads(q, o)'
      BY <1>1, <2>3, <2>4, <3>1 DEF KeyInv, OneUpload
    <3>3. client[c] # Absent
      BY <1>1, <3>1 DEF KeyInv
    <3>4. ASSUME LiveClient(c) PROVE KeyKept(o)'
      <4>1. /\ MadeFor(o) = {call[p].file} /\ ~Remembers(o)
            /\ files[call[p].file].content = call[p].content
        BY <1>1, <2>1, <3>1, <3>4 DEF KeyInv, KeyKept
      <4>2. remembered' = remembered \cup {record} /\ record.owner = o
        BY <1>1, <2>1, <2>6, <3>4 DEF LiveClient
      <4>3. \A r \in remembered' : r.owner = o => r = record
        BY <4>1, <4>2 DEF Remembers
      <4>4. Remembers(o)'
        BY <4>2 DEF Remembers
      <4>5. call[p].file \in DOMAIN files
        BY <4>1 DEF MadeFor
      <4> QED BY <2>2, <3>2, <4>1, <4>3, <4>4, <4>5 DEF KeyKept
    <3>5. ASSUME ~LiveClient(c) PROVE ~Remembers(o)'
      <4>1. client[c].st = "deleted" /\ ~Remembers(o)
        BY <1>1, <3>3, <3>5 DEF KeyInv, LiveClient
      <4>2. remembered' = remembered
        BY <1>1, <2>1, <2>6, <4>1
      <4> QED BY <4>1, <4>2 DEF Remembers
    <3> QED BY <2>1, <2>4, <3>2, <3>3, <3>4, <3>5 DEF KeyInv
  <2> QED BY <2>5, <2>6
<1> QED BY <1>2, <1>3, <1>4, <1>5

\* The steps of imports, clients and data sources, and requests that break off.
LEMMA OthersKeepKeys ==
    ASSUME ExternalInv, NEW c \in Clients, NEW k \in Keys,
           \/ \E p \in Callers :
                \/ \E s \in Sources, t \in Tables : StartImport(p, s, t)
                \/ ImportBatch(p) \/ ImportFails(p) \/ ImportAnswer(p)
                \/ \E s \in Sources : StartRemoveSource(p, s)
                \/ RemoveSource(p)
                \/ \E d \in Clients, a \in SUBSET Sources : StartCreateClient(p, d, a)
                \/ CreateClient(p) \/ BreakOff(p)
           \/ \E s \in Sources : CreateSource(s) \/ \E st \in {"enabled", "disabled"} : UpdateSource(s, st)
           \/ \E d \in Clients : \/ \E on \in BOOLEAN, a \in SUBSET Sources : UpdateClient(d, on, a)
                                 \/ DeleteClient(d)
    PROVE  KeyInv(c, k)'
<1> DEFINE o == <<c, k>>
<1> USE CallTypes DEF ExternalInv
<1>1. DOMAIN call = Callers /\ KeyInv(c, k) /\ k # NoKey /\ client \in [Clients -> {Absent} \cup ClientRows]
  BY ExternalAssumption DEF ExternalShape, KeysInv
<1>s. UNCHANGED files => MadeFor(o)' = MadeFor(o) /\ \A n \in MadeFor(o) : files'[n].content = files[n].content
  BY DEF MadeFor
\* Requests that are no uploads, before and after.
<1>2. ASSUME NEW p \in Callers, \A q \in Callers \ {p} : call'[q] = call[q], ~Uploads(p, o), ~Uploads(p, o)',
             UNCHANGED <<client, remembered, disturbed>>,
             MadeFor(o)' = MadeFor(o) /\ \A n \in MadeFor(o) : files'[n].content = files[n].content
      PROVE  KeyInv(c, k)'
  <2>1. \A q \in Callers : \/ Uploads(q, o)' /\ call'[q] = call[q]
                           \/ ~Uploads(q, o)' /\ ~Uploads(q, o)
    BY <1>2 DEF Uploads
  <2>2. LiveClient(c)' <=> LiveClient(c)
    BY <1>2 DEF LiveClient
  <2> QED BY <1>1, <1>2, <2>1, <2>2, KeyAlone
<1>3. ASSUME NEW p \in Callers, (\E s \in Sources, t \in Tables : StartImport(p, s, t)) \/ ImportFails(p)
             \/ (\E s \in Sources : StartRemoveSource(p, s)) \/ RemoveSource(p)
             \/ (\E d \in Clients, a \in SUBSET Sources : StartCreateClient(p, d, a))
      PROVE  KeyInv(c, k)'
  <2>1. /\ \A q \in Callers \ {p} : call'[q] = call[q]
        /\ call[p].stage \in {"idle", "import", "remove"} /\ call'[p].stage \in {"idle", "import", "remove", "create"}
        /\ UNCHANGED <<files, client, remembered, disturbed>>
    BY <1>1, <1>3 DEF StartImport, ImportFails, StartRemoveSource, RemoveSource, StartCreateClient, Begin, Finish, Free
  <2> QED BY <1>2, <1>s, <2>1 DEF Uploads
<1>4. ASSUME NEW p \in Callers, ImportBatch(p) PROVE KeyInv(c, k)'
  <2> DEFINE row == [owner |-> <<>>, content |-> <<>>, rows |-> Head(call[p].left),
                     import |-> IF call[p].done = <<>> THEN Len(files) + 1 ELSE call[p].done[1],
                     scheduled |-> FALSE]
  <2>1. /\ \A q \in Callers \ {p} : call'[q] = call[q]
        /\ call[p].stage = "import" /\ call'[p].stage = "import"
        /\ UNCHANGED <<client, remembered, disturbed>> /\ files' = Append(files, row)
    BY <1>1, <1>4 DEF ImportBatch
  <2>2. row.owner # o
    OBVIOUS
  <2> HIDE DEF row
  <2>3. MadeFor(o)' = MadeFor(o) /\ \A n \in DOMAIN files : files'[n] = files[n]
    <3>1. ExternalShape /\ files' = Append(files, row)
      BY <2>1
    <3> QED BY <2>2, <3>1, FilesAppend
  <2>4. \A n \in MadeFor(o) : files'[n].content = files[n].content
    BY <2>3 DEF MadeFor
  <2>5. UNCHANGED <<client, remembered, disturbed>> /\ ~Uploads(p, o) /\ ~Uploads(p, o)'
    BY <2>1 DEF Uploads
  <2>6. \A q \in Callers \ {p} : call'[q] = call[q]
    BY <2>1
  <2> QED BY <1>2, <2>3, <2>4, <2>5, <2>6
<1>5. ASSUME NEW p \in Callers, ImportAnswer(p) PROVE KeyInv(c, k)'
  <2>1. /\ \A q \in Callers \ {p} : call'[q] = call[q]
        /\ call[p].stage = "import" /\ call'[p].stage = "idle" /\ UNCHANGED <<client, remembered, disturbed>>
    BY <1>1, <1>5 DEF ImportAnswer, Finish
  <2>2. MadeFor(o)' = MadeFor(o) /\ \A n \in DOMAIN files : files'[n].content = files[n].content
    <3>1. ExternalShape
      OBVIOUS
    <3> QED BY <1>5, <3>1, FilesSame DEF ImportAnswer
  <2>3. \A n \in MadeFor(o) : files'[n].content = files[n].content
    BY <2>2 DEF MadeFor
  <2> QED BY <1>2, <2>1, <2>2, <2>3 DEF Uploads
<1>6. ASSUME NEW p \in Callers, CreateClient(p) PROVE KeyInv(c, k)'
  <2>1. /\ \A q \in Callers \ {p} : call'[q] = call[q]
        /\ call[p].stage = "create" /\ call'[p].stage = "idle" /\ UNCHANGED <<files, remembered, disturbed>>
        /\ client'[c] = client[c] \/ client[c] = Absent
    BY <1>1, <1>6 DEF CreateClient, Finish
  <2>2. CASE client'[c] = client[c]
    <3>1. \A q \in Callers : \/ Uploads(q, o)' /\ call'[q] = call[q]
                             \/ ~Uploads(q, o)' /\ ~Uploads(q, o)
      BY <2>1 DEF Uploads
    <3>2. LiveClient(c)' <=> LiveClient(c)
      BY <2>2 DEF LiveClient
    <3> QED BY <1>1, <1>s, <2>1, <2>2, <3>1, <3>2, KeyAlone
  <2>3. CASE client[c] = Absent
    <3> SUFFICES ASSUME o \notin disturbed PROVE KeyInv(c, k)'
      BY <2>1 DEF KeyInv
    <3>1. /\ MadeFor(o) = {} /\ ~Remembers(o) /\ \A q \in Callers : ~Uploads(q, o)
      BY <1>1, <2>3 DEF KeyInv, LiveClient
    <3>2. MadeFor(o)' = {} /\ ~Remembers(o)' /\ \A q \in Callers : ~Uploads(q, o)'
      BY <2>1, <3>1 DEF MadeFor, Remembers, Uploads
    <3> QED BY <3>2 DEF KeyInv, OneUpload, KeyKept, Remembers
  <2> QED BY <2>1, <2>2, <2>3
<1>7. ASSUME NEW p \in Callers, BreakOff(p) PROVE KeyInv(c, k)'
  <2>1. /\ \A q \in Callers \ {p} : call'[q] = call[q]
        /\ call'[p].stage = "idle" /\ UNCHANGED <<files, client, remembered>> /\ disturbed \subseteq disturbed'
    BY <1>1, <1>7 DEF BreakOff, Finish
  <2>2. Uploads(p, o) /\ call[p].stage = "record" => o \in disturbed'
    BY <1>1, <1>7 DEF BreakOff, Uploads
  <2>3. \A q \in Callers : \/ Uploads(q, o)' /\ call'[q] = call[q]
                           \/ ~Uploads(q, o)' /\ (Uploads(q, o) /\ call[q].stage = "record" => o \in disturbed')
    BY <2>1, <2>2 DEF Uploads
  <2>4. LiveClient(c)' <=> LiveClient(c)
    BY <2>1 DEF LiveClient
  <2> QED BY <1>1, <1>s, <2>1, <2>3, <2>4, KeyAlone
<1>8. ASSUME NEW s \in Sources, CreateSource(s) \/ \E st \in {"enabled", "disabled"} : UpdateSource(s, st)
      PROVE  KeyInv(c, k)'
  <2>1. UNCHANGED <<files, client, remembered, disturbed, call>>
    BY <1>8 DEF CreateSource, UpdateSource
  <2> QED BY <1>1, <1>s, <2>1, KeyAlone DEF Uploads, LiveClient
<1>9. ASSUME NEW d \in Clients, \/ \E on \in BOOLEAN, a \in SUBSET Sources : UpdateClient(d, on, a)
                                \/ DeleteClient(d) /\ d # c
      PROVE  KeyInv(c, k)'
  <2>1. UNCHANGED <<files, disturbed, call>>
    BY <1>9 DEF UpdateClient, DeleteClient
  <2>2. (LiveClient(c)' <=> LiveClient(c)) /\ (client'[c] = Absent <=> client[c] = Absent)
    <3>1. CASE c # d
      <4>1. client'[c] = client[c]
        BY <1>1, <1>9, <3>1 DEF UpdateClient, DeleteClient
      <4> QED BY <4>1 DEF LiveClient
    <3>2. CASE c = d
      <4>1. PICK on \in BOOLEAN, a \in SUBSET Sources : UpdateClient(d, on, a)
        BY <1>9, <3>2
      <4>2. LiveClient(c) /\ client[c] \in ClientRows /\ client'[c].st \in {"on", "off"} /\ client'[c] \in ClientRows
        BY <1>1, <3>2, <4>1 DEF UpdateClient, LiveClient, ClientRows
      <4> QED BY <4>2 DEF LiveClient, ClientRows, Absent
    <3> QED BY <3>1, <3>2
  <2>3. \A r : r.owner = o => (r \in remembered' <=> r \in remembered)
    <3>1. o[1] = c
      OBVIOUS
    <3>2. CASE DeleteClient(d) /\ d # c
      <4> SUFFICES ASSUME NEW r, r.owner = o PROVE r \in remembered' <=> r \in remembered
        OBVIOUS
      <4>1. r.owner[1] # d
        BY <3>1, <3>2
      <4> QED BY <3>2, <4>1 DEF DeleteClient
    <3>3. CASE \E on \in BOOLEAN, a \in SUBSET Sources : UpdateClient(d, on, a)
      <4>1. remembered' = remembered
        BY <3>3 DEF UpdateClient
      <4> QED BY <4>1
    <3> QED BY <1>9, <3>2, <3>3
  <2> QED BY <1>1, <1>s, <2>1, <2>2, <2>3, KeyAlone DEF Uploads
<1>10. ASSUME DeleteClient(c) PROVE KeyInv(c, k)'
  <2>1. UNCHANGED <<files, disturbed, call>> /\ ~LiveClient(c)' /\ client[c] # Absent /\ client'[c] # Absent
    BY <1>1, <1>10 DEF DeleteClient, LiveClient, ClientRows, Absent
  <2>2. ~Remembers(o)'
    BY <1>10 DEF DeleteClient, Remembers
  <2>3. OneUpload(o)' <=> OneUpload(o)
    BY <2>1 DEF OneUpload, Uploads
  <2> QED BY <1>1, <2>1, <2>2, <2>3 DEF KeyInv
<1> QED BY <1>3, <1>4, <1>5, <1>6, <1>7, <1>8, <1>9, <1>10

\* The shape of the state, one kind of step at a time.
LEMMA CallKept ==
    ASSUME ExternalShape, NEW p \in Callers, NEW x, call' = [call EXCEPT ![p] = x],
           x \in ClientCalls \/ ("stage" \in DOMAIN x /\ x.stage = "import")
    PROVE  DOMAIN call' = Callers /\ \A q \in Callers : \/ call'[q] \in ClientCalls
                                                        \/ "stage" \in DOMAIN call'[q] /\ call'[q].stage = "import"
  BY DEF ExternalShape

LEMMA ShapeKept ==
    ASSUME ExternalShape, ExternalNext PROVE ExternalShape'
<1> USE CallTypes
<1> DEFINE FileRows == (\E S : files \in Seq(S)) /\ \A n \in DOMAIN files : {"owner", "content"} \subseteq DOMAIN files[n]
           TablesKeep == /\ source \in [Sources -> {"unused", "enabled", "disabled", "deleted"}]
                      /\ client \in [Clients -> {Absent} \cup ClientRows]
           CallsKeep == DOMAIN call = Callers
                    /\ \A q \in Callers : \/ call[q] \in ClientCalls
                                          \/ "stage" \in DOMAIN call[q] /\ call[q].stage = "import"
<1>1. ExternalShape <=> TablesKeep /\ CallsKeep /\ FileRows
  BY DEF ExternalShape
<1>2. TablesKeep' /\ CallsKeep' /\ FileRows' => ExternalShape'
  BY DEF ExternalShape
<1>3. UNCHANGED files => FileRows'
  BY <1>1
<1>4. UNCHANGED call => CallsKeep'
  BY <1>1
<1>5. UNCHANGED <<source, client>> => TablesKeep'
  BY <1>1
<1>6. Idle \in ClientCalls
  BY DEF ClientCalls
<1>7. ASSUME NEW p \in Callers, Finish(p) PROVE CallsKeep'
  BY <1>6, <1>7, CallKept DEF Finish
<1>8. ASSUME NEW p \in Callers, NEW c \in Clients, NEW k \in Keys \cup {NoKey}, NEW x \in Contents, StartUpload(p, c, k, x)
      PROVE  ExternalShape'
  <2>1. [stage |-> "lookup", owner |-> <<c, k>>, content |-> x] \in ClientCalls
    BY DEF ClientCalls, UploadOwners
  <2>2. CallsKeep'
    BY <1>8, <2>1, CallKept DEF StartUpload, Begin
  <2> QED BY <1>2, <1>3, <1>5, <1>8, <2>2 DEF StartUpload
<1>9. ASSUME NEW p \in Callers, Lookup(p) PROVE ExternalShape'
  <2>1. [call[p] EXCEPT !.stage = "store"] \in ClientCalls
    BY <1>9 DEF Lookup, ClientCalls
  <2>2. call' = [call EXCEPT ![p] = [call[p] EXCEPT !.stage = "store"]] => CallsKeep'
    BY <2>1, CallKept
  <2>3. CallsKeep'
    BY <1>7, <1>9, <2>2 DEF Lookup
  <2> QED BY <1>2, <1>3, <1>5, <1>9, <2>3 DEF Lookup
<1>10. ASSUME NEW p \in Callers, Store(p) PROVE ExternalShape'
  <2> DEFINE row == [owner |-> call[p].owner, content |-> call[p].content, import |-> 0, rows |-> <<>>,
                     scheduled |-> FALSE]
             next == [stage |-> "record", owner |-> call[p].owner, content |-> call[p].content, file |-> Len(files) + 1]
  <2>1. {"owner", "content"} \subseteq DOMAIN row
    OBVIOUS
  <2>2. files' = Append(files, row) /\ call' = [call EXCEPT ![p] = next] /\ UNCHANGED <<source, client>>
    BY <1>10 DEF Store
  <2> HIDE DEF row
  <2>3. FileRows' /\ Len(files) + 1 \in Nat
    BY <1>1, <2>1, <2>2, FilesAppend
  <2>4. next \in ClientCalls
    BY <1>10, <2>3 DEF Store, ClientCalls
  <2> HIDE DEF next
  <2>5. CallsKeep'
    BY <2>2, <2>4, CallKept
  <2> QED BY <1>2, <1>5, <2>2, <2>3, <2>5
<1>11. ASSUME NEW p \in Callers, Refuse(p) \/ ImportFails(p) \/ BreakOff(p) PROVE ExternalShape'
  BY <1>2, <1>3, <1>5, <1>7, <1>11 DEF Refuse, ImportFails, BreakOff
<1>12. ASSUME NEW p \in Callers, Record(p) \/ ImportAnswer(p) PROVE ExternalShape'
  <2>1. /\ files' = [n \in DOMAIN files |-> files'[n]]
        /\ \A n \in DOMAIN files : \/ files'[n] = files[n]
                                   \/ \E b : files'[n] = [files[n] EXCEPT !.scheduled = b]
    <3>1. CASE Record(p)
      <4>1. PICK b : files' = [files EXCEPT ![call[p].file].scheduled = b]
        BY <3>1 DEF Record
      <4> QED BY <1>1, <4>1
    <3>2. CASE ImportAnswer(p)
      BY <3>2 DEF ImportAnswer
    <3> QED BY <1>12, <3>1, <3>2
  <2>2. FileRows'
    BY <2>1, FilesSame
  <2>3. Finish(p) /\ UNCHANGED <<source, client>>
    BY <1>12 DEF Record, ImportAnswer
  <2> QED BY <1>2, <1>5, <1>7, <2>2, <2>3
<1>13. ASSUME NEW p \in Callers, NEW s \in Sources, NEW t \in Tables, StartImport(p, s, t) PROVE ExternalShape'
  <2> DEFINE next == [stage |-> "import", table |-> FirstRows(t), left |-> Batches(FirstRows(t)), done |-> <<>>]
  <2>1. "stage" \in DOMAIN next /\ next.stage = "import"
    OBVIOUS
  <2>2. call' = [call EXCEPT ![p] = next] /\ UNCHANGED <<source, client, files>>
    BY <1>13 DEF StartImport, Begin
  <2> HIDE DEF next
  <2>3. CallsKeep'
    BY <2>1, <2>2, CallKept
  <2> QED BY <1>2, <1>3, <1>5, <2>2, <2>3
<1>14. ASSUME NEW p \in Callers, ImportBatch(p) PROVE ExternalShape'
  <2> DEFINE n == Len(files) + 1
             row == [owner |-> <<>>, content |-> <<>>, rows |-> Head(call[p].left),
                     import |-> IF call[p].done = <<>> THEN n ELSE call[p].done[1], scheduled |-> FALSE]
             next == [[call[p] EXCEPT !.left = Tail(@)] EXCEPT !.done = Append(@, n)]
  <2>1. {"owner", "content"} \subseteq DOMAIN row
    OBVIOUS
  <2>2. files' = Append(files, row) /\ UNCHANGED <<source, client>>
    BY <1>14 DEF ImportBatch
  <2> HIDE DEF row
  <2>3. FileRows'
    BY <1>1, <2>1, <2>2, FilesAppend
  <2> HIDE DEF n
  <2>4. \A q \in Callers \ {p} : call'[q] = call[q]
    BY <1>14 DEF ImportBatch, ExternalShape
  <2>5. DOMAIN call' = Callers /\ "stage" \in DOMAIN call'[p] /\ call'[p].stage = "import"
    BY <1>1, <1>14 DEF ImportBatch
  <2>6. CallsKeep'
    BY <1>1, <2>4, <2>5
  <2> QED BY <1>2, <1>5, <2>2, <2>3, <2>6
<1>15. ASSUME NEW p \in Callers, NEW s \in Sources, StartRemoveSource(p, s) PROVE ExternalShape'
  <2>1. [stage |-> "remove", source |-> s] \in ClientCalls
    BY DEF ClientCalls
  <2>2. CallsKeep'
    BY <1>15, <2>1, CallKept DEF StartRemoveSource, Begin
  <2> QED BY <1>2, <1>3, <1>5, <1>15, <2>2 DEF StartRemoveSource
<1>16. ASSUME NEW p \in Callers, RemoveSource(p) PROVE ExternalShape'
  <2>1. TablesKeep'
    BY <1>1, <1>16 DEF RemoveSource
  <2> QED BY <1>2, <1>3, <1>7, <1>16, <2>1 DEF RemoveSource
<1>17. ASSUME NEW p \in Callers, NEW c \in Clients, NEW a \in SUBSET Sources, StartCreateClient(p, c, a) PROVE ExternalShape'
  <2>1. [stage |-> "create", client |-> c, allowed |-> a] \in ClientCalls
    BY DEF ClientCalls
  <2>2. CallsKeep'
    BY <1>17, <2>1, CallKept DEF StartCreateClient, Begin
  <2> QED BY <1>2, <1>3, <1>5, <1>17, <2>2 DEF StartCreateClient
<1>18. ASSUME NEW p \in Callers, CreateClient(p) PROVE ExternalShape'
  <2>1. call[p].client \in Clients /\ call[p].allowed \in SUBSET Sources
    BY <1>18 DEF CreateClient
  <2>2. [st |-> "on", allowed |-> call[p].allowed] \in ClientRows
    BY <2>1 DEF ClientRows
  <2>3. TablesKeep'
    BY <1>1, <1>18, <2>2 DEF CreateClient
  <2> QED BY <1>2, <1>3, <1>7, <1>18, <2>3 DEF CreateClient
<1>19. ASSUME NEW s \in Sources, CreateSource(s) \/ \E st \in {"enabled", "disabled"} : UpdateSource(s, st)
       PROVE  ExternalShape'
  <2>1. TablesKeep'
    BY <1>1, <1>19 DEF CreateSource, UpdateSource
  <2> QED BY <1>2, <1>3, <1>4, <1>19, <2>1 DEF CreateSource, UpdateSource
<1>20. ASSUME NEW c \in Clients, (\E on \in BOOLEAN, a \in SUBSET Sources : UpdateClient(c, on, a)) \/ DeleteClient(c)
       PROVE  ExternalShape'
  <2>1. TablesKeep'
    <3>1. client[c] \in ClientRows
      BY <1>1, <1>20 DEF UpdateClient, DeleteClient
    <3>2. CASE DeleteClient(c)
      BY <1>1, <3>1, <3>2 DEF DeleteClient, ClientRows
    <3>3. ASSUME NEW on \in BOOLEAN, NEW a \in SUBSET Sources, UpdateClient(c, on, a) PROVE TablesKeep'
      <4>1. [[client[c] EXCEPT !.st = IF on THEN "on" ELSE "off"] EXCEPT !.allowed = a] \in ClientRows
        BY <3>1 DEF ClientRows
      <4> QED BY <1>1, <3>3, <4>1 DEF UpdateClient
    <3> QED BY <1>20, <3>2, <3>3
  <2> QED BY <1>2, <1>3, <1>4, <1>20, <2>1 DEF UpdateClient, DeleteClient
<1> QED BY <1>8, <1>9, <1>10, <1>11, <1>12, <1>13, <1>14, <1>15, <1>16, <1>17, <1>18, <1>19, <1>20 DEF ExternalNext

LEMMA SourcesKept ==
    ASSUME ExternalShape, SourcesInv, ExternalNext PROVE SourcesInv'
<1> USE CallTypes
<1> DEFINE Lists(c, s) == LiveClient(c) /\ s \in client[c].allowed \ unchecked
           Removes(s) == \E p \in Callers : call[p].stage = "remove" /\ call[p].source = s
<1>1. SourcesInv <=> \A c \in Clients : \A s : Lists(c, s) => Listed(s) /\ ~Removes(s)
  BY DEF SourcesInv, ListedSourcesExist, LiveClient
<1>2. SourcesInv' <=> \A c \in Clients : \A s : Lists(c, s)' => Listed(s)' /\ ~Removes(s)'
  BY DEF SourcesInv, ListedSourcesExist, LiveClient
<1>s. /\ DOMAIN call = Callers /\ DOMAIN source = Sources /\ DOMAIN client = Clients
      /\ \A c \in Clients : LiveClient(c) => client[c] \in ClientRows
      /\ \A c \in Clients : ~LiveClient(c) /\ client[c] # Absent => client[c] \in ClientRows
  BY DEF ExternalShape, LiveClient
\* Steps that leave the rows alone and start no deletion.
<1>3. ASSUME NEW p \in Callers, \A q \in Callers \ {p} : call'[q] = call[q], call'[p].stage # "remove",
             UNCHANGED <<client, source, unchecked>>
      PROVE  SourcesInv'
  <2>1. \A s : Removes(s)' => Removes(s)
    BY <1>3
  <2>2. \A c \in Clients : \A s : (Lists(c, s)' <=> Lists(c, s)) /\ (Listed(s)' <=> Listed(s))
    BY <1>3 DEF Listed, LiveClient
  <2> QED BY <1>1, <1>2, <2>1, <2>2
<1>4. ASSUME NEW p \in Callers,
             \/ \E c \in Clients, k \in Keys \cup {NoKey}, x \in Contents : StartUpload(p, c, k, x)
             \/ Lookup(p) \/ Store(p) \/ Refuse(p) \/ Record(p)
             \/ \E s \in Sources, t \in Tables : StartImport(p, s, t)
             \/ ImportBatch(p) \/ ImportFails(p) \/ ImportAnswer(p)
             \/ \E c \in Clients, a \in SUBSET Sources : StartCreateClient(p, c, a)
             \/ BreakOff(p)
      PROVE  SourcesInv'
  <2>1. /\ \A q \in Callers \ {p} : call'[q] = call[q]
        /\ call'[p].stage # "remove" /\ UNCHANGED <<client, source, unchecked>>
    BY <1>s, <1>4 DEF StartUpload, Lookup, Store, Refuse, Record, StartImport, ImportBatch, ImportFails,
                      ImportAnswer, StartCreateClient, BreakOff, Begin, Finish, Idle
  <2> QED BY <1>3, <2>1
<1>5. ASSUME NEW p \in Callers, NEW s \in Sources, StartRemoveSource(p, s) PROVE SourcesInv'
  <2>1. /\ \A q \in Callers \ {p} : call'[q] = call[q]
        /\ call'[p].source = s /\ UNCHANGED <<client, source, unchecked>>
        /\ \A c \in Clients : ~Lists(c, s)
    BY <1>s, <1>5 DEF StartRemoveSource, Begin, LiveClient
  <2>2. \A t : Removes(t)' => Removes(t) \/ t = s
    BY <2>1
  <2>3. \A c \in Clients : \A t : (Lists(c, t)' <=> Lists(c, t)) /\ (Listed(t)' <=> Listed(t))
    BY <2>1 DEF Listed, LiveClient
  <2> QED BY <1>1, <1>2, <2>1, <2>2, <2>3
<1>6. ASSUME NEW p \in Callers, RemoveSource(p) PROVE SourcesInv'
  <2>1. /\ \A q \in Callers \ {p} : call'[q] = call[q]
        /\ call[p].stage = "remove" /\ call'[p] = Idle /\ UNCHANGED <<client, unchecked>>
        /\ \A t : t # call[p].source => (Listed(t)' <=> Listed(t))
    BY <1>s, <1>6 DEF RemoveSource, Finish, Listed
  <2>2. \A t : Removes(t)' => Removes(t)
    BY <2>1 DEF Idle
  <2>3. \A c \in Clients : \A t : Lists(c, t)' => Lists(c, t) /\ t # call[p].source
    BY <1>1, <2>1 DEF LiveClient
  <2> QED BY <1>1, <1>2, <2>1, <2>2, <2>3
\* What create_client lists is there and nobody is deleting it, or it is unchecked.
<1>7. ASSUME NEW p \in Callers, CreateClient(p) PROVE SourcesInv'
  <2>1. /\ \A q \in Callers \ {p} : call'[q] = call[q]
        /\ call[p].stage = "create" /\ call'[p] = Idle /\ UNCHANGED source
    BY <1>s, <1>7 DEF CreateClient, Finish
  <2>2. /\ \A t : Removes(t)' => Removes(t)
        /\ \A t : Listed(t)' <=> Listed(t)
    BY <2>1 DEF Idle, Listed
  <2>3. CASE UNCHANGED <<client, unchecked>>
    BY <1>1, <1>2, <2>2, <2>3 DEF LiveClient
  <2>4. CASE client[call[p].client] = Absent
    <3> DEFINE new == call[p].client
    <3>1. /\ client' = [client EXCEPT ![new] = [st |-> "on", allowed |-> call[p].allowed]]
          /\ unchecked' = unchecked \cup {s \in call[p].allowed : s \in Removing \/ ~Listed(s)}
      BY <1>7, <2>4 DEF CreateClient
    <3>2. \A t : Removes(t) => t \in Removing
      BY DEF Removing
    <3>3. \A c \in Clients : \A t : Lists(c, t)' => Lists(c, t) \/ (Listed(t) /\ ~Removes(t))
      BY <1>s, <3>1, <3>2 DEF LiveClient
    <3> QED BY <1>1, <1>2, <2>2, <3>3
  <2> QED BY <1>7, <2>3, <2>4 DEF CreateClient
<1>8. ASSUME NEW s \in Sources, CreateSource(s) \/ \E st \in {"enabled", "disabled"} : UpdateSource(s, st)
      PROVE  SourcesInv'
  <2>1. UNCHANGED <<client, unchecked, call>>
    BY <1>8 DEF CreateSource, UpdateSource
  <2>3. \A t : Listed(t) => Listed(t)'
    <3>1. PICK st \in {"enabled", "disabled"} : source' = [source EXCEPT ![s] = st]
      BY <1>8 DEF CreateSource, UpdateSource
    <3> QED BY <1>s, <3>1 DEF Listed
  <2> QED BY <1>1, <1>2, <2>1, <2>3 DEF LiveClient
<1>9. ASSUME NEW d \in Clients, \/ \E on \in BOOLEAN, a \in SUBSET Sources : UpdateClient(d, on, a)
                                \/ DeleteClient(d)
      PROVE  SourcesInv'
  <2>1. UNCHANGED <<source, call>> /\ \A c \in Clients : \A t : Lists(c, t)' => Lists(c, t)
    <3>1. CASE DeleteClient(d)
      BY <1>s, <3>1 DEF DeleteClient, LiveClient, ClientRows
    <3>2. ASSUME NEW on \in BOOLEAN, NEW a \in SUBSET Sources, UpdateClient(d, on, a)
          PROVE  UNCHANGED <<source, call>> /\ \A c \in Clients : \A t : Lists(c, t)' => Lists(c, t)
      <4>1. /\ UNCHANGED <<source, call>> /\ LiveClient(d) /\ unchecked' = unchecked \cup (a \ client[d].allowed)
            /\ \A c \in Clients \ {d} : client'[c] = client[c]
            /\ client'[d].allowed = a
        BY <1>s, <3>2 DEF UpdateClient, LiveClient, ClientRows
      <4>2. \A c \in Clients \ {d} : \A t : Lists(c, t)' => Lists(c, t)
        BY <4>1 DEF LiveClient
      <4>3. \A t : Lists(d, t)' => Lists(d, t)
        BY <4>1
      <4> QED BY <4>1, <4>2, <4>3
    <3> QED BY <1>9, <3>1, <3>2
  <2>2. \A t : (Listed(t)' <=> Listed(t)) /\ (Removes(t)' <=> Removes(t))
    BY <2>1 DEF Listed
  <2> QED BY <1>1, <1>2, <2>1, <2>2
<1> QED BY <1>4, <1>5, <1>6, <1>7, <1>8, <1>9 DEF ExternalNext

LEMMA ExternalStart == ExternalInit => ExternalInv
<1> SUFFICES ASSUME ExternalInit PROVE ExternalInv
  OBVIOUS
<1>1. ExternalShape
  <2>1. files \in Seq({}) /\ DOMAIN files = {}
    BY DEF ExternalInit
  <2> QED BY <2>1 DEF ExternalInit, ExternalShape, ClientCalls
<1>2. KeysInv
  BY DEF ExternalInit, KeysInv, KeyInv, OneUpload, Uploads, Idle, LiveClient, Absent, MadeFor, Remembers
<1>3. SourcesInv
  BY DEF ExternalInit, SourcesInv, ListedSourcesExist, LiveClient, Absent, Idle
<1> QED BY <1>1, <1>2, <1>3 DEF ExternalInv

LEMMA ExternalStep == ExternalInv /\ [ExternalNext]_external_vars => ExternalInv'
<1> SUFFICES ASSUME ExternalInv, [ExternalNext]_external_vars PROVE ExternalInv'
  OBVIOUS
<1>1. CASE ExternalNext
  <2>1. ExternalShape' /\ SourcesInv'
    BY <1>1, ShapeKept, SourcesKept DEF ExternalInv
  <2>2. \A c \in Clients, k \in Keys : KeyInv(c, k)'
    BY <1>1, UploadKeepsKeys, OthersKeepKeys DEF ExternalNext
  <2> QED BY <2>1, <2>2 DEF ExternalInv, KeysInv
<1>2. CASE UNCHANGED external_vars
  <2>1. ExternalShape' /\ SourcesInv'
    BY <1>2 DEF ExternalInv, external_vars, ExternalShape, SourcesInv, ListedSourcesExist, LiveClient, Listed
  <2>2. ASSUME NEW c \in Clients, NEW k \in Keys PROVE KeyInv(c, k)'
    <3> DEFINE o == <<c, k>>
    <3>1. KeyInv(c, k) /\ UNCHANGED <<client, files, remembered, call, disturbed>>
      BY <1>2 DEF ExternalInv, KeysInv, external_vars
    <3>2. (LiveClient(c)' <=> LiveClient(c)) /\ MadeFor(o)' = MadeFor(o) /\ \A p \in Callers : Uploads(p, o)' <=> Uploads(p, o)
      BY <3>1 DEF LiveClient, MadeFor, Uploads
    <3> QED BY <3>1, <3>2, KeyAlone
  <2> QED BY <2>1, <2>2 DEF ExternalInv, KeysInv
<1> QED BY <1>1, <1>2

LEMMA OneUploadOneDocument ==
    ASSUME KeysInv, ExternalShape PROVE OneDocumentPerKey
<1> SUFFICES ASSUME NEW c \in Clients, NEW k \in Keys, <<c, k>> \notin disturbed
             PROVE  /\ LiveClient(c) => Cardinality(MadeFor(<<c, k>>)) <= 1
                    /\ \A r \in remembered : r.owner = <<c, k>> =>
                         MadeFor(<<c, k>>) = {r.file} /\ files[r.file].content = r.content
  BY DEF OneDocumentPerKey, MadeFor, LiveClient
<1> DEFINE o == <<c, k>>
<1>1. KeyInv(c, k)
  BY DEF KeysInv
<1>2. \A r \in remembered : r.owner = o => LiveClient(c)
  BY <1>1 DEF KeyInv, Remembers
<1>3. ASSUME LiveClient(c) PROVE Cardinality(MadeFor(o)) <= 1
  <2>1. KeyKept(o)
    BY <1>1, <1>3 DEF KeyInv
  <2>2. MadeFor(o) = {} \/ \E n : MadeFor(o) = {n}
    BY <2>1 DEF KeyKept, Remembers
  <2>3. CASE MadeFor(o) = {}
    <3>1. Cardinality(MadeFor(o)) = 0
      BY <2>3, FS_EmptySet
    <3> QED BY <3>1
  <2>4. ASSUME NEW n, MadeFor(o) = {n} PROVE Cardinality(MadeFor(o)) <= 1
    <3>1. Cardinality({n}) = 1
      BY FS_Singleton
    <3> QED BY <2>4, <3>1
  <2> QED BY <2>2, <2>3, <2>4
<1> QED BY <1>1, <1>2, <1>3 DEF KeyInv, KeyKept

\* A retried upload makes no second document, and what a client lists is there,
\* for any clients, keys, sources and overlapping requests (external.upload_doc,
\* find_idempotency, save_idempotency, delete_data_source).
THEOREM ClientsAndSourcesKept == ExternalSpec => []ExternalKept
<1>1. ExternalInv => ExternalKept
  BY OneUploadOneDocument DEF ExternalInv, ExternalKept, SourcesInv
<1> QED BY <1>1, ExternalStart, ExternalStep, PTL DEF ExternalSpec

-----------------------------------------------------------------------------
(* Hit-rate tests *)

\* The questions of each list, as a run puts them.
AskedOf(n) == [k \in DOMAIN lists[n] |-> [batch |-> n, order |-> k, label |-> lists[n][k]]]
AskedLists == {AskedOf(n) : n \in DOMAIN lists}
AsksList(asked) == asked[1].batch = 0 \/ clashed # {} \/ asked \in AskedLists
EditFields == {"stage", "case", "count", "batch"}
EditStages == {"editing", "deleting", "replacing"}
Edits(p, c) == job[p].stage \in EditStages /\ job[p].case = c

RequestFits(p) ==
    LET x == job[p] IN
    \/ x = NoJob
    \/ /\ x.stage \in EditStages /\ EditFields \subseteq DOMAIN x
       /\ x.stage # "editing" => "doomed" \in DOMAIN x
       /\ x.case \in made /\ x.count \in Nat /\ x.batch \in DOMAIN lists
    \/ x.stage \in {"cased", "read"} /\ x.case \in Cases
    \/ x.stage = "measuring" /\ (x.case \in Cases \/ x.todo = 0)
HitShape ==
    /\ cases \in [Cases -> Nat] /\ DOMAIN rows = Cases /\ DOMAIN job = Testers /\ made \subseteq Cases
    /\ lists \in Seq(Seq(Labels) \ {<<>>})
    /\ \A p \in Testers : "stage" \in DOMAIN job[p] /\ RequestFits(p)
    /\ \A i \in DOMAIN hit_runs : "asked" \in DOMAIN hit_runs[i]
    /\ \A c \in Cases : (Exists(c) => c \in made) /\ (~Exists(c) => rows[c] = {})

\* What an edit has loaded and is about to delete is what the case has, as long
\* as nobody else edits it.
EditsAlone(c) ==
    /\ \A p, q \in Testers : Edits(p, c) /\ Edits(q, c) => p = q
    /\ Exists(c) => \A p \in Testers : Edits(p, c) =>
         job[p].count = cases[c] /\ (job[p].stage # "editing" => job[p].doomed = rows[c])
CaseIsList(c) == Exists(c) => \E n \in DOMAIN lists : rows[c] = RowsOf(n, lists[n]) /\ cases[c] = Len(lists[n])

HitsInv ==
    /\ HitShape
    /\ \A c \in Cases \ clashed : EditsAlone(c) /\ CaseIsList(c)
    /\ \A p \in Testers : job[p].stage \in {"read", "measuring"} => AsksList(job[p].asked)
    /\ \A i \in DOMAIN hit_runs : AsksList(hit_runs[i].asked)

\* An increasing numbering of 1..L by itself is the identity.
LEMMA IncreasingIsIdentity ==
    ASSUME NEW L \in Nat, NEW g \in [1..L -> 1..L], \A i, j \in 1..L : i < j => g[i] < g[j]
    PROVE  \A i \in 1..L : g[i] = i
<1>1. \A i \in 1..L : i <= g[i]
  <2> SUFFICES ASSUME NEW x \in 1..L, g[x] < x PROVE FALSE
    OBVIOUS
  <2> DEFINE low == {i \in 1..L : g[i] < i}
  <2>1. PICK m \in low : \A i \in low : m <= i
    <3>1. low \subseteq Nat /\ x \in low
      OBVIOUS
    <3> HIDE DEF low
    <3> QED BY <3>1, LeastThereIs
  <2>2. m \in 1..L /\ g[m] \in 1..L /\ g[m] < m
    BY <2>1
  <2>3. g[m] \notin low
    BY <2>1, <2>2
  <2>4. g[g[m]] < g[m]
    BY <2>2
  <2> QED BY <2>2, <2>3, <2>4
<1>2. \A i \in 1..L : g[i] <= i
  <2> SUFFICES ASSUME NEW x \in 1..L, x < g[x] PROVE FALSE
    OBVIOUS
  <2> DEFINE high == {i \in 1..L : i < g[i]}
             far == {d \in Nat : \E i \in high : d = L - i}
  <2>1. PICK m \in high : \A i \in high : i <= m
    <3>1. far \subseteq Nat /\ L - x \in far
      OBVIOUS
    <3> HIDE DEF far
    <3>2. PICK d \in far : \A e \in far : d <= e
      BY <3>1, LeastThereIs
    <3>3. PICK m \in high : d = L - m
      BY <3>2 DEF far
    <3>4. \A i \in high : L - i \in far
      BY DEF far
    <3>5. \A i \in high : L - m <= L - i
      BY <3>2, <3>3, <3>4
    <3> QED BY <3>3, <3>5
  <2>2. m \in 1..L /\ g[m] \in 1..L /\ m < g[m]
    BY <2>1
  <2>3. g[m] \notin high
    BY <2>1, <2>2
  <2>4. g[m] < g[g[m]]
    BY <2>2
  <2> QED BY <2>2, <2>3, <2>4
<1> QED BY <1>1, <1>2

\* ReadQuestions puts the rows of a list in the order of the list.
LEMMA OrderedRows ==
    ASSUME NEW n \in Nat, NEW list \in Seq(Labels), list # <<>>
    PROVE  Ordered(RowsOf(n, list)) = [k \in DOMAIN list |-> [batch |-> n, order |-> k, label |-> list[k]]]
<1> DEFINE L == Len(list)
           R == RowsOf(n, list)
           asked == [k \in DOMAIN list |-> [batch |-> n, order |-> k, label |-> list[k]]]
           InOrder(s) == \A i, j \in DOMAIN s : i < j => \/ s[i].order < s[j].order
                                                         \/ s[i].order = s[j].order /\ s[i].batch < s[j].batch
<1>1. L \in Nat /\ DOMAIN list = 1..L
  OBVIOUS
<1>2. /\ asked \in [1..L -> R] /\ (\A r \in R : \E k \in 1..L : asked[k] = r)
      /\ \A i, j \in 1..L : i # j => asked[i] # asked[j]
      /\ \A r \in R : r.batch = n /\ r.order \in 1..L /\ r = asked[r.order]
      /\ \A k \in 1..L : asked[k].order = k
  BY <1>1 DEF RowsOf
<1>3. Cardinality(R) = L
  <2>1. asked \in Bijection(1..L, R)
    BY <1>2 DEF Bijection, Injection, Surjection, IsInjective
  <2>2. IsFiniteSet(1..L) /\ Cardinality(1..L) = L
    BY <1>1, FS_Interval
  <2>3. ExistsBijection(1..L, R)
    BY <2>1 DEF ExistsBijection
  <2> HIDE DEF R
  <2> QED BY <2>2, <2>3, FS_Bijection
<1>4. SetToSeqs(R) = {s \in [1..L -> R] : \A i, j \in 1..L : i # j => s[i] # s[j]}
  BY <1>3 DEF SetToSeqs
<1>5. asked \in SetToSeqs(R)
  BY <1>2, <1>4
<1>6. InOrder(asked)
  BY <1>1, <1>2
<1>7. ASSUME NEW s \in SetToSeqs(R), InOrder(s) PROVE s = asked
  <2>1. s \in [1..L -> R]
    BY <1>4, <1>7
  <2> HIDE DEF R, asked
  <2> DEFINE g == [i \in 1..L |-> s[i].order]
  <2>2. g \in [1..L -> 1..L]
    BY <1>2, <2>1
  <2>3. \A i, j \in 1..L : i < j => g[i] < g[j]
    <3> SUFFICES ASSUME NEW i \in 1..L, NEW j \in 1..L, i < j PROVE s[i].order < s[j].order
      OBVIOUS
    <3>1. s[i].order < s[j].order \/ s[i].batch < s[j].batch
      BY <1>7, <2>1
    <3>2. s[i] \in R /\ s[j] \in R
      BY <2>1
    <3>3. s[i].batch = n /\ s[j].batch = n
      BY <1>2, <3>2
    <3> QED BY <3>1, <3>3
  <2>4. \A k \in 1..L : s[k].order = k
    <3>1. \A k \in 1..L : g[k] = k
      BY <1>1, <2>2, <2>3, IncreasingIsIdentity
    <3> QED BY <3>1
  <2>5. \A k \in 1..L : s[k] = asked[k]
    BY <1>2, <2>1, <2>4
  <2>6. asked \in [1..L -> R]
    BY <1>2
  <2> QED BY <2>1, <2>5, <2>6
<1> QED BY <1>5, <1>6, <1>7 DEF Ordered

\* Lists are added and never changed, and what was asked stays one of them.
LEMMA ListsGrow ==
    ASSUME HitShape, NEW b \in QuestionLists, lists' = Append(lists, b), clashed \subseteq clashed'
    PROVE  /\ lists' \in Seq(Seq(Labels) \ {<<>>}) /\ Len(lists) + 1 \in DOMAIN lists' /\ lists'[Len(lists) + 1] = b
           /\ \A n \in DOMAIN lists : n \in DOMAIN lists' /\ lists'[n] = lists[n] /\ n \in Nat
           /\ AskedLists \subseteq AskedLists'
<1>1. lists \in Seq(Seq(Labels) \ {<<>>}) /\ b \in Seq(Labels) \ {<<>>}
  BY HitTestsAssumption DEF HitShape
<1>2. /\ lists' \in Seq(Seq(Labels) \ {<<>>}) /\ Len(lists) \in Nat /\ DOMAIN lists = 1..Len(lists)
      /\ DOMAIN lists' = 1..(Len(lists) + 1) /\ lists'[Len(lists) + 1] = b
      /\ \A n \in 1..Len(lists) : lists'[n] = lists[n]
  BY <1>1
<1>3. \A n \in DOMAIN lists : n \in DOMAIN lists' /\ lists'[n] = lists[n] /\ n \in Nat
  BY <1>2
<1>4. \A n \in DOMAIN lists : AskedOf(n)' = AskedOf(n)
  BY <1>3 DEF AskedOf
<1> QED BY <1>2, <1>3, <1>4 DEF AskedLists

\* A step of a request that changes no case: the job stays an edit of what it
\* was, or asks one list.
LEMMA RequestMoves ==
    ASSUME HitsInv, UNCHANGED <<cases, made, rows, lists, clashed>>, NEW p \in Testers,
           DOMAIN job' = Testers, \A q \in Testers \ {p} : job'[q] = job[q],
           "stage" \in DOMAIN job'[p], RequestFits(p)',
           \A c : Edits(p, c)' => Edits(p, c),
           \A c \in Cases \ clashed : Edits(p, c)' /\ Exists(c) =>
               job'[p].count = cases[c] /\ (job'[p].stage # "editing" => job'[p].doomed = rows[c]),
           job'[p].stage \in {"read", "measuring"} => AsksList(job'[p].asked),
           \A i \in DOMAIN hit_runs' : "asked" \in DOMAIN hit_runs'[i] /\ AsksList(hit_runs'[i].asked)
    PROVE  HitsInv'
<1>1. UNCHANGED <<AskedLists, clashed>>
  BY DEF AskedLists, AskedOf
<1>2. \A q \in Testers \ {p} : RequestFits(q)' /\ "stage" \in DOMAIN job'[q]
  BY DEF HitsInv, HitShape, RequestFits
<1>3. HitShape'
  BY <1>2 DEF HitsInv, HitShape, Exists
<1>4. \A q \in Testers, c \in Cases : Edits(q, c)' => Edits(q, c)
  BY DEF Edits
<1>5. ASSUME NEW c \in Cases \ clashed PROVE EditsAlone(c)' /\ CaseIsList(c)'
  <2>1. EditsAlone(c) /\ CaseIsList(c)
    BY DEF HitsInv
  <2>2. \A q, r \in Testers : Edits(q, c)' /\ Edits(r, c)' => q = r
    BY <1>4, <2>1 DEF EditsAlone
  <2>3. \A q \in Testers : Exists(c) /\ Edits(q, c)' =>
          job'[q].count = cases[c] /\ (job'[q].stage # "editing" => job'[q].doomed = rows[c])
    BY <1>4, <2>1 DEF EditsAlone
  <2>4. EditsAlone(c)'
    BY <2>2, <2>3 DEF EditsAlone, Exists
  <2>5. CaseIsList(c)'
    BY <2>1 DEF CaseIsList, Exists, RowsOf
  <2> QED BY <2>4, <2>5
<1>6. \A q \in Testers : job'[q].stage \in {"read", "measuring"} => AsksList(job[q].asked)'
  BY <1>1 DEF HitsInv, AsksList
<1>7. \A i \in DOMAIN hit_runs' : AsksList(hit_runs[i].asked)'
  BY <1>1 DEF AsksList
<1> QED BY <1>3, <1>5, <1>6, <1>7 DEF HitsInv

\* An edit looks for the rows it will delete, and deletes them: alone, it finds
\* all rows of its case.
LEMMA EditGoesOn ==
    ASSUME HitsInv, NEW p \in Testers, SeekRows(p) \/ DeleteRows(p) PROVE HitsInv'
<1>1. /\ job[p].stage \in EditStages /\ job[p] # NoJob /\ RequestFits(p) /\ DOMAIN job = Testers
      /\ UNCHANGED <<cases, made, rows, lists, clashed, hit_runs>>
  BY DEF SeekRows, DeleteRows, HitsInv, HitShape, EditStages, Working
<1>2. /\ EditFields \subseteq DOMAIN job[p] /\ (job[p].stage # "editing" => "doomed" \in DOMAIN job[p])
      /\ job[p].case \in made /\ job[p].count \in Nat /\ job[p].batch \in DOMAIN lists
  BY <1>1 DEF RequestFits, EditStages
<1>3. /\ DOMAIN job' = Testers /\ \A q \in Testers \ {p} : job'[q] = job[q]
      /\ EditFields \cup {"doomed"} \subseteq DOMAIN job'[p]
      /\ job'[p].stage \in {"deleting", "replacing"}
      /\ job'[p].case = job[p].case /\ job'[p].count = job[p].count /\ job'[p].batch = job[p].batch
      /\ \/ job'[p].doomed = rows[job[p].case]
         \/ job[p].stage = "deleting" /\ job'[p].doomed = job[p].doomed \cap rows[job[p].case]
  BY <1>1, <1>2 DEF SeekRows, DeleteRows, EditFields
<1>4. RequestFits(p)' /\ "stage" \in DOMAIN job'[p]
  BY <1>1, <1>2, <1>3 DEF RequestFits, EditStages, EditFields
<1>5. \A c : Edits(p, c)' => Edits(p, c)
  BY <1>1, <1>3 DEF Edits
<1>6. ASSUME NEW c \in Cases \ clashed, Edits(p, c)', Exists(c)
      PROVE  job'[p].count = cases[c] /\ job'[p].doomed = rows[c]
  <2>1. EditsAlone(c) /\ Edits(p, c) /\ job[p].case = c
    BY <1>5, <1>6 DEF HitsInv, Edits
  <2>2. job[p].count = cases[c] /\ (job[p].stage # "editing" => job[p].doomed = rows[c])
    BY <1>6, <2>1 DEF EditsAlone
  <2> QED BY <1>3, <2>1, <2>2
<1>7. \A i \in DOMAIN hit_runs' : "asked" \in DOMAIN hit_runs'[i] /\ AsksList(hit_runs'[i].asked)
  BY <1>1 DEF HitsInv, HitShape
<1>8. job'[p].stage \notin {"read", "measuring"}
  BY <1>3
<1> QED BY <1>1, <1>3, <1>4, <1>5, <1>6, <1>7, <1>8, RequestMoves

\* Requests that start, fail, or put the questions of their case.
LEMMA RunGoesOn ==
    ASSUME HitsInv, NEW p \in Testers,
           \/ \E c \in Cases, todo \in 0..1 : StartRun(p, c, todo)
           \/ StartTemporary(p) \/ ReadQuestions(p) \/ InsertRun(p) \/ Drop(p)
           \/ \E ranks \in RankLists : CommitRun(p, ranks)
    PROVE  HitsInv'
<1>1. /\ DOMAIN job = Testers /\ RequestFits(p) /\ "stage" \in DOMAIN job[p]
      /\ \A i \in DOMAIN hit_runs : "asked" \in DOMAIN hit_runs[i] /\ AsksList(hit_runs[i].asked)
  BY DEF HitsInv, HitShape
<1>2. /\ DOMAIN job' = Testers /\ (\A q \in Testers \ {p} : job'[q] = job[q])
      /\ UNCHANGED <<cases, made, rows, lists, clashed>>
  BY <1>1 DEF StartRun, StartTemporary, ReadQuestions, InsertRun, Drop, CommitRun
\* What matters of the step is what the request goes on with.
<1>3. ASSUME "stage" \in DOMAIN job'[p],
             \/ job'[p] = NoJob
             \/ job'[p].stage = "cased" /\ job'[p].case \in Cases
             \/ job'[p].stage = "read" /\ job'[p].case \in Cases /\ AsksList(job'[p].asked)
             \/ /\ job'[p].stage = "measuring" /\ AsksList(job'[p].asked)
                /\ job'[p].case \in Cases \/ job'[p].todo = 0,
             \A i \in DOMAIN hit_runs' : "asked" \in DOMAIN hit_runs'[i] /\ AsksList(hit_runs'[i].asked)
      PROVE  HitsInv'
  <2>1. RequestFits(p)' /\ \A c : ~Edits(p, c)'
    BY <1>3 DEF RequestFits, Edits, EditStages, NoJob
  <2>2. job'[p].stage \in {"read", "measuring"} => AsksList(job'[p].asked)
    BY <1>3 DEF NoJob
  <2> QED BY <1>2, <1>3, <2>1, <2>2, RequestMoves
<1>4. ASSUME NEW c \in Cases, NEW todo \in 0..1, StartRun(p, c, todo) PROVE HitsInv'
  <2>1. job'[p].stage = "cased" /\ job'[p].case = c /\ "stage" \in DOMAIN job'[p] /\ UNCHANGED hit_runs
    BY <1>1, <1>4 DEF StartRun, Run
  <2> QED BY <1>1, <1>3, <2>1
<1>5. ASSUME StartTemporary(p) PROVE HitsInv'
  <2>1. /\ job'[p].stage = "measuring" /\ job'[p].asked = <<[batch |-> 0, order |-> 1, label |-> "bare"]>>
        /\ "stage" \in DOMAIN job'[p] /\ job'[p].todo = 0 /\ UNCHANGED hit_runs
    BY <1>1, <1>5 DEF StartTemporary, Measured, Run
  <2>2. AsksList(job'[p].asked)
    BY <2>1 DEF AsksList
  <2> QED BY <1>1, <1>3, <2>1, <2>2
<1>6. ASSUME ReadQuestions(p) PROVE HitsInv'
  <2>1. job[p].stage = "cased" /\ job[p].case \in Cases /\ UNCHANGED hit_runs
    BY <1>1, <1>6 DEF ReadQuestions, Working, RequestFits, EditStages
  <2> DEFINE c == job[p].case
             found == rows[c]
  <2>2. CASE job'[p] = NoJob
    BY <1>1, <1>3, <2>1, <2>2 DEF NoJob
  <2>3. CASE job'[p] # NoJob
    <3>1. /\ job'[p].stage = "read" /\ job'[p].case = c /\ job'[p].asked = Ordered(found)
          /\ "stage" \in DOMAIN job'[p] /\ found # {}
      BY <1>1, <1>6, <2>3 DEF ReadQuestions
    <3>2. AsksList(Ordered(found))
      <4> SUFFICES ASSUME clashed = {} PROVE AsksList(Ordered(found))
        BY DEF AsksList
      <4>1. Exists(c) /\ CaseIsList(c)
        BY <2>1, <3>1 DEF HitsInv, HitShape
      <4>2. PICK n \in DOMAIN lists : rows[c] = RowsOf(n, lists[n])
        BY <4>1 DEF CaseIsList
      <4>3. lists[n] \in Seq(Labels) \ {<<>>} /\ n \in Nat
        BY DEF HitsInv, HitShape
      <4>4. Ordered(found) = AskedOf(n)
        BY <4>2, <4>3, OrderedRows DEF AskedOf
      <4> QED BY <4>4 DEF AsksList, AskedLists
    <3> QED BY <1>1, <1>3, <2>1, <3>1, <3>2
  <2> QED BY <2>2, <2>3
<1>7. ASSUME InsertRun(p) PROVE HitsInv'
  <2>1. job[p].stage = "read" /\ job[p].case \in Cases /\ AsksList(job[p].asked) /\ UNCHANGED hit_runs
    BY <1>1, <1>7 DEF InsertRun, HitsInv, RequestFits, EditStages, Working
  <2>2. CASE job'[p] = NoJob
    BY <1>1, <1>3, <2>1, <2>2 DEF NoJob
  <2>3. CASE job'[p] # NoJob
    <3>1. /\ job'[p].stage = "measuring" /\ job'[p].asked = job[p].asked /\ job'[p].case = job[p].case
          /\ "stage" \in DOMAIN job'[p]
      BY <1>1, <1>7, <2>3 DEF InsertRun, Measured
    <3> QED BY <1>1, <1>3, <2>1, <3>1
  <2> QED BY <2>2, <2>3
<1>8. ASSUME Drop(p) PROVE HitsInv'
  <2>1. job'[p] = NoJob /\ UNCHANGED hit_runs
    BY <1>1, <1>8 DEF Drop
  <2> QED BY <1>1, <1>3, <2>1 DEF NoJob
<1>9. ASSUME NEW ranks \in RankLists, CommitRun(p, ranks) PROVE HitsInv'
  <2>1. /\ job[p].stage = "measuring" /\ AsksList(job[p].asked)
        /\ job[p].case \in Cases \/ job[p].todo = 0
    BY <1>1, <1>9 DEF CommitRun, HitsInv, RequestFits, EditStages, Working
  <2>2. \A i \in DOMAIN hit_runs' : "asked" \in DOMAIN hit_runs'[i] /\ AsksList(hit_runs'[i].asked)
    <3>1. \A i \in DOMAIN hit_runs' : \/ i \in DOMAIN hit_runs /\ hit_runs'[i] = hit_runs[i]
                                      \/ "asked" \in DOMAIN hit_runs'[i] /\ hit_runs'[i].asked = job[p].asked
      BY <1>9 DEF CommitRun
    <3> QED BY <1>1, <2>1, <3>1
  <2>3. \/ job'[p] = NoJob
        \/ /\ job'[p].stage = "cased" /\ job'[p].case = job[p].case /\ Exists(job[p].case)
           /\ "stage" \in DOMAIN job'[p] /\ job[p].todo > 0
    BY <1>1, <1>9 DEF CommitRun, Run
  <2> QED BY <1>3, <2>1, <2>2, <2>3 DEF NoJob
<1> QED BY <1>4, <1>5, <1>6, <1>7, <1>8, <1>9

\* A list of questions comes in: with a new case, or with an edit of one.
LEMMA ListComes ==
    ASSUME HitsInv, NEW c \in Cases, NEW b \in QuestionLists,
           CreateCase(c, b) \/ \E p \in Testers : LoadEdit(p, c, b)
    PROVE  HitsInv'
<1> DEFINE new == Len(lists) + 1
<1>1. HitShape /\ lists' = Append(lists, b) /\ clashed \subseteq clashed' /\ UNCHANGED hit_runs
  BY DEF CreateCase, LoadEdit, HitsInv
<1>2. /\ lists' \in Seq(Seq(Labels) \ {<<>>}) /\ new \in DOMAIN lists' /\ lists'[new] = b
      /\ \A n \in DOMAIN lists : n \in DOMAIN lists' /\ lists'[n] = lists[n] /\ n \in Nat
      /\ AskedLists \subseteq AskedLists'
  BY <1>1, ListsGrow
<1>3. \A d \in Cases : CaseIsList(d) /\ rows'[d] = rows[d] /\ cases'[d] = cases[d] => CaseIsList(d)'
  <2> SUFFICES ASSUME NEW d \in Cases, CaseIsList(d), rows'[d] = rows[d], cases'[d] = cases[d], Exists(d)
               PROVE  \E n \in DOMAIN lists' : rows'[d] = RowsOf(n, lists[n])' /\ cases'[d] = Len(lists'[n])
    BY DEF CaseIsList, Exists
  <2>1. PICK n \in DOMAIN lists : rows[d] = RowsOf(n, lists[n]) /\ cases[d] = Len(lists[n])
    BY DEF CaseIsList
  <2>2. n \in DOMAIN lists' /\ RowsOf(n, lists[n])' = RowsOf(n, lists[n])
    BY <1>2 DEF RowsOf
  <2> QED BY <1>2, <2>1, <2>2
<1>4. \A i \in DOMAIN hit_runs' : AsksList(hit_runs[i].asked)'
  BY <1>1, <1>2 DEF HitsInv, AsksList
<1>5. ASSUME NEW q \in Testers, RequestFits(q), job'[q] = job[q], made \subseteq made' PROVE RequestFits(q)'
  BY <1>2, <1>5 DEF RequestFits
<1>6. ASSUME CreateCase(c, b) PROVE HitsInv'
  <2>1. /\ c \notin made /\ UNCHANGED <<job, clashed>> /\ made' = made \cup {c}
        /\ cases' = [cases EXCEPT ![c] = Len(b)] /\ rows' = [rows EXCEPT ![c] = RowsOf(new, b)]
    BY <1>6 DEF CreateCase
  <2>2. b \in Seq(Labels) /\ b # <<>>
    BY HitTestsAssumption
  <2>3. Len(b) \in Nat /\ cases' \in [Cases -> Nat]
    BY <1>1, <2>1, <2>2 DEF HitShape
  <2>4. HitShape'
    <3>1. \A q \in Testers : RequestFits(q)'
      BY <1>1, <1>5, <2>1 DEF HitShape
    <3>2. \A d \in Cases : (Exists(d)' => d \in made') /\ (~Exists(d)' => rows'[d] = {})
      <4> SUFFICES ASSUME NEW d \in Cases PROVE (Exists(d)' => d \in made') /\ (~Exists(d)' => rows'[d] = {})
        OBVIOUS
      <4>1. CASE d = c
        <5>1. Len(b) # 0
          BY <2>2
        <5> QED BY <1>1, <2>1, <4>1, <5>1 DEF HitShape, Exists
      <4>2. CASE d # c
        BY <1>1, <2>1, <4>2 DEF HitShape, Exists
      <4> QED BY <4>1, <4>2
    <3> QED BY <1>1, <1>2, <2>1, <2>3, <3>1, <3>2 DEF HitShape
  <2>5. ASSUME NEW d \in Cases \ clashed PROVE EditsAlone(d)' /\ CaseIsList(d)'
    <3>1. CASE d = c
      <4>1. \A q \in Testers : ~Edits(q, d)
        <5>1. \A q \in Testers : RequestFits(q)
          BY <1>1 DEF HitShape
        <5> QED BY <2>1, <3>1, <5>1 DEF Edits, RequestFits, EditStages, NoJob
      <4>2. \A q \in Testers : ~Edits(q, d)'
        BY <2>1, <4>1 DEF Edits
      <4>3. rows'[d] = RowsOf(new, b) /\ cases'[d] = Len(b)
        BY <1>1, <2>1, <3>1 DEF HitShape
      <4>4. RowsOf(new, b) = RowsOf(new, lists'[new])
        BY <1>2
      <4>5. CaseIsList(d)'
        BY <1>2, <4>3, <4>4 DEF CaseIsList, RowsOf
      <4> QED BY <4>2, <4>5 DEF EditsAlone
    <3>2. CASE d # c
      <4>1. EditsAlone(d) /\ CaseIsList(d) /\ rows'[d] = rows[d] /\ cases'[d] = cases[d]
        BY <1>1, <2>1, <3>2 DEF HitsInv, HitShape
      <4>2. CaseIsList(d)'
        BY <1>3, <4>1
      <4>3. EditsAlone(d)'
        BY <2>1, <4>1 DEF EditsAlone, Edits, Exists
      <4> QED BY <4>2, <4>3
    <3> QED BY <3>1, <3>2
  <2>6. \A q \in Testers : job'[q].stage \in {"read", "measuring"} => AsksList(job[q].asked)'
    BY <1>1, <1>2, <2>1 DEF HitsInv, AsksList
  <2> QED BY <1>4, <2>1, <2>4, <2>5, <2>6 DEF HitsInv
<1>7. ASSUME NEW p \in Testers, LoadEdit(p, c, b) PROVE HitsInv'
  <2> DEFINE x == [stage |-> "editing", case |-> c, count |-> cases[c], batch |-> new]
  <2>1. /\ job[p] = NoJob /\ Exists(c) /\ job' = [job EXCEPT ![p] = x] /\ UNCHANGED <<cases, made, rows>>
        /\ clashed' = IF Editing(c) # {} THEN clashed \cup {c} ELSE clashed
    BY <1>7 DEF LoadEdit, Working
  <2>2. DOMAIN job' = Testers /\ job'[p] = x /\ \A q \in Testers \ {p} : job'[q] = job[q]
    BY <1>1, <2>1 DEF HitShape
  <2>3. HitShape'
    <3>1. RequestFits(p)' /\ "stage" \in DOMAIN job'[p]
      BY <1>1, <1>2, <2>1, <2>2 DEF RequestFits, HitShape, EditStages, EditFields
    <3>2. \A q \in Testers : RequestFits(q)' /\ "stage" \in DOMAIN job'[q]
      BY <1>1, <1>5, <2>1, <2>2, <3>1 DEF HitShape
    <3> QED BY <1>1, <1>2, <2>1, <2>2, <3>2 DEF HitShape, Exists
  <2>4. ASSUME NEW d \in Cases \ clashed' PROVE EditsAlone(d)' /\ CaseIsList(d)'
    <3>1. EditsAlone(d) /\ CaseIsList(d)
      BY <1>1, <2>4 DEF HitsInv
    <3>2. CaseIsList(d)'
      BY <1>3, <2>1, <3>1
    <3>3. CASE d = c
      <4>1. \A q \in Testers : ~Edits(q, d)
        <5>1. Editing(c) = {}
          BY <2>1, <2>4, <3>3
        <5> QED BY <3>3, <5>1 DEF Editing, Edits, EditStages, Working, NoJob
      <4>2. \A q \in Testers : Edits(q, d)' => q = p
        BY <2>2, <4>1 DEF Edits
      <4>3. EditsAlone(d)'
        BY <2>1, <2>2, <3>3, <4>2 DEF EditsAlone, Exists
      <4> QED BY <3>2, <4>3
    <3>4. CASE d # c
      <4>1. \A q \in Testers : Edits(q, d)' => Edits(q, d) /\ job'[q] = job[q]
        BY <2>2, <3>4 DEF Edits
      <4>2. EditsAlone(d)'
        BY <2>1, <3>1, <4>1 DEF EditsAlone, Exists
      <4> QED BY <3>2, <4>2
    <3> QED BY <3>3, <3>4
  <2>5. \A q \in Testers : job'[q].stage \in {"read", "measuring"} => AsksList(job[q].asked)'
    BY <1>1, <1>2, <2>2 DEF HitsInv, AsksList
  <2> QED BY <1>4, <2>3, <2>4, <2>5 DEF HitsInv
<1> QED BY <1>6, <1>7

\* An edit of a case that nobody else edits replaces its rows as a whole, and
\* leaves out the UPDATE of the count only if it is what it would write.
LEMMA EditCommits ==
    ASSUME HitsInv, NEW p \in Testers, CommitEdit(p) PROVE HitsInv'
<1> DEFINE c == job[p].case
           n == job[p].batch
           size == Len(lists[n])
<1>1. /\ HitShape /\ RequestFits(p) /\ job[p].stage = "replacing" /\ job[p] # NoJob
      /\ job' = [job EXCEPT ![p] = NoJob] /\ UNCHANGED <<made, lists, hit_runs, clashed>>
  BY DEF CommitEdit, HitsInv, HitShape, Working
<1>2. c \in made /\ c \in Cases /\ n \in DOMAIN lists /\ Edits(p, c)
  BY <1>1 DEF RequestFits, EditStages, Edits, HitShape
<1>3. lists[n] \in Seq(Labels) \ {<<>>} /\ size \in Nat /\ size # 0
  BY <1>1, <1>2 DEF HitShape
<1>4. /\ \/ UNCHANGED <<rows, cases>> /\ ~Exists(c)
         \/ /\ rows' = [rows EXCEPT ![c] = (rows[c] \ job[p].doomed) \cup RowsOf(n, lists[n])]
            /\ cases' = IF size = job[p].count THEN cases ELSE [cases EXCEPT ![c] = size]
            /\ Exists(c)
  BY DEF CommitEdit
<1>5. /\ DOMAIN job' = Testers /\ job'[p] = NoJob /\ \A q \in Testers \ {p} : job'[q] = job[q]
  BY <1>1 DEF HitShape
<1>6. \A d \in Cases : /\ Exists(d)' <=> Exists(d)
                       /\ d # c => rows'[d] = rows[d] /\ cases'[d] = cases[d]
  BY <1>1, <1>2, <1>3, <1>4 DEF HitShape, Exists
<1>7. HitShape'
  <2>1. \A q \in Testers : RequestFits(q)' /\ "stage" \in DOMAIN job'[q]
    BY <1>1, <1>5 DEF HitShape, RequestFits, NoJob
  <2>2. cases' \in [Cases -> Nat] /\ DOMAIN rows' = Cases
    BY <1>1, <1>3, <1>4 DEF HitShape
  <2>3. \A d \in Cases : ~Exists(d)' => rows'[d] = {}
    BY <1>1, <1>4, <1>6 DEF HitShape
  <2> QED BY <1>1, <1>5, <1>6, <2>1, <2>2, <2>3 DEF HitShape
<1>8. ASSUME NEW d \in Cases \ clashed PROVE EditsAlone(d)' /\ CaseIsList(d)'
  <2>1. EditsAlone(d) /\ CaseIsList(d)
    BY DEF HitsInv
  <2>2. \A q \in Testers : Edits(q, d)' => Edits(q, d) /\ job'[q] = job[q] /\ q # p
    BY <1>5 DEF Edits, EditStages, NoJob
  <2>3. CASE d # c \/ ~Exists(c)
    <3>1. rows'[d] = rows[d] /\ cases'[d] = cases[d]
      BY <1>4, <1>6, <2>3
    <3>2. EditsAlone(d)'
      BY <1>6, <2>1, <2>2, <3>1 DEF EditsAlone
    <3>3. CaseIsList(d)'
      BY <1>1, <1>6, <2>1, <3>1 DEF CaseIsList, RowsOf
    <3> QED BY <3>2, <3>3
  <2>4. CASE d = c /\ Exists(c)
    <3>1. job[p].count = cases[c] /\ job[p].doomed = rows[c]
      BY <1>1, <1>2, <2>1, <2>4 DEF EditsAlone
    <3>2. \A q \in Testers : ~Edits(q, d)'
      BY <1>2, <2>1, <2>2, <2>4 DEF EditsAlone
    <3>3. rows'[d] = RowsOf(n, lists[n]) /\ cases'[d] = size
      <4>1. DOMAIN rows = Cases /\ DOMAIN cases = Cases
        BY <1>1 DEF HitShape
      <4>2. /\ rows' = [rows EXCEPT ![c] = (rows[c] \ job[p].doomed) \cup RowsOf(n, lists[n])]
            /\ cases' = IF size = job[p].count THEN cases ELSE [cases EXCEPT ![c] = size]
        BY <1>4, <2>4
      <4>3. rows'[c] = (rows[c] \ rows[c]) \cup RowsOf(n, lists[n])
        BY <1>2, <3>1, <4>1, <4>2
      <4>4. cases'[c] = size
        BY <1>2, <3>1, <4>1, <4>2
      <4> QED BY <2>4, <4>3, <4>4
    <3>4. CaseIsList(d)'
      BY <1>1, <1>2, <3>3 DEF CaseIsList, RowsOf
    <3> QED BY <3>2, <3>4 DEF EditsAlone
  <2> QED BY <2>3, <2>4
<1>9. UNCHANGED <<AskedLists, clashed>>
  BY <1>1 DEF AskedLists, AskedOf
<1>10. \A q \in Testers : job'[q].stage \in {"read", "measuring"} => AsksList(job[q].asked)'
  BY <1>5, <1>9 DEF HitsInv, AsksList, NoJob
<1>11. \A i \in DOMAIN hit_runs' : AsksList(hit_runs[i].asked)'
  BY <1>1, <1>9 DEF HitsInv, AsksList
<1> QED BY <1>1, <1>7, <1>8, <1>10, <1>11 DEF HitsInv

\* A case goes with its questions; what runs have asked stays.
LEMMA CaseGoes ==
    ASSUME HitsInv, NEW c \in Cases, DeleteCase(c) PROVE HitsInv'
<1>1. /\ cases' = [cases EXCEPT ![c] = 0] /\ rows' = [rows EXCEPT ![c] = {}] /\ HitShape
      /\ UNCHANGED <<made, lists, job, clashed>> /\ DOMAIN hit_runs' = DOMAIN hit_runs
      /\ \A i \in DOMAIN hit_runs : "asked" \in DOMAIN hit_runs'[i] /\ hit_runs'[i].asked = hit_runs[i].asked
  BY DEF DeleteCase, HitsInv, HitShape
<1>2. /\ cases' \in [Cases -> Nat] /\ DOMAIN rows' = Cases
      /\ \A d \in Cases \ {c} : rows'[d] = rows[d] /\ cases'[d] = cases[d]
      /\ ~Exists(c)' /\ rows'[c] = {}
  BY <1>1 DEF HitShape, Exists
<1>3. HitShape'
  BY <1>1, <1>2 DEF HitShape, RequestFits, Exists
<1>4. ASSUME NEW d \in Cases \ clashed PROVE EditsAlone(d)' /\ CaseIsList(d)'
  <2>1. EditsAlone(d) /\ CaseIsList(d)
    BY DEF HitsInv
  <2>2. EditsAlone(d)'
    BY <1>1, <1>2, <2>1 DEF EditsAlone, Edits, Exists
  <2>3. CaseIsList(d)'
    BY <1>1, <1>2, <2>1 DEF CaseIsList, Exists, RowsOf
  <2> QED BY <2>2, <2>3
<1>5. UNCHANGED <<AskedLists, clashed>>
  BY <1>1 DEF AskedLists, AskedOf
<1>6. \A q \in Testers : job'[q].stage \in {"read", "measuring"} => AsksList(job[q].asked)'
  BY <1>1, <1>5 DEF HitsInv, AsksList
<1>7. \A i \in DOMAIN hit_runs' : AsksList(hit_runs[i].asked)'
  BY <1>1, <1>5 DEF HitsInv, AsksList
<1> QED BY <1>1, <1>3, <1>4, <1>6, <1>7 DEF HitsInv

\* Fewer runs, or nothing happens.
LEMMA RunsGo ==
    ASSUME HitsInv, UNCHANGED <<cases, made, rows, lists, job, clashed>>,
           \A i \in DOMAIN hit_runs' : i \in DOMAIN hit_runs /\ hit_runs'[i] = hit_runs[i]
    PROVE  HitsInv'
<1>1. HitShape'
  BY DEF HitsInv, HitShape, RequestFits, Exists
<1>2. \A d \in Cases \ clashed : EditsAlone(d)' /\ CaseIsList(d)'
  BY DEF HitsInv, EditsAlone, CaseIsList, Exists, Edits, RowsOf
<1>3. UNCHANGED <<AskedLists, clashed>>
  BY DEF AskedLists, AskedOf
<1>4. \A q \in Testers : job'[q].stage \in {"read", "measuring"} => AsksList(job[q].asked)'
  BY <1>3 DEF HitsInv, AsksList
<1>5. \A i \in DOMAIN hit_runs' : AsksList(hit_runs[i].asked)'
  BY <1>3 DEF HitsInv, AsksList
<1> QED BY <1>1, <1>2, <1>4, <1>5 DEF HitsInv

LEMMA HitsStart == HitsInit => HitsInv
<1> SUFFICES ASSUME HitsInit PROVE HitsInv
  OBVIOUS
<1>1. lists \in Seq(Seq(Labels) \ {<<>>}) /\ DOMAIN hit_runs = {}
  BY DEF HitsInit
<1>2. HitShape
  BY <1>1 DEF HitsInit, HitShape, RequestFits, NoJob, Exists
<1> QED BY <1>1, <1>2 DEF HitsInit, HitsInv, EditsAlone, Edits, EditStages, NoJob, CaseIsList, Exists

LEMMA HitsStep == HitsInv /\ [HitsNext]_hit_vars => HitsInv'
<1> SUFFICES ASSUME HitsInv, [HitsNext]_hit_vars PROVE HitsInv'
  OBVIOUS
<1>1. CASE UNCHANGED hit_vars
  BY <1>1, RunsGo DEF hit_vars
<1>2. ASSUME NEW i \in 1..serial, DeleteRun(i) PROVE HitsInv'
  BY <1>2, RunsGo DEF DeleteRun
<1>3. CASE DeleteAllRuns
  BY <1>3, RunsGo DEF DeleteAllRuns
<1> QED BY <1>1, <1>2, <1>3, ListComes, CaseGoes, EditGoesOn, EditCommits, RunGoesOn DEF HitsNext

\* The questions of a case are those of one list, and so are those a run put,
\* for any lists, testers and overlapping edits, runs and deletions
\* (update_test_case, execute_test_run, delete_test_case).
THEOREM ListsKeptWhole == HitsSpec => []ListsWhole
<1>1. HitsInv => CaseWhole
  BY DEF HitsInv, CaseIsList, CaseWhole
<1>2. HitsInv => RunMeasuresList
  <2> SUFFICES ASSUME HitsInv, NEW i \in DOMAIN hit_runs, hit_runs[i].asked[1].batch # 0, clashed = {}
               PROVE  LET n == hit_runs[i].asked[1].batch
                      IN  hit_runs[i].asked = AskedOf(n)
    BY DEF RunMeasuresList, AskedOf
  <2>1. PICK n \in DOMAIN lists : hit_runs[i].asked = AskedOf(n)
    BY DEF HitsInv, AsksList, AskedLists
  <2>2. lists[n] \in Seq(Labels) \ {<<>>}
    BY DEF HitsInv, HitShape
  <2>3. 1 \in DOMAIN lists[n]
    BY <2>2
  <2>4. AskedOf(n)[1].batch = n
    BY <2>3 DEF AskedOf
  <2> QED BY <2>1, <2>4
<1> QED BY <1>1, <1>2, HitsStart, HitsStep, PTL DEF HitsSpec, ListsWhole

-----------------------------------------------------------------------------
(* Recursion over numbers, and sums *)

\* Induction, for a set instead of a predicate.
LEMMA Upwards == ASSUME NEW T, T \subseteq Nat, 0 \in T, \A n \in T : n + 1 \in T PROVE Nat = T
<1> SUFFICES ASSUME NEW m \in Nat, m \notin T PROVE FALSE
  OBVIOUS
<1>1. PICK n \in Nat \ T : \A k \in Nat \ T : n <= k
  <2>1. Nat \ T \subseteq Nat /\ Nat \ T # {}
    OBVIOUS
  <2> QED BY <2>1, LeastThereIs
<1>2. n # 0 /\ n - 1 \in Nat /\ n - 1 \in T
  BY <1>1
<1> QED BY <1>1, <1>2

\* f is built from v by step.
BuiltBy(f, v, step, n) == f[0] = v /\ \A i \in 1..n : f[i] = step[<<i, f[i - 1]>>]

\* What is defined step by step exists.
LEMMA StepByStep ==
    ASSUME NEW V, NEW v \in V, NEW n \in Nat, NEW step \in [(1..n) \X V -> V]
    PROVE  \E f \in [0..n -> V] : BuiltBy(f, v, step, n)
<1> DEFINE Upto(m) == \E f \in [0..m -> V] : f[0] = v /\ \A i \in 1..m : f[i] = step[<<i, f[i - 1]>>]
           T == {m \in Nat : m <= n => Upto(m)}
<1>1. 0 \in T
  <2> DEFINE f == [i \in 0..0 |-> v]
  <2>1. f \in [0..0 -> V] /\ f[0] = v /\ \A i \in 1..0 : f[i] = step[<<i, f[i - 1]>>]
    OBVIOUS
  <2>2. Upto(0)
    BY <2>1
  <2> QED BY <2>2
<1>2. ASSUME NEW m \in T PROVE m + 1 \in T
  <2> SUFFICES ASSUME m + 1 <= n PROVE Upto(m + 1)
    OBVIOUS
  <2>1. m \in Nat /\ Upto(m)
    OBVIOUS
  <2>2. PICK f \in [0..m -> V] : f[0] = v /\ \A i \in 1..m : f[i] = step[<<i, f[i - 1]>>]
    BY <2>1
  <2> DEFINE x == step[<<m + 1, f[m]>>]
             g == [i \in 0..(m + 1) |-> IF i = m + 1 THEN x ELSE f[i]]
  <2>3. x \in V
    <3>1. m + 1 \in 1..n /\ f[m] \in V
      BY <2>1
    <3> QED BY <3>1
  <2>4. g \in [0..(m + 1) -> V]
    BY <2>1, <2>3
  <2>5. ASSUME NEW i \in 1..(m + 1) PROVE g[i] = step[<<i, g[i - 1]>>]
    <3>1. CASE i = m + 1
      BY <2>1, <3>1
    <3>2. CASE i # m + 1
      <4>1. i \in 1..m /\ i \in 0..(m + 1) /\ i - 1 \in 0..(m + 1) /\ i - 1 # m + 1
        BY <2>1, <3>2
      <4> QED BY <2>2, <4>1, <3>2
    <3> QED BY <3>1, <3>2
  <2>6. g[0] = v
    BY <2>1, <2>2
  <2> HIDE DEF g
  <2> QED BY <2>4, <2>5, <2>6
<1>3. n \in T
  <2>1. T \subseteq Nat
    OBVIOUS
  <2> HIDE DEF T
  <2> QED BY <2>1, <1>1, <1>2, Upwards
<1> QED BY <1>3 DEF BuiltBy

\* The sum of Reciprocal: what CalculateMrr adds up, place by place.
LEMMA UnitsCover ==
    /\ Units \in Nat \ {0}
    /\ \A r \in 1..TopK : Reciprocal(r) \in 1..Units
    /\ Reciprocal(0) = 0
<1> DEFINE product[i \in 0..TopK] == IF i = 0 THEN 1 ELSE product[i - 1] * i
           step == [p \in (1..TopK) \X Nat |-> p[2] * p[1]]
<1>1. TopK \in Nat \ {0}
  BY HitTestsAssumption
<1>2. \E g \in [0..TopK -> Nat] : BuiltBy(g, 1, step, TopK)
  <2> DEFINE V == Nat
             v == 1
  <2>1. v \in V /\ TopK \in Nat /\ step \in [(1..TopK) \X V -> V]
    BY <1>1
  <2> HIDE DEF step, product, V, v
  <2>2. \E g \in [0..TopK -> V] : BuiltBy(g, v, step, TopK)
    BY <2>1, StepByStep
  <2> QED BY <2>2 DEF V, v
<1>3. PICK g \in [0..TopK -> Nat] : g[0] = 1 /\ \A i \in 1..TopK : g[i] = step[<<i, g[i - 1]>>]
  BY <1>2 DEF BuiltBy
<1>4. \A i \in 0..TopK : i # 0 => i \in 1..TopK /\ i - 1 \in 0..TopK /\ g[i - 1] \in Nat
  BY <1>1
<1>5. g = [i \in 0..TopK |-> IF i = 0 THEN 1 ELSE g[i - 1] * i]
  BY <1>1, <1>3, <1>4
<1>6. product = [i \in 0..TopK |-> IF i = 0 THEN 1 ELSE product[i - 1] * i]
  BY <1>5
<1>7. Units = product[TopK]
  BY DEF Units
<1> HIDE DEF step, product
<1> DEFINE T == {i \in Nat : i <= TopK => product[i] \in Nat /\ product[i] >= i /\ product[i] >= 1}
<1>8. 0 \in T
  BY <1>1, <1>6
<1>9. ASSUME NEW i \in T PROVE i + 1 \in T
  <2> SUFFICES ASSUME i + 1 <= TopK
               PROVE  product[i + 1] \in Nat /\ product[i + 1] >= i + 1 /\ product[i + 1] >= 1
    OBVIOUS
  <2>1. i \in Nat /\ i + 1 \in 0..TopK /\ i + 1 # 0 /\ (i + 1) - 1 = i
    BY <1>1
  <2>2. product[i + 1] = product[i] * (i + 1)
    BY <1>6, <2>1
  <2>3. product[i] \in Nat /\ product[i] >= 1
    BY <1>1, <2>1
  <2> HIDE DEF T
  <2>4. ASSUME NEW a \in Nat, NEW k \in Nat, a >= 1 PROVE a * (k + 1) \in Nat /\ a * (k + 1) >= k + 1
    BY <2>4
  <2> QED BY <2>1, <2>2, <2>3, <2>4
<1>10. TopK \in T
  <2>1. T \subseteq Nat
    OBVIOUS
  <2> HIDE DEF T
  <2> QED BY <2>1, <1>1, <1>8, <1>9, Upwards
<1>11. Units \in Nat /\ Units >= TopK
  BY <1>1, <1>7, <1>10
<1>12. ASSUME NEW a \in Nat, NEW r \in Nat, 1 <= r, r <= a PROVE (a \div r) \in 1..a
  BY <1>12
<1> QED BY <1>1, <1>11, <1>12 DEF Reciprocal

\* The figures of a run: every question that is answered adds to both of them.
LEMMA FiguresAddUp ==
    ASSUME NEW ranks \in Seq(0..TopK)
    PROVE  /\ HitCount(ranks) \in Nat /\ HitCount(ranks) <= Len(ranks)
           /\ HitCount(ranks) = 0 <=> CalculateMrr(ranks) = 0
           /\ CalculateMrr(ranks) <= HitCount(ranks) * Units
<1> DEFINE n == Len(ranks)
           sum[i \in 0..Len(ranks)] == IF i = 0 THEN 0 ELSE sum[i - 1] + Reciprocal(ranks[i])
           step == [p \in (1..n) \X Nat |-> p[2] + Reciprocal(ranks[p[1]])]
           Hit(i) == {k \in 1..i : ranks[k] # 0}
<1>1. n \in Nat /\ DOMAIN ranks = 1..n
  OBVIOUS
<1>2. \A i \in 1..n : /\ Reciprocal(ranks[i]) \in Nat
                      /\ ranks[i] = 0 => Reciprocal(ranks[i]) = 0
                      /\ ranks[i] # 0 => Reciprocal(ranks[i]) >= 1 /\ Reciprocal(ranks[i]) <= Units
  <2> SUFFICES ASSUME NEW i \in 1..n
               PROVE  /\ Reciprocal(ranks[i]) \in Nat
                      /\ ranks[i] = 0 => Reciprocal(ranks[i]) = 0
                      /\ ranks[i] # 0 => Reciprocal(ranks[i]) >= 1 /\ Reciprocal(ranks[i]) <= Units
    OBVIOUS
  <2>1. TopK \in Nat /\ ranks[i] \in 0..TopK
    BY HitTestsAssumption
  <2>2. CASE ranks[i] = 0
    BY <2>2, UnitsCover
  <2>3. CASE ranks[i] # 0
    <3>1. ranks[i] \in 1..TopK
      BY <2>1, <2>3
    <3> QED BY <2>3, <3>1, UnitsCover
  <2> QED BY <2>2, <2>3
<1>3. \E g \in [0..n -> Nat] : BuiltBy(g, 0, step, n)
  <2> DEFINE V == Nat
             v == 0
  <2>1. v \in V /\ n \in Nat /\ step \in [(1..n) \X V -> V]
    BY <1>1, <1>2
  <2> HIDE DEF step, n, sum, V, v
  <2>2. \E g \in [0..n -> V] : BuiltBy(g, v, step, n)
    BY <2>1, StepByStep
  <2> QED BY <2>2 DEF V, v
<1>4. PICK g \in [0..n -> Nat] : g[0] = 0 /\ \A i \in 1..n : g[i] = step[<<i, g[i - 1]>>]
  BY <1>3 DEF BuiltBy
<1>5. \A i \in 0..n : i # 0 => i \in 1..n /\ i - 1 \in 0..n /\ g[i - 1] \in Nat
  BY <1>1
<1>6. g = [i \in 0..n |-> IF i = 0 THEN 0 ELSE g[i - 1] + Reciprocal(ranks[i])]
  BY <1>1, <1>4, <1>5
<1>7. sum = [i \in 0..n |-> IF i = 0 THEN 0 ELSE sum[i - 1] + Reciprocal(ranks[i])]
  BY <1>6
<1>8. CalculateMrr(ranks) = sum[n]
  BY DEF CalculateMrr
<1> HIDE DEF step, sum
<1> DEFINE Fits(i) == /\ IsFiniteSet(Hit(i)) /\ sum[i] \in Nat /\ Cardinality(Hit(i)) <= i
                      /\ sum[i] = 0 <=> Cardinality(Hit(i)) = 0
                      /\ sum[i] <= Cardinality(Hit(i)) * Units
           T == {i \in Nat : i <= n => Fits(i)}
<1>9. 0 \in T
  <2>1. Hit(0) = {} /\ sum[0] = 0
    BY <1>1, <1>7
  <2>2. Fits(0)
    BY <2>1, FS_EmptySet, UnitsCover
  <2> QED BY <2>2
<1>10. ASSUME NEW i \in T PROVE i + 1 \in T
  <2> SUFFICES ASSUME i + 1 <= n PROVE Fits(i + 1)
    OBVIOUS
  <2>1. i \in Nat /\ i + 1 \in 1..n /\ i + 1 \in 0..n /\ i + 1 # 0 /\ (i + 1) - 1 = i /\ Fits(i)
    BY <1>1
  <2>2. sum[i + 1] = sum[i] + Reciprocal(ranks[i + 1])
    BY <1>7, <2>1
  <2>3. i + 1 \notin Hit(i) /\ Hit(i + 1) = IF ranks[i + 1] = 0 THEN Hit(i) ELSE Hit(i) \cup {i + 1}
    BY <2>1
  <2>4. Cardinality(Hit(i)) \in Nat
    BY <2>1, FS_CardinalityType
  <2>5. CASE ranks[i + 1] = 0
    <3>1. Hit(i + 1) = Hit(i) /\ sum[i + 1] = sum[i]
      BY <1>2, <2>1, <2>2, <2>3, <2>5
    <3> HIDE DEF Hit
    <3> QED BY <2>1, <2>4, <3>1
  <2>6. CASE ranks[i + 1] # 0
    <3>1. IsFiniteSet(Hit(i + 1)) /\ Cardinality(Hit(i + 1)) = Cardinality(Hit(i)) + 1
      <4>1. Hit(i + 1) = Hit(i) \cup {i + 1} /\ i + 1 \notin Hit(i) /\ IsFiniteSet(Hit(i))
        BY <2>1, <2>3, <2>6
      <4> HIDE DEF Hit
      <4> QED BY <4>1, FS_AddElement
    <3>2. Reciprocal(ranks[i + 1]) \in Nat /\ Reciprocal(ranks[i + 1]) >= 1 /\ Reciprocal(ranks[i + 1]) <= Units
      BY <1>2, <2>1, <2>6
    <3>3. ASSUME NEW a \in Nat, NEW b \in Nat, NEW c \in Nat, NEW u \in Nat, a <= c * u, b <= u
          PROVE  a + b <= (c + 1) * u
      BY <3>3
    <3>4. Units \in Nat
      BY UnitsCover
    <3> HIDE DEF Hit
    <3>5. sum[i + 1] <= Cardinality(Hit(i + 1)) * Units
      BY <2>1, <2>2, <2>4, <3>1, <3>2, <3>3, <3>4
    <3> QED BY <2>1, <2>2, <2>4, <3>1, <3>2, <3>5
  <2> QED BY <2>5, <2>6
<1>11. Fits(n)
  <2>1. T \subseteq Nat
    OBVIOUS
  <2> HIDE DEF T
  <2>2. n \in T
    BY <2>1, <1>1, <1>9, <1>10, Upwards
  <2> QED BY <1>1, <2>2 DEF T
<1>12. HitCount(ranks) = Cardinality(Hit(n))
  BY <1>1 DEF HitCount
<1> QED BY <1>8, <1>11, <1>12, FS_CardinalityType

\* A finite set whose members have different keys can be put in their order.
LEMMA Sortable ==
    ASSUME NEW S, IsFiniteSet(S), NEW key \in [S -> Nat], \A x, y \in S : key[x] = key[y] => x = y
    PROVE  \E s \in [1..Cardinality(S) -> S] :
              \A i, j \in 1..Cardinality(S) : i < j => key[s[i]] < key[s[j]]
<1> DEFINE Sorts(s, R, n) == s \in [1..n -> R] /\ \A i, j \in 1..n : i < j => key[s[i]] < key[s[j]]
           Can(R, n) == \E s : Sorts(s, R, n)
           T == {n \in Nat : \A R \in SUBSET S : Cardinality(R) = n => Can(R, n)}
<1>1. 0 \in T
  <2>1. ASSUME NEW R \in SUBSET S PROVE Can(R, 0)
    <3>1. Sorts([i \in 1..0 |-> i], R, 0)
      OBVIOUS
    <3> QED BY <3>1
  <2> QED BY <2>1
<1>2. ASSUME NEW n \in T PROVE n + 1 \in T
  <2> SUFFICES ASSUME NEW R \in SUBSET S, Cardinality(R) = n + 1 PROVE Can(R, n + 1)
    OBVIOUS
  <2>1. n \in Nat /\ IsFiniteSet(R) /\ R # {}
    BY FS_Subset, FS_EmptySet
  <2>2. PICK x \in R : \A y \in R : key[x] <= key[y]
    <3> DEFINE keys == {key[y] : y \in R}
    <3>1. keys \subseteq Nat /\ keys # {}
      BY <2>1
    <3> HIDE DEF keys
    <3>2. PICK k \in keys : \A l \in keys : k <= l
      BY <3>1, LeastThereIs
    <3>3. PICK x \in R : k = key[x]
      BY DEF keys
    <3> QED BY <3>2, <3>3 DEF keys
  <2>3. IsFiniteSet(R \ {x}) /\ Cardinality(R \ {x}) = n
    <3>1. IsFiniteSet(R \ {x}) /\ Cardinality(R \ {x}) = Cardinality(R) - 1
      BY <2>1, FS_RemoveElement
    <3> QED BY <2>1, <3>1
  <2>4. PICK s : Sorts(s, R \ {x}, n)
    BY <2>3
  <2> DEFINE t == [i \in 1..(n + 1) |-> IF i = 1 THEN x ELSE s[i - 1]]
  <2>5. \A i \in 1..(n + 1) : i # 1 => i - 1 \in 1..n /\ s[i - 1] \in R \ {x}
    BY <2>1, <2>4
  <2>6. t \in [1..(n + 1) -> R]
    BY <2>5
  <2>7. ASSUME NEW i \in 1..(n + 1), NEW j \in 1..(n + 1), i < j PROVE key[t[i]] < key[t[j]]
    <3>1. j # 1 /\ t[j] = s[j - 1] /\ j - 1 \in 1..n /\ s[j - 1] \in R \ {x}
      BY <2>1, <2>5, <2>7
    <3>2. CASE i = 1
      <4>1. t[i] = x /\ key[x] <= key[s[j - 1]] /\ key[x] # key[s[j - 1]]
        BY <2>2, <3>1, <3>2
      <4>2. key[x] \in Nat /\ key[s[j - 1]] \in Nat
        BY <3>1
      <4> HIDE DEF t
      <4> QED BY <3>1, <4>1, <4>2
    <3>3. CASE i # 1
      <4>1. t[i] = s[i - 1] /\ i - 1 \in 1..n /\ i - 1 < j - 1
        BY <2>1, <2>5, <2>7, <3>3
      <4> QED BY <2>4, <3>1, <4>1
    <3> QED BY <3>2, <3>3
  <2>8. Sorts(t, R, n + 1)
    BY <2>6, <2>7
  <2> QED BY <2>8
<1>3. Cardinality(S) \in T
  <2>1. T \subseteq Nat
    OBVIOUS
  <2> HIDE DEF T
  <2> QED BY <2>1, <1>1, <1>2, Upwards, FS_CardinalityType
<1> QED BY <1>3

-----------------------------------------------------------------------------
(* Test runs: results and figures *)

\* The rows of all lists; a row that a run asks for.
Sent == UNION {RowsOf(n, lists[n]) : n \in DOMAIN lists}
AskedRow == [batch : Nat, order : Nat, label : Labels]
CaseTypes ==
    /\ cases \in [Cases -> Nat] /\ made \subseteq Cases /\ clashed \subseteq Cases
    /\ lists \in BoundedSeq(QuestionLists, MaxBatches)
    /\ rows \in [Cases -> SUBSET Sent]
RunFields == {"case", "asked", "ranks", "total", "hits", "rr"}
RunTyped(r) ==
    /\ RunFields \subseteq DOMAIN r /\ r.case \in Cases \cup {NoCase}
    /\ r.ranks \in Seq(0..TopK) /\ Len(r.asked) = Len(r.ranks)
    /\ r.total = Len(r.ranks) /\ r.hits = HitCount(r.ranks) /\ r.rr = CalculateMrr(r.ranks)
RequestTyped(x) ==
    /\ x.stage \in Stages
    /\ x.stage \in {"cased", "read", "measuring"} =>
         /\ x.case \in Cases \cup {NoCase} /\ x.done \in Seq(1..serial)
         /\ x.stage # "cased" => x.asked \in Seq(AskedRow)
RunTypes ==
    /\ serial \in 0..MaxRuns
    /\ \A i \in DOMAIN hit_runs : i \in 1..serial /\ RunTyped(hit_runs[i])
    /\ \A p \in Testers : RequestTyped(job[p])
    /\ compared \in [Testers -> Seq(1..serial)]
FiguresInv == HitsInv /\ CaseTypes /\ RunTypes

\* The values of a function on a finite set.
LEMMA ValuesFinite ==
    ASSUME NEW S, IsFiniteSet(S), NEW f, S \subseteq DOMAIN f
    PROVE  IsFiniteSet({f[x] : x \in S})
<1> DEFINE V == {f[x] : x \in S}
           g == [x \in S |-> f[x]]
<1>1. g \in Surjection(S, V)
  BY DEF Surjection
<1> HIDE DEF g, V
<1>2. IsFiniteSet(V)
  BY <1>1, FS_Surjection
<1> QED BY <1>2 DEF V

\* The greatest of some numbers.
LEMMA GreatestOf ==
    ASSUME NEW S, S \subseteq Nat, IsFiniteSet(S), S # {}
    PROVE  Max(S) \in S /\ \A x \in S : x <= Max(S)
<1> DEFINE Has(R) == \E m \in R : \A x \in R : x <= m
           T == {n \in Nat : \A R \in SUBSET S : Cardinality(R) = n /\ R # {} => Has(R)}
<1>1. 0 \in T
  <2>1. ASSUME NEW R \in SUBSET S, Cardinality(R) = 0 PROVE R = {}
    <3>1. IsFiniteSet(R)
      BY FS_Subset
    <3> QED BY <2>1, <3>1, FS_EmptySet
  <2> QED BY <2>1
<1>2. ASSUME NEW n \in T PROVE n + 1 \in T
  <2> SUFFICES ASSUME NEW R \in SUBSET S, Cardinality(R) = n + 1, R # {} PROVE Has(R)
    OBVIOUS
  <2>1. PICK x \in R : TRUE
    OBVIOUS
  <2>2. IsFiniteSet(R)
    BY FS_Subset
  <2>3. Cardinality(R \ {x}) = Cardinality(R) - 1
    BY <2>2, FS_RemoveElement
  <2>4. Cardinality(R \ {x}) = n /\ R \ {x} \in SUBSET S
    BY <2>3
  <2>5. CASE R \ {x} = {}
    <3>1. \A y \in R : y = x /\ x <= x
      BY <2>5
    <3> QED BY <3>1
  <2>6. CASE R \ {x} # {}
    <3>1. PICK m \in R \ {x} : \A y \in R \ {x} : y <= m
      BY <2>4, <2>6
    <3>2. m \in Nat /\ x \in Nat /\ R \subseteq Nat
      OBVIOUS
    <3> DEFINE top == IF x <= m THEN m ELSE x
    <3>3. top \in R /\ \A y \in R : y <= top
      BY <3>1, <3>2
    <3> QED BY <3>3
  <2> QED BY <2>5, <2>6
<1>3. Has(S)
  <2>1. Cardinality(S) \in T
    <3>1. T \subseteq Nat
      OBVIOUS
    <3> HIDE DEF T
    <3> QED BY <3>1, <1>1, <1>2, Upwards, FS_CardinalityType
  <2> QED BY <2>1
<1> QED BY <1>3 DEF Max

LEMMA ListFacts ==
    ASSUME CaseTypes
    PROVE  /\ lists \in Seq(QuestionLists) /\ Len(lists) \in 0..MaxBatches /\ DOMAIN lists = 1..Len(lists)
           /\ \A n \in DOMAIN lists : lists[n] \in QuestionLists /\ lists[n] \in Seq(Labels)
                                      /\ Len(lists[n]) \in Nat /\ DOMAIN lists[n] = 1..Len(lists[n])
<1>1. PICK n \in 0..MaxBatches : lists \in [1..n -> QuestionLists]
  BY DEF CaseTypes, BoundedSeq, SeqOf
<1>2. n \in Nat /\ lists \in Seq(QuestionLists) /\ Len(lists) = n
  BY <1>1, HitTestsAssumption
<1>3. QuestionLists \subseteq Seq(Labels)
  BY HitTestsAssumption
<1>4. ASSUME NEW i \in DOMAIN lists
      PROVE  lists[i] \in QuestionLists /\ lists[i] \in Seq(Labels) /\ Len(lists[i]) \in Nat /\ DOMAIN lists[i] = 1..Len(lists[i])
  BY <1>1, <1>3
<1> QED BY <1>1, <1>2, <1>4

\* What a case can have is a row of the type CaseRow.
LEMMA SentTyped ==
    ASSUME CaseTypes PROVE Sent \subseteq CaseRow
<1> DEFINE sizes == {Len(b) : b \in QuestionLists}
<1>1. sizes \subseteq Nat /\ sizes # {}
  <2>1. \A b \in QuestionLists : b \in Seq(Labels) /\ Len(b) \in Nat
    BY HitTestsAssumption
  <2>2. PICK b \in QuestionLists : TRUE
    BY HitTestsAssumption
  <2>3. Len(b) \in sizes
    BY <2>2
  <2> QED BY <2>1, <2>3
<1>2. IsFiniteSet(sizes)
  <2> DEFINE f == [b \in QuestionLists |-> Len(b)]
  <2>1. IsFiniteSet(QuestionLists) /\ QuestionLists \subseteq DOMAIN f
    BY HitTestsAssumption
  <2>2. sizes = {f[b] : b \in QuestionLists}
    OBVIOUS
  <2> HIDE DEF f, sizes
  <2> QED BY <2>1, <2>2, ValuesFinite
<1>3. \A x \in sizes : x <= Max(sizes) /\ Max(sizes) \in Nat
  <2> HIDE DEF sizes
  <2> QED BY <1>1, <1>2, GreatestOf
<1>4. ASSUME NEW n \in DOMAIN lists, NEW k \in DOMAIN lists[n]
      PROVE  [batch |-> n, order |-> k, label |-> lists[n][k]] \in CaseRow
  <2>1. /\ n \in 1..MaxBatches /\ lists[n] \in QuestionLists /\ lists[n] \in Seq(Labels)
        /\ Len(lists[n]) \in Nat /\ k \in 1..Len(lists[n])
    BY ListFacts, HitTestsAssumption
  <2>2. Len(lists[n]) \in sizes
    BY <2>1
  <2>3. k \in 1..Max(sizes)
    <3> HIDE DEF sizes
    <3> QED BY <1>3, <2>1, <2>2
  <2>4. lists[n][k] \in Labels
    BY <2>1
  <2> QED BY <2>1, <2>3, <2>4 DEF CaseRow
<1> QED BY <1>4 DEF Sent, RowsOf

\* Places in the order of rows.
LEMMA OrderThenBatch ==
    ASSUME NEW L \in Nat, NEW a \in Nat, NEW b \in Nat, NEW c \in 0..L, NEW d \in 0..L,
           a * (L + 1) + c < b * (L + 1) + d
    PROVE  a < b \/ (a = b /\ c < d)
<1>1. CASE a > b
  <2>1. a * (L + 1) = (b + 1) * (L + 1) + (a - (b + 1)) * (L + 1)
    OBVIOUS
  <2>2. (a - (b + 1)) * (L + 1) \in Nat
    BY <1>1
  <2>3. (b + 1) * (L + 1) = b * (L + 1) + (L + 1)
    OBVIOUS
  <2>4. a * (L + 1) \in Nat /\ b * (L + 1) \in Nat
    OBVIOUS
  <2> QED BY <2>1, <2>2, <2>3, <2>4
<1>2. CASE a = b
  BY <1>2
<1>3. CASE a < b
  BY <1>3
<1> QED BY <1>1, <1>2, <1>3

\* What ReadQuestions puts is a list, whatever edits have made of the rows.
LEMMA OrderedIsList ==
    ASSUME CaseTypes, NEW R \in SUBSET Sent
    PROVE  Ordered(R) \in Seq(AskedRow)
<1> DEFINE L == Len(lists)
           key == [r \in R |-> r.order * (L + 1) + r.batch]
           InOrder(s) == \A i, j \in DOMAIN s : i < j => \/ s[i].order < s[j].order
                                                         \/ s[i].order = s[j].order /\ s[i].batch < s[j].batch
<1>1. L \in Nat /\ DOMAIN lists = 1..L
  BY ListFacts
<1>2. ASSUME NEW r \in R
      PROVE  r.batch \in 1..L /\ r.order \in DOMAIN lists[r.batch] /\ r \in AskedRow
             /\ r = [batch |-> r.batch, order |-> r.order, label |-> lists[r.batch][r.order]]
  <2>1. PICK n \in DOMAIN lists : r \in RowsOf(n, lists[n])
    BY DEF Sent
  <2>2. PICK k \in DOMAIN lists[n] : r = [batch |-> n, order |-> k, label |-> lists[n][k]]
    BY <2>1 DEF RowsOf
  <2>3. n \in Nat /\ k \in Nat /\ lists[n][k] \in Labels
    BY ListFacts, <2>1, <2>2
  <2> QED BY <1>1, <2>1, <2>2, <2>3 DEF AskedRow
<1>3. IsFiniteSet(R)
  <2>1. ASSUME NEW n \in DOMAIN lists PROVE IsFiniteSet(RowsOf(n, lists[n]))
    <3> DEFINE f == [k \in DOMAIN lists[n] |-> [batch |-> n, order |-> k, label |-> lists[n][k]]]
               V == {f[k] : k \in DOMAIN lists[n]}
    <3>1. Len(lists[n]) \in Nat /\ DOMAIN lists[n] = 1..Len(lists[n])
      BY ListFacts
    <3>2. IsFiniteSet(DOMAIN lists[n])
      BY <3>1, FS_Interval
    <3>3. V = RowsOf(n, lists[n]) /\ DOMAIN lists[n] \subseteq DOMAIN f
      BY DEF RowsOf
    <3> HIDE DEF f
    <3>4. IsFiniteSet(V)
      BY <3>2, <3>3, ValuesFinite
    <3> QED BY <3>3, <3>4
  <2>2. IsFiniteSet(DOMAIN lists)
    BY <1>1, FS_Interval
  <2>3. IsFiniteSet({RowsOf(n, lists[n]) : n \in DOMAIN lists})
    <3> DEFINE g == [n \in DOMAIN lists |-> RowsOf(n, lists[n])]
               V == {g[n] : n \in DOMAIN lists}
    <3>1. V = {RowsOf(n, lists[n]) : n \in DOMAIN lists} /\ DOMAIN lists \subseteq DOMAIN g
      OBVIOUS
    <3> HIDE DEF g
    <3>2. IsFiniteSet(V)
      BY <2>2, <3>1, ValuesFinite
    <3> QED BY <3>1, <3>2
  <2>4. IsFiniteSet(Sent)
    BY <2>1, <2>3, FS_UNION DEF Sent
  <2> QED BY <2>4, FS_Subset
<1>4. key \in [R -> Nat]
  <2>1. \A r \in R : r.order * (L + 1) + r.batch \in Nat
    BY <1>1, <1>2 DEF AskedRow
  <2> QED BY <2>1
<1>5. ASSUME NEW x \in R, NEW y \in R, key[x] < key[y]
      PROVE  x.order < y.order \/ (x.order = y.order /\ x.batch < y.batch)
  <2>1. x.order \in Nat /\ y.order \in Nat /\ x.batch \in 0..L /\ y.batch \in 0..L
    BY <1>1, <1>2 DEF AskedRow
  <2>2. x.order * (L + 1) + x.batch < y.order * (L + 1) + y.batch
    BY <1>5
  <2> QED BY <1>1, <2>1, <2>2, OrderThenBatch
<1>6. ASSUME NEW x \in R, NEW y \in R, key[x] = key[y] PROVE x = y
  <2>1. x.order \in Nat /\ y.order \in Nat /\ x.batch \in 0..L /\ y.batch \in 0..L
    BY <1>1, <1>2 DEF AskedRow
  <2>2. x.order * (L + 1) + x.batch = y.order * (L + 1) + y.batch
    BY <1>6
  <2>3. x.order = y.order /\ x.batch = y.batch
    <3>1. ASSUME NEW a \in Nat, NEW b \in Nat, NEW c \in 0..L, NEW d \in 0..L, a < b
          PROVE  a * (L + 1) + c < b * (L + 1) + d
      <4>1. b * (L + 1) = (a + 1) * (L + 1) + (b - (a + 1)) * (L + 1)
        BY <1>1
      <4>2. (b - (a + 1)) * (L + 1) \in Nat
        BY <1>1, <3>1
      <4>3. (a + 1) * (L + 1) = a * (L + 1) + (L + 1)
        BY <1>1
      <4>4. a * (L + 1) \in Nat /\ b * (L + 1) \in Nat
        BY <1>1
      <4> QED BY <1>1, <4>1, <4>2, <4>3, <4>4
    <3>2. ~(x.order < y.order) /\ ~(y.order < x.order)
      <4>1. CASE x.order < y.order
        <5>1. x.order * (L + 1) + x.batch < y.order * (L + 1) + y.batch
          BY <2>1, <3>1, <4>1
        <5>2. x.order * (L + 1) + x.batch \in Nat
          BY <1>1, <2>1
        <5> QED BY <2>2, <5>1, <5>2
      <4>2. CASE y.order < x.order
        <5>1. y.order * (L + 1) + y.batch < x.order * (L + 1) + x.batch
          BY <2>1, <3>1, <4>2
        <5>2. x.order * (L + 1) + x.batch \in Nat
          BY <1>1, <2>1
        <5> QED BY <2>2, <5>1, <5>2
      <4> QED BY <4>1, <4>2
    <3>3. x.order = y.order
      BY <2>1, <3>2
    <3>4. x.order * (L + 1) \in Nat
      BY <1>1, <2>1
    <3> QED BY <1>1, <2>1, <2>2, <3>3, <3>4
  <2> QED BY <1>2, <2>3
<1>7. PICK s \in [1..Cardinality(R) -> R] :
         \A i, j \in 1..Cardinality(R) : i < j => key[s[i]] < key[s[j]]
  <2> HIDE DEF key
  <2> QED BY <1>3, <1>4, <1>6, Sortable
<1>8. s \in SetToSeqs(R) /\ InOrder(s)
  <2>1. Cardinality(R) \in Nat
    BY <1>3, FS_CardinalityType
  <2>2. ASSUME NEW i \in 1..Cardinality(R), NEW j \in 1..Cardinality(R), i # j PROVE s[i] # s[j]
    <3>1. key[s[i]] \in Nat /\ key[s[j]] \in Nat
      BY <1>4
    <3> HIDE DEF key
    <3>2. CASE i < j
      BY <1>7, <3>1, <3>2
    <3>3. CASE j < i
      BY <1>7, <3>1, <3>3
    <3> QED BY <2>1, <2>2, <3>2, <3>3
  <2>3. ASSUME NEW i \in 1..Cardinality(R), NEW j \in 1..Cardinality(R), i < j
        PROVE  \/ s[i].order < s[j].order
               \/ s[i].order = s[j].order /\ s[i].batch < s[j].batch
    <3>1. key[s[i]] < key[s[j]] /\ s[i] \in R /\ s[j] \in R
      BY <1>7, <2>3
    <3> HIDE DEF key
    <3> QED BY <1>5, <3>1
  <2> QED BY <2>2, <2>3 DEF SetToSeqs
<1>9. Ordered(R) \in SetToSeqs(R)
  BY <1>8 DEF Ordered
<1>10. Ordered(R) \in [1..Cardinality(R) -> R] /\ Cardinality(R) \in Nat /\ R \subseteq AskedRow
  BY <1>2, <1>3, <1>9, FS_CardinalityType DEF SetToSeqs
<1> QED BY <1>10

LEMMA Widens == ASSUME NEW S, NEW T, S \subseteq T, NEW s \in Seq(S) PROVE s \in Seq(T)
  BY SeqDef

LEMMA ListOf == ASSUME NEW S, NEW n \in Nat, NEW s \in [1..n -> S] PROVE s \in Seq(S) /\ Len(s) = n
  OBVIOUS

LEMMA ItemOf == ASSUME NEW S, NEW s \in Seq(S), NEW k \in DOMAIN s PROVE s[k] \in S
  OBVIOUS

\* Lists, cases and rows.
LEMMA ListAdded ==
    ASSUME CaseTypes, NEW b \in QuestionLists, Len(lists) < MaxBatches, lists' = Append(lists, b)
    PROVE  /\ lists' \in BoundedSeq(QuestionLists, MaxBatches)
           /\ Sent \subseteq Sent' /\ RowsOf(Len(lists) + 1, b) \subseteq Sent'
<1>1. lists \in Seq(QuestionLists) /\ Len(lists) \in 0..MaxBatches /\ DOMAIN lists = 1..Len(lists)
  BY ListFacts
<1>2. /\ lists' \in [1..(Len(lists) + 1) -> QuestionLists] /\ Len(lists) + 1 \in 0..MaxBatches
      /\ lists'[Len(lists) + 1] = b /\ DOMAIN lists' = 1..(Len(lists) + 1)
      /\ \A n \in 1..Len(lists) : lists'[n] = lists[n] /\ n \in 1..(Len(lists) + 1)
  <2>1. MaxBatches \in Nat
    BY HitTestsAssumption
  <2>2. Len(lists) + 1 \in 0..MaxBatches
    BY <1>1, <2>1
  <2>3. lists' \in Seq(QuestionLists) /\ Len(lists') = Len(lists) + 1
    BY <1>1
  <2>4. lists' \in [1..(Len(lists) + 1) -> QuestionLists]
    BY <2>3, LenProperties
  <2>5. lists'[Len(lists) + 1] = b
    BY <1>1
  <2>6. \A n \in 1..Len(lists) : lists'[n] = lists[n] /\ n \in 1..(Len(lists) + 1)
    BY <1>1
  <2> QED BY <2>2, <2>4, <2>5, <2>6
<1>3. lists' \in BoundedSeq(QuestionLists, MaxBatches)
  BY <1>2 DEF BoundedSeq, SeqOf
<1>4. RowsOf(Len(lists) + 1, b) \subseteq Sent'
  <2>1. Len(lists) + 1 \in DOMAIN lists'
    BY <1>1, <1>2
  <2> QED BY <1>2, <2>1 DEF Sent
<1>5. ASSUME NEW n \in DOMAIN lists PROVE RowsOf(n, lists[n]) \subseteq Sent'
  <2>1. n \in DOMAIN lists' /\ lists'[n] = lists[n]
    BY <1>1, <1>2
  <2>2. RowsOf(n, lists'[n]) \subseteq Sent'
    BY <2>1 DEF Sent
  <2> QED BY <2>1, <2>2
<1>6. Sent \subseteq Sent'
  BY <1>5 DEF Sent
<1> QED BY <1>3, <1>4, <1>6

LEMMA CasesTyped ==
    ASSUME FiguresInv, HitsNext PROVE CaseTypes'
<1> USE DEF FiguresInv
<1>1. /\ cases \in [Cases -> Nat] /\ made \subseteq Cases /\ clashed \subseteq Cases
      /\ lists \in BoundedSeq(QuestionLists, MaxBatches) /\ rows \in [Cases -> SUBSET Sent]
  BY DEF CaseTypes
<1>2. ASSUME UNCHANGED <<cases, made, rows, lists, clashed>> PROVE CaseTypes'
  BY <1>1, <1>2 DEF CaseTypes, Sent
<1>3. ASSUME NEW c \in Cases, NEW b \in QuestionLists, CreateCase(c, b) PROVE CaseTypes'
  <2>1. /\ Len(lists) < MaxBatches /\ lists' = Append(lists, b) /\ cases' = [cases EXCEPT ![c] = Len(b)]
        /\ made' = made \cup {c} /\ rows' = [rows EXCEPT ![c] = RowsOf(Len(lists) + 1, b)] /\ clashed' = clashed
    BY <1>3 DEF CreateCase
  <2>2. Len(b) \in Nat
    BY HitTestsAssumption
  <2>3. /\ lists' \in BoundedSeq(QuestionLists, MaxBatches)
        /\ Sent \subseteq Sent' /\ RowsOf(Len(lists) + 1, b) \subseteq Sent'
    BY <2>1, ListAdded
  <2>4. rows' \in [Cases -> SUBSET Sent']
    BY <1>1, <2>1, <2>3
  <2> QED BY <1>1, <2>1, <2>2, <2>3, <2>4 DEF CaseTypes
<1>4. ASSUME NEW p \in Testers, NEW c \in Cases, NEW b \in QuestionLists, LoadEdit(p, c, b) PROVE CaseTypes'
  <2>1. /\ Len(lists) < MaxBatches /\ lists' = Append(lists, b) /\ UNCHANGED <<cases, made, rows>>
        /\ clashed' \subseteq clashed \cup {c}
    BY <1>4 DEF LoadEdit
  <2>2. lists' \in BoundedSeq(QuestionLists, MaxBatches) /\ Sent \subseteq Sent'
    BY <2>1, ListAdded
  <2>3. rows' \in [Cases -> SUBSET Sent']
    BY <1>1, <2>1, <2>2
  <2> QED BY <1>1, <2>1, <2>2, <2>3 DEF CaseTypes
<1>5. ASSUME NEW p \in Testers, CommitEdit(p) PROVE CaseTypes'
  <2>1. /\ job[p].stage = "replacing" /\ UNCHANGED <<made, lists, clashed>> /\ Sent' = Sent
    BY <1>5 DEF CommitEdit, Sent
  <2>2. job[p].case \in Cases /\ job[p].batch \in DOMAIN lists
    BY <2>1 DEF HitsInv, HitShape, RequestFits, NoJob, EditStages
  <2>3. RowsOf(job[p].batch, lists[job[p].batch]) \subseteq Sent
    BY <2>2 DEF Sent
  <2>4. Len(lists[job[p].batch]) \in Nat
    BY <2>2, ListFacts
  <2>5. CASE ~Exists(job[p].case)
    BY <1>1, <1>5, <2>1, <2>5 DEF CommitEdit, CaseTypes
  <2>6. CASE Exists(job[p].case)
    <3> DEFINE c == job[p].case
               size == Len(lists[job[p].batch])
    <3>1. /\ rows' = [rows EXCEPT ![c] = (rows[c] \ job[p].doomed) \cup RowsOf(job[p].batch, lists[job[p].batch])]
          /\ cases' = IF size = job[p].count THEN cases ELSE [cases EXCEPT ![c] = size]
      BY <1>5, <2>6 DEF CommitEdit
    <3>2. rows' \in [Cases -> SUBSET Sent]
      BY <1>1, <2>2, <2>3, <3>1
    <3>3. cases' \in [Cases -> Nat]
      BY <1>1, <2>4, <3>1
    <3> QED BY <1>1, <2>1, <3>2, <3>3 DEF CaseTypes
  <2> QED BY <2>5, <2>6
<1>6. ASSUME NEW c \in Cases, DeleteCase(c) PROVE CaseTypes'
  <2>1. Sent' = Sent
    BY <1>6 DEF DeleteCase, Sent
  <2> QED BY <1>1, <1>6, <2>1 DEF DeleteCase, CaseTypes
<1>7. ASSUME NEW p \in Testers,
             \/ \E c \in Cases, todo \in 0..1 : StartRun(p, c, todo)
             \/ SeekRows(p) \/ DeleteRows(p) \/ StartTemporary(p) \/ ReadQuestions(p) \/ InsertRun(p) \/ Drop(p)
             \/ \E ranks \in RankLists : CommitRun(p, ranks)
      PROVE  CaseTypes'
  BY <1>2, <1>7 DEF StartRun, SeekRows, DeleteRows, StartTemporary, ReadQuestions, InsertRun, Drop, CommitRun
<1>8. ASSUME (\E i \in 1..serial : DeleteRun(i)) \/ DeleteAllRuns PROVE CaseTypes'
  BY <1>2, <1>8 DEF DeleteRun, DeleteAllRuns
<1> QED BY <1>3, <1>4, <1>5, <1>6, <1>7, <1>8 DEF HitsNext

-----------------------------------------------------------------------------

\* One request goes on, and no run is written.
LEMMA TesterGoesOn ==
    ASSUME FiguresInv, NEW p \in Testers, \A q \in Testers \ {p} : job'[q] = job[q],
           UNCHANGED <<hit_runs, serial, compared>>, RequestTyped(job'[p])
    PROVE  RunTypes'
<1>1. DOMAIN job = Testers /\ RunTypes
  BY DEF FiguresInv, HitsInv, HitShape
<1>2. ASSUME NEW q \in Testers PROVE RequestTyped(job[q])'
  <2>1. RequestTyped(job[q]) /\ (q # p => job'[q] = job[q])
    BY <1>1 DEF RunTypes
  <2>2. RequestTyped(job'[q])
    BY <2>1
  <2> QED BY <2>2 DEF RequestTyped
<1> QED BY <1>1, <1>2 DEF RunTypes, RunTyped

\* The runs that there are, or fewer of them, under the same or the next number.
LEMMA RunWritten ==
    ASSUME FiguresInv, NEW p \in Testers, NEW ranks \in RankLists, CommitRun(p, ranks)
    PROVE  RunTypes'
<1> DEFINE x == job[p]
           done == Append(x.done, serial + 1)
           row == [case |-> x.case, asked |-> x.asked, ranks |-> ranks,
                   total |-> Len(x.asked), hits |-> HitCount(ranks), rr |-> CalculateMrr(ranks)]
           next == IF x.todo > 0 /\ Exists(x.case) THEN Run(x.case, x.todo - 1, done) ELSE NoJob
<1>1. /\ x.stage = "measuring" /\ DOMAIN ranks = DOMAIN x.asked /\ serial < MaxRuns /\ serial' = serial + 1
      /\ hit_runs' = [i \in DOMAIN hit_runs \cup {serial + 1} |-> IF i \in DOMAIN hit_runs THEN hit_runs[i] ELSE row]
      /\ job' = [job EXCEPT ![p] = next]
      /\ compared' = compared \/ compared' = [compared EXCEPT ![p] = done]
  BY DEF CommitRun
<1>2. DOMAIN job = Testers /\ RunTypes
  BY DEF FiguresInv, HitsInv, HitShape
<1>3. /\ x.case \in Cases \cup {NoCase} /\ x.done \in Seq(1..serial) /\ x.asked \in Seq(AskedRow)
  BY <1>1, <1>2 DEF RunTypes, RequestTyped
<1>4. serial \in Nat /\ serial' \in 0..MaxRuns /\ 1..serial \subseteq 1..serial' /\ serial + 1 \in 1..serial'
  BY <1>1, <1>2, HitTestsAssumption DEF RunTypes
<1>5. done \in Seq(1..serial')
  <2>1. x.done \in Seq(1..serial')
    BY <1>3, <1>4, Widens
  <2> HIDE DEF x
  <2> QED BY <1>4, <2>1
<1>6. ranks \in Seq(0..TopK) /\ Len(x.asked) = Len(ranks)
  <2>1. PICK n \in 0..(2 * Max({Len(b) : b \in QuestionLists})) : ranks \in [1..n -> 0..TopK]
    BY DEF RankLists, BoundedSeq, SeqOf
  <2>2. Len(x.asked) \in Nat /\ DOMAIN x.asked = 1..Len(x.asked)
    BY <1>3
  <2>3. ranks \in [1..Len(x.asked) -> 0..TopK]
    BY <1>1, <2>1, <2>2
  <2> QED BY <2>2, <2>3, ListOf
<1>7. RunTyped(row)
  <2> HIDE DEF x
  <2> QED BY <1>3, <1>6 DEF RunTyped, RunFields
<1>8. ASSUME NEW i \in DOMAIN hit_runs' PROVE i \in 1..serial' /\ RunTyped(hit_runs'[i])
  <2> HIDE DEF row
  <2>1. CASE i \in DOMAIN hit_runs
    BY <1>1, <1>2, <1>4, <2>1 DEF RunTypes
  <2>2. CASE i \notin DOMAIN hit_runs
    BY <1>1, <1>4, <1>7, <2>2
  <2> QED BY <2>1, <2>2
<1>9. ASSUME NEW q \in Testers PROVE RequestTyped(job[q])'
  <2>1. CASE q # p
    <3>1. job'[q] = job[q] /\ RequestTyped(job[q])
      BY <1>1, <1>2, <2>1 DEF RunTypes
    <3>2. job[q].stage \in {"cased", "read", "measuring"} => job[q].done \in Seq(1..serial')
      BY <1>4, <3>1, Widens DEF RequestTyped
    <3> QED BY <3>1, <3>2 DEF RequestTyped
  <2>2. CASE q = p
    <3>1. job'[q] = next
      BY <1>1, <1>2, <2>2
    <3>2. CASE x.todo > 0 /\ Exists(x.case)
      <4> HIDE DEF done
      <4> QED BY <1>3, <1>5, <3>1, <3>2 DEF Run, RequestTyped, Stages
    <3>3. CASE ~(x.todo > 0 /\ Exists(x.case))
      BY <3>1, <3>3 DEF NoJob, RequestTyped, Stages
    <3> QED BY <3>2, <3>3
  <2> QED BY <2>1, <2>2
<1>10. compared' \in [Testers -> Seq(1..serial')]
  <2>1. compared \in [Testers -> Seq(1..serial')]
    <3>1. \A q \in Testers : compared[q] \in Seq(1..serial')
      BY <1>2, <1>4, Widens DEF RunTypes
    <3> QED BY <1>2, <3>1 DEF RunTypes
  <2> HIDE DEF done
  <2> QED BY <1>1, <1>5, <2>1
<1> QED BY <1>4, <1>8, <1>9, <1>10 DEF RunTypes, RunTyped

LEMMA RunsTyped ==
    ASSUME FiguresInv, HitsNext PROVE RunTypes'
<1>1. DOMAIN job = Testers /\ RunTypes /\ CaseTypes
  BY DEF FiguresInv, HitsInv, HitShape
<1>2. RequestTyped(NoJob)
  BY DEF RequestTyped, NoJob, Stages
<1>3. ASSUME NEW p \in Testers,
             \/ \E c \in Cases, b \in QuestionLists : LoadEdit(p, c, b)
             \/ SeekRows(p) \/ DeleteRows(p)
      PROVE  RunTypes'
  <2>1. \E x : job' = [job EXCEPT ![p] = x] /\ x.stage \in {"editing", "deleting", "replacing"}
    <3>1. ASSUME NEW c \in Cases, NEW b \in QuestionLists, LoadEdit(p, c, b)
          PROVE  \E x : job' = [job EXCEPT ![p] = x] /\ x.stage \in {"editing", "deleting", "replacing"}
      <4> DEFINE x == [stage |-> "editing", case |-> c, count |-> cases[c], batch |-> Len(lists) + 1]
      <4>1. job' = [job EXCEPT ![p] = x] /\ x.stage = "editing"
        BY <3>1 DEF LoadEdit
      <4> QED BY <4>1
    <3>2. CASE SeekRows(p)
      <4> DEFINE x == [stage |-> "deleting", case |-> job[p].case, count |-> job[p].count,
                       batch |-> job[p].batch, doomed |-> rows[job[p].case]]
      <4>1. job' = [job EXCEPT ![p] = x] /\ x.stage = "deleting"
        BY <3>2 DEF SeekRows
      <4> QED BY <4>1
    <3>3. CASE DeleteRows(p)
      <4> DEFINE y == [job[p] EXCEPT !.stage = "replacing"]
                 x == [y EXCEPT !.doomed = job[p].doomed \cap rows[job[p].case]]
      <4>1. job' = [job EXCEPT ![p] = x]
        BY <1>1, <3>3 DEF DeleteRows
      <4>2. "stage" \in DOMAIN job[p]
        BY DEF FiguresInv, HitsInv, HitShape
      <4>3. x.stage = "replacing"
        BY <4>2
      <4> HIDE DEF x
      <4> QED BY <4>1, <4>3
    <3> QED BY <1>3, <3>1, <3>2, <3>3
  <2>2. PICK x : job' = [job EXCEPT ![p] = x] /\ x.stage \in {"editing", "deleting", "replacing"}
    BY <2>1
  <2>3. RequestTyped(x)
    BY <2>2 DEF RequestTyped, Stages
  <2>4. UNCHANGED <<hit_runs, serial, compared>>
    BY <1>3 DEF LoadEdit, SeekRows, DeleteRows
  <2> QED BY <1>1, <2>2, <2>3, <2>4, TesterGoesOn
<1>4. ASSUME NEW p \in Testers, CommitEdit(p) \/ Drop(p) PROVE RunTypes'
  BY <1>1, <1>2, <1>4, TesterGoesOn DEF CommitEdit, Drop
<1>5. ASSUME NEW p \in Testers, NEW c \in Cases, NEW todo \in 0..1, StartRun(p, c, todo) PROVE RunTypes'
  <2>1. RequestTyped(Run(c, todo, <<>>))
    BY DEF RequestTyped, Run, Stages
  <2> QED BY <1>1, <1>5, <2>1, TesterGoesOn DEF StartRun
<1>6. ASSUME NEW p \in Testers, StartTemporary(p) PROVE RunTypes'
  <2> DEFINE x == Measured(Run(NoCase, 0, <<>>), <<[batch |-> 0, order |-> 1, label |-> "bare"]>>)
  <2>1. <<[batch |-> 0, order |-> 1, label |-> "bare"]>> \in Seq(AskedRow)
    BY DEF AskedRow, Labels
  <2>2. RequestTyped(x)
    BY <2>1 DEF RequestTyped, Run, Measured, Stages
  <2>3. job' = [job EXCEPT ![p] = x] /\ UNCHANGED <<hit_runs, serial, compared>>
    BY <1>6 DEF StartTemporary
  <2> HIDE DEF x
  <2> QED BY <1>1, <2>2, <2>3, TesterGoesOn
<1>7. ASSUME NEW p \in Testers, ReadQuestions(p) PROVE RunTypes'
  <2> DEFINE found == rows[job[p].case]
             x == IF found = {} \/ Mixed(found) THEN NoJob
                  ELSE [stage |-> "read", case |-> job[p].case, todo |-> job[p].todo, done |-> job[p].done,
                        asked |-> Ordered(found)]
  <2>1. job' = [job EXCEPT ![p] = x] /\ UNCHANGED <<hit_runs, serial, compared>> /\ job[p].stage = "cased"
    BY <1>7 DEF ReadQuestions
  <2>2. /\ job[p].case \in Cases /\ job[p].done \in Seq(1..serial)
    <3>1. RequestFits(p) /\ RequestTyped(job[p])
      BY <1>1 DEF RunTypes, FiguresInv, HitsInv, HitShape
    <3>2. job[p] # NoJob
      BY <2>1 DEF NoJob
    <3>3. job[p].case \in Cases
      BY <2>1, <3>1, <3>2 DEF RequestFits, EditStages
    <3> QED BY <2>1, <3>1, <3>3 DEF RequestTyped
  <2>3. Ordered(found) \in Seq(AskedRow)
    BY <1>1, <2>2, OrderedIsList DEF CaseTypes
  <2>4. RequestTyped(x)
    BY <1>2, <2>2, <2>3 DEF RequestTyped, Stages
  <2> HIDE DEF x
  <2> QED BY <1>1, <2>1, <2>4, TesterGoesOn
<1>8. ASSUME NEW p \in Testers, InsertRun(p) PROVE RunTypes'
  <2> DEFINE x == IF Exists(job[p].case) THEN Measured(job[p], job[p].asked) ELSE NoJob
  <2>1. job' = [job EXCEPT ![p] = x] /\ UNCHANGED <<hit_runs, serial, compared>> /\ job[p].stage = "read"
    BY <1>8 DEF InsertRun
  <2>2. job[p].case \in Cases \cup {NoCase} /\ job[p].done \in Seq(1..serial) /\ job[p].asked \in Seq(AskedRow)
    BY <1>1, <2>1 DEF RunTypes, RequestTyped
  <2>3. RequestTyped(x)
    BY <1>2, <2>2 DEF RequestTyped, Measured, Stages
  <2> HIDE DEF x
  <2> QED BY <1>1, <2>1, <2>3, TesterGoesOn
\* Runs that lose their case, and runs that go.
<1>9. ASSUME UNCHANGED <<job, serial, compared>>, DOMAIN hit_runs' \subseteq DOMAIN hit_runs,
             \A i \in DOMAIN hit_runs' : RunTyped(hit_runs'[i])
      PROVE  RunTypes'
  <2>1. \A p \in Testers : RequestTyped(job[p])'
    BY <1>1, <1>9 DEF RunTypes, RequestTyped
  <2>2. \A i \in DOMAIN hit_runs' : RunTyped(hit_runs[i])'
    BY <1>9 DEF RunTyped
  <2> QED BY <1>1, <1>9, <2>1, <2>2 DEF RunTypes
<1>10. ASSUME NEW c \in Cases, DeleteCase(c) PROVE RunTypes'
  <2>1. /\ DOMAIN hit_runs' = DOMAIN hit_runs /\ UNCHANGED <<job, serial, compared>>
        /\ \A i \in DOMAIN hit_runs : hit_runs'[i] = IF hit_runs[i].case = c THEN [hit_runs[i] EXCEPT !.case = NoCase] ELSE hit_runs[i]
    BY <1>10 DEF DeleteCase
  <2>2. ASSUME NEW i \in DOMAIN hit_runs PROVE RunTyped(hit_runs'[i])
    <3>1. RunTyped(hit_runs[i])
      BY <1>1 DEF RunTypes
    <3> QED BY <2>1, <3>1 DEF RunTyped, RunFields
  <2> QED BY <1>9, <2>1, <2>2
<1>11. ASSUME NEW c \in Cases, NEW b \in QuestionLists, CreateCase(c, b) PROVE RunTypes'
  BY <1>1, <1>9, <1>11 DEF CreateCase, RunTypes
<1>12. ASSUME (\E i \in 1..serial : DeleteRun(i)) \/ DeleteAllRuns PROVE RunTypes'
  <2>1. CASE DeleteAllRuns
    <3>1. DOMAIN hit_runs' = {} /\ UNCHANGED <<job, serial, compared>>
      BY <2>1 DEF DeleteAllRuns
    <3> QED BY <1>9, <3>1
  <2>2. CASE \E i \in 1..serial : DeleteRun(i)
    <3>1. PICK i \in 1..serial : DeleteRun(i)
      BY <2>2
    <3>2. /\ DOMAIN hit_runs' = DOMAIN hit_runs \ {i} /\ UNCHANGED <<job, serial, compared>>
          /\ \A k \in DOMAIN hit_runs \ {i} : hit_runs'[k] = hit_runs[k]
      BY <3>1 DEF DeleteRun
    <3>3. \A k \in DOMAIN hit_runs' : RunTyped(hit_runs'[k])
      BY <1>1, <3>2 DEF RunTypes
    <3> QED BY <1>9, <3>2, <3>3
  <2> QED BY <1>12, <2>1, <2>2
<1> QED BY <1>3, <1>4, <1>5, <1>6, <1>7, <1>8, <1>10, <1>11, <1>12, RunWritten DEF HitsNext

LEMMA FiguresAlways == HitsSpec => []FiguresInv
<1>1. HitsInit => FiguresInv
  <2> SUFFICES ASSUME HitsInit PROVE FiguresInv
    OBVIOUS
  <2>1. CaseTypes
    <3>1. <<>> \in BoundedSeq(QuestionLists, MaxBatches)
      <4>1. <<>> \in [1..0 -> QuestionLists] /\ 0 \in 0..MaxBatches
        BY HitTestsAssumption
      <4> QED BY <4>1 DEF BoundedSeq, SeqOf
    <3> QED BY <3>1 DEF HitsInit, CaseTypes
  <2>2. RunTypes
    BY HitTestsAssumption DEF HitsInit, RunTypes, RequestTyped, NoJob, Stages
  <2> QED BY <2>1, <2>2, HitsStart DEF FiguresInv
<1>2. FiguresInv /\ [HitsNext]_hit_vars => FiguresInv'
  <2> SUFFICES ASSUME FiguresInv, [HitsNext]_hit_vars PROVE FiguresInv'
    OBVIOUS
  <2>1. HitsInv'
    BY HitsStep DEF FiguresInv
  <2>2. CASE HitsNext
    BY <2>1, <2>2, CasesTyped, RunsTyped DEF FiguresInv
  <2>3. CASE UNCHANGED hit_vars
    <3>1. CaseTypes'
      BY <2>3 DEF hit_vars, FiguresInv, CaseTypes, Sent
    <3>2. RunTypes'
      BY <2>3 DEF hit_vars, FiguresInv, RunTypes, RunTyped, RequestTyped
    <3> QED BY <2>1, <3>1, <3>2 DEF FiguresInv
  <2> QED BY <2>2, <2>3
<1> QED BY <1>1, <1>2, PTL DEF HitsSpec

\* Every variable of the hit-rate tests keeps its type.
THEOREM HitsTyped == HitsSpec => []HitsTypeOK
<1>1. ASSUME FiguresInv PROVE HitsTypeOK
  <2>1. CaseTypes /\ RunTypes /\ Sent \subseteq CaseRow
    BY <1>1, SentTyped DEF FiguresInv
  <2>2. rows \in [Cases -> SUBSET CaseRow]
    BY <2>1 DEF CaseTypes
  <2>3. ASSUME NEW i \in DOMAIN hit_runs, NEW k \in DOMAIN hit_runs[i].ranks
        PROVE  hit_runs[i].ranks[k] \in 0..TopK
    <3>1. hit_runs[i].ranks \in Seq(0..TopK)
      BY <2>1 DEF RunTypes, RunTyped
    <3> QED BY <3>1, ItemOf
  <2>4. \A p \in Testers : \A k \in DOMAIN compared[p] : compared[p][k] \in 1..serial
    BY <2>1 DEF RunTypes
  <2> QED BY <2>1, <2>2, <2>3, <2>4 DEF CaseTypes, RunTypes, RunTyped, RequestTyped, HitsTypeOK
<1> QED BY <1>1, FiguresAlways, PTL

\* The figures of a run are those of its results, for any number of questions
\* and any top_k (calculate_mrr, execute_test_run).
THEOREM FiguresOfResults == HitsSpec => []FiguresFit
<1>1. ASSUME FiguresInv PROVE FiguresFit
  <2> SUFFICES ASSUME NEW i \in DOMAIN hit_runs
               PROVE  LET r == hit_runs[i] IN
                      /\ r.total = Len(r.ranks) /\ r.hits <= r.total
                      /\ r.hits = 0 <=> r.rr = 0
                      /\ r.rr <= r.hits * Units
    BY DEF FiguresFit
  <2>1. RunTyped(hit_runs[i])
    BY <1>1 DEF FiguresInv, RunTypes
  <2>2. hit_runs[i].ranks \in Seq(0..TopK)
    BY <2>1 DEF RunTyped
  <2> QED BY <2>1, <2>2, FiguresAddUp DEF RunTyped
<1> QED BY <1>1, FiguresAlways, PTL

-----------------------------------------------------------------------------
(* Evaluations: samples *)

LEMMA SmallerOf == ASSUME NEW a \in Nat, NEW b \in Nat PROVE Min({a, b}) \in Nat /\ Min({a, b}) <= a /\ Min({a, b}) <= b
<1>1. \E x \in {a, b} : \A y \in {a, b} : x <= y
  OBVIOUS
<1>2. Min({a, b}) \in {a, b} /\ \A y \in {a, b} : Min({a, b}) <= y
  BY <1>1 DEF Min
<1> QED BY <1>2

LEMMA Bounded ==
    ASSUME NEW S, NEW n \in Nat, NEW s
    PROVE  s \in BoundedSeq(S, n) <=> s \in Seq(S) /\ Len(s) <= n
<1>1. ASSUME s \in BoundedSeq(S, n) PROVE s \in Seq(S) /\ Len(s) <= n
  <2>1. PICK k \in 0..n : s \in [1..k -> S]
    BY <1>1 DEF BoundedSeq, SeqOf
  <2>2. k \in Nat /\ k <= n
    BY <2>1
  <2> QED BY <2>1, <2>2, ListOf
<1>2. ASSUME s \in Seq(S), Len(s) <= n PROVE s \in BoundedSeq(S, n)
  <2>1. s \in [1..Len(s) -> S] /\ Len(s) \in 0..n
    BY <1>2, LenProperties
  <2> QED BY <2>1 DEF BoundedSeq, SeqOf
<1> QED BY <1>1, <1>2

\* At most as many samples as asked for, or as the history has, and no more
\* scores than samples.
SampledWell(x) ==
    /\ x.stage \in {"resolving", "scoring"}
    /\ x.specs \in Seq(Specs) /\ Len(x.specs) <= MaxSamples
    /\ x.samples \in Seq(BOOLEAN) /\ Len(x.samples) <= MaxSamples
    /\ Len(x.scored) <= Len(x.samples)
    /\ x.stage = "resolving" /\ x.specs = <<>> => x.samples = <<>>
RagasTypes ==
    /\ RagasInv
    /\ base \in Bases /\ Len(ragas_runs) <= MaxEvaluations /\ broken_off \subseteq DOMAIN ragas_runs
    /\ \A i \in DOMAIN ragas_runs : ragas_runs[i] \in Evaluation
    /\ \A p \in Evaluators : Evaluating(p) => SampledWell(evaluation[p])

LEMMA CappedFits ==
    ASSUME NEW specs \in SpecLists PROVE Capped(specs) \in Seq(Specs) /\ Len(Capped(specs)) <= MaxSamples
<1>1. specs \in Seq(Specs) /\ MaxSamples \in Nat /\ Len(specs) \in Nat
  BY RagasAssumption
<1> DEFINE m == Min({Len(specs), MaxSamples})
<1>2. m \in Nat /\ m <= Len(specs) /\ m <= MaxSamples
  BY <1>1, SmallerOf
<1> HIDE DEF m
<1>3. \A i \in 1..m : specs[i] \in Specs
  BY <1>1, <1>2
<1>4. SubSeq(specs, 1, m) \in Seq(Specs) /\ Len(SubSeq(specs, 1, m)) = m
  BY <1>2, <1>3, SubSeqProperties
<1> QED BY <1>2, <1>4 DEF Capped, m

LEMMA ScoresCounted ==
    ASSUME NEW scored \in Seq(SUBSET Metrics), Len(scored) <= MaxSamples, NEW samples, Len(samples) = Len(scored)
    PROVE  Completed(samples, scored) \in Evaluation
<1>1. Len(scored) \in Nat /\ DOMAIN scored = 1..Len(scored) /\ MaxSamples \in Nat
  BY RagasAssumption
<1>2. IsFiniteSet(1..Len(scored)) /\ Cardinality(1..Len(scored)) = Len(scored)
  <2> DEFINE n == Len(scored)
  <2>1. n \in Nat
    BY <1>1
  <2> HIDE DEF n
  <2>2. n \in Int /\ 1 \in Int
    BY <2>1
  <2>3. IsFiniteSet(1..n) /\ Cardinality(1..n) = n
    <3>1. IsFiniteSet(1..n)
      BY <2>2, FS_Interval
    <3>2. Cardinality(1..n) = IF 1 > n THEN 0 ELSE n - 1 + 1
      BY <2>2, FS_Interval, Zenon
    <3> QED BY <2>1, <3>1, <3>2
  <2> QED BY <2>3 DEF n
<1>3. ASSUME NEW m \in Metrics PROVE Cardinality({i \in DOMAIN scored : m \in scored[i]}) \in 0..MaxSamples
  <2> DEFINE having == {i \in DOMAIN scored : m \in scored[i]}
  <2>1. having \subseteq 1..Len(scored)
    BY <1>1
  <2> HIDE DEF having
  <2>2. IsFiniteSet(having) /\ Cardinality(having) <= Len(scored)
    BY <1>2, <2>1, FS_Subset
  <2>3. Cardinality(having) \in 0..MaxSamples
    BY <1>1, <2>2, FS_CardinalityType
  <2> QED BY <2>3 DEF having
<1>4. Successes(scored) \in [Metrics -> 0..MaxSamples]
  BY <1>3 DEF Successes
<1>5. scored \in Scores
  BY <1>1, Bounded DEF Scores
<1>6. Len(samples) \in 0..MaxSamples
  BY <1>1
<1> QED BY <1>4, <1>5, <1>6 DEF Completed, Evaluation

LEMMA NothingIsTyped == NewEvaluation \in Evaluation /\ [NewEvaluation EXCEPT !.status = "gone"] \in Evaluation
<1>1. <<>> \in Scores
  <2>1. MaxSamples \in Nat /\ <<>> \in Seq(SUBSET Metrics) /\ Len(<<>>) <= MaxSamples
    BY RagasAssumption
  <2> QED BY <2>1, Bounded DEF Scores
<1>2. [m \in Metrics |-> 0] \in [Metrics -> 0..MaxSamples] /\ 0 \in 0..MaxSamples
  BY RagasAssumption
<1> QED BY <1>1, <1>2 DEF NewEvaluation, Evaluation

\* A request goes on or stops; runs stay.
LEMMA SamplesGoOn ==
    ASSUME RagasTypes, RagasInv', NEW p \in Evaluators,
           \A q \in Evaluators \ {p} : evaluation'[q] = evaluation[q],
           UNCHANGED <<base, ragas_runs>>, broken_off' \subseteq DOMAIN ragas_runs,
           evaluation'[p] # None => SampledWell(evaluation'[p])
    PROVE  RagasTypes'
<1>1. ASSUME NEW q \in Evaluators, Evaluating(q)' PROVE SampledWell(evaluation[q])'
  <2>1. SampledWell(evaluation'[q])
    BY <1>1 DEF RagasTypes, Evaluating
  <2> QED BY <2>1 DEF SampledWell
<1>2. \A i \in DOMAIN ragas_runs' : ragas_runs'[i] \in Evaluation
  BY DEF RagasTypes
<1> QED BY <1>1, <1>2 DEF RagasTypes

LEMMA RagasTypesStep == RagasTypes /\ [RagasNext]_ragas_vars => RagasTypes'
<1> SUFFICES ASSUME RagasTypes, [RagasNext]_ragas_vars PROVE RagasTypes'
  OBVIOUS
<1>1. RagasInv'
  BY RagasStep DEF RagasTypes
<1>2. DOMAIN evaluation = Evaluators /\ MaxSamples \in Nat /\ MaxEvaluations \in Nat /\ RagasInv
  BY RagasAssumption DEF RagasTypes, RagasInv
<1>3. ASSUME NEW p \in Evaluators, Fail(p) \/ BreakOffRun(p) PROVE RagasTypes'
  <2>1. evaluation' = [evaluation EXCEPT ![p] = None] /\ UNCHANGED <<base, ragas_runs>>
    BY <1>3 DEF Fail, BreakOffRun
  <2>2. broken_off' \subseteq DOMAIN ragas_runs
    BY <1>2, <1>3 DEF Fail, BreakOffRun, RagasTypes, RequestsOwn, RagasInv
  <2> QED BY <1>1, <1>2, <2>1, <2>2, SamplesGoOn
<1>4. ASSUME NEW p \in Evaluators, Evaluating(p), NEW samples \in Seq(BOOLEAN),
             Len(evaluation[p].samples) + Len(samples) <= MaxSamples,
             evaluation[p].specs = <<>> \/ Len(samples) > 0, Resolve(p, samples)
      PROVE  RagasTypes'
  <2> DEFINE e == evaluation[p]
             x == [e EXCEPT !.samples = @ \o samples,
                            !.stage = IF Len(e.samples \o samples) >= Len(e.specs) THEN "scoring" ELSE @]
  <2>1. evaluation' = [evaluation EXCEPT ![p] = x] /\ UNCHANGED <<base, ragas_runs, broken_off>>
    BY <1>4 DEF Resolve
  <2>2. {"stage", "run", "specs", "samples", "scored"} \subseteq DOMAIN e /\ SampledWell(e)
    BY <1>2, <1>4 DEF RagasTypes, RequestsOwn, RagasInv
  <2>3. /\ e.samples \o samples \in Seq(BOOLEAN) /\ Len(e.samples \o samples) = Len(e.samples) + Len(samples)
        /\ Len(e.samples) \in Nat /\ Len(samples) \in Nat
    BY <2>2, ConcatProperties DEF SampledWell
  <2>4. /\ x.samples = e.samples \o samples /\ x.specs = e.specs /\ x.scored = e.scored
        /\ x.stage = IF Len(e.samples \o samples) >= Len(e.specs) THEN "scoring" ELSE e.stage
    BY <2>2
  <2>5. e.scored \in Seq(SUBSET Metrics)
    BY <1>2, <1>4 DEF RequestsOwn, RagasInv
  <2> HIDE DEF e, x
  <2>6. Len(e.scored) <= Len(x.samples) /\ Len(x.samples) <= MaxSamples
    <3>1. Len(e.scored) \in Nat /\ Len(e.scored) <= Len(e.samples)
      BY <2>2, <2>5 DEF SampledWell
    <3> QED BY <1>4, <2>3, <2>4, <3>1 DEF e
  <2>7. x.stage = "resolving" /\ x.specs = <<>> => x.samples = <<>>
    <3>1. CASE e.specs = <<>>
      <4>1. Len(e.specs) = 0
        BY <3>1
      <4> QED BY <2>3, <2>4, <4>1
    <3>2. CASE e.specs # <<>>
      BY <2>4, <3>2
    <3> QED BY <3>1, <3>2
  <2>8. SampledWell(x)
    BY <2>2, <2>3, <2>4, <2>6, <2>7 DEF SampledWell
  <2>9. broken_off' \subseteq DOMAIN ragas_runs
    BY <2>1 DEF RagasTypes
  <2> QED BY <1>1, <1>2, <2>1, <2>8, <2>9, SamplesGoOn
<1>5. ASSUME NEW p \in Evaluators, NEW samples \in Samples, CollectHistory(p, samples) PROVE RagasTypes'
  <2>1. Evaluating(p) /\ evaluation[p].specs = <<>> /\ evaluation[p].stage = "resolving"
    BY <1>5 DEF CollectHistory
  <2>2. evaluation[p].samples = <<>> /\ Len(evaluation[p].samples) = 0
    BY <2>1 DEF RagasTypes, SampledWell
  <2>3. samples \in Seq(BOOLEAN) /\ Len(samples) <= MaxSamples
    BY <1>2, Bounded DEF Samples
  <2>4. Fail(p) \/ Resolve(p, samples)
    BY <1>5 DEF CollectHistory
  <2> QED BY <1>3, <1>4, <2>1, <2>2, <2>3, <2>4
<1>6. ASSUME NEW p \in Evaluators, NEW yes \in BOOLEAN, LoadHistorical(p, yes) \/ MaterializeQuestion(p, yes)
      PROVE  RagasTypes'
  <2>1. Pending(p)
    BY <1>6 DEF LoadHistorical, MaterializeQuestion
  <2>2. Evaluating(p) /\ Len(evaluation[p].samples) < Len(evaluation[p].specs) /\ SampledWell(evaluation[p])
    BY <2>1 DEF Pending, RagasTypes
  <2>3. /\ Len(evaluation[p].samples) \in Nat /\ Len(evaluation[p].specs) \in Nat
        /\ Len(evaluation[p].samples) + 1 \in DOMAIN evaluation[p].specs
    BY <2>2 DEF SampledWell
  <2>4. SampleSpec(p) \in Specs
    <3>1. evaluation[p].specs \in Seq(Specs)
      BY <2>2 DEF SampledWell
    <3> QED BY <2>3, <3>1, ItemOf DEF SampleSpec
  <2>5. SampleSpec(p).reference \in BOOLEAN
    BY <2>4 DEF Specs
  <2>6. ASSUME NEW sample \in BOOLEAN, Resolve(p, <<sample>>) PROVE RagasTypes'
    <3> DEFINE one == <<sample>>
    <3>1. one \in Seq(BOOLEAN) /\ Len(one) = 1
      OBVIOUS
    <3>2. Resolve(p, one)
      BY <2>6
    <3> HIDE DEF one
    <3>3. Len(evaluation[p].samples) + Len(one) <= MaxSamples /\ Len(one) > 0
      BY <1>2, <2>2, <2>3, <3>1 DEF SampledWell
    <3> QED BY <1>4, <2>2, <3>1, <3>2, <3>3
  <2>7. (SampleSpec(p).reference \/ yes) \in BOOLEAN
    BY <2>5
  <2>8. \/ Fail(p) \/ Resolve(p, <<SampleSpec(p).reference>>)
        \/ Resolve(p, <<SampleSpec(p).reference \/ yes>>)
    BY <1>6 DEF LoadHistorical, MaterializeQuestion
  <2> QED BY <1>3, <2>5, <2>6, <2>7, <2>8
<1>7. ASSUME NEW p \in Evaluators, NEW succeeded \in SUBSET Metrics, ScoreSample(p, succeeded) PROVE RagasTypes'
  <2> DEFINE e == evaluation[p]
             x == [e EXCEPT !.scored = Append(@, succeeded)]
  <2>1. /\ Evaluating(p) /\ e.stage = "scoring" /\ Len(e.scored) < Len(e.samples)
        /\ evaluation' = [evaluation EXCEPT ![p] = x] /\ UNCHANGED <<base, ragas_runs, broken_off>>
    BY <1>7 DEF ScoreSample
  <2>2. /\ {"stage", "run", "specs", "samples", "scored"} \subseteq DOMAIN e /\ SampledWell(e)
        /\ e.scored \in Seq(SUBSET Metrics)
    BY <1>2, <2>1 DEF RagasTypes, RequestsOwn, RagasInv
  <2>3. x.samples = e.samples /\ x.specs = e.specs /\ x.scored = Append(e.scored, succeeded) /\ x.stage = e.stage
    BY <2>2
  <2>4. Len(x.scored) <= Len(x.samples)
    <3>1. Len(e.scored) \in Nat /\ Len(e.samples) \in Nat /\ Len(Append(e.scored, succeeded)) = Len(e.scored) + 1
      BY <2>2 DEF SampledWell
    <3> HIDE DEF e, x
    <3> QED BY <2>1, <2>3, <3>1
  <2>5. broken_off' \subseteq DOMAIN ragas_runs
    BY <2>1 DEF RagasTypes
  <2> HIDE DEF e, x
  <2>6. SampledWell(x)
    BY <2>1, <2>2, <2>3, <2>4 DEF SampledWell
  <2> QED BY <1>1, <1>2, <2>1, <2>5, <2>6, SamplesGoOn
\* Runs that are added, completed or taken along.
<1>8. ASSUME base' \in Bases, DOMAIN ragas_runs \subseteq DOMAIN ragas_runs', UNCHANGED broken_off,
             Len(ragas_runs') <= MaxEvaluations,
             \A i \in DOMAIN ragas_runs' : ragas_runs'[i] \in Evaluation,
             \A q \in Evaluators : evaluation'[q] \in {evaluation[q], None} \/ SampledWell(evaluation'[q])
      PROVE  RagasTypes'
  <2>1. ASSUME NEW q \in Evaluators, Evaluating(q)' PROVE SampledWell(evaluation[q])'
    <3>1. SampledWell(evaluation'[q])
      BY <1>8, <2>1 DEF RagasTypes, Evaluating
    <3> QED BY <3>1 DEF SampledWell
  <2> QED BY <1>1, <1>8, <2>1 DEF RagasTypes
<1>9. ASSUME NEW p \in Evaluators, NEW specs \in SpecLists, StartEvaluation(p, specs) PROVE RagasTypes'
  <2> DEFINE x == [stage |-> "resolving", run |-> Len(ragas_runs) + 1, specs |-> Capped(specs),
                   samples |-> <<>>, scored |-> <<>>]
  <2>1. /\ Len(ragas_runs) < MaxEvaluations /\ ragas_runs' = Append(ragas_runs, NewEvaluation)
        /\ evaluation' = [evaluation EXCEPT ![p] = x] /\ UNCHANGED <<base, broken_off>>
    BY <1>9 DEF StartEvaluation
  <2>2. SampledWell(x)
    BY <1>2, CappedFits DEF SampledWell
  <2> HIDE DEF x
  <2>3. /\ ragas_runs \in Seq(RunRows) /\ Len(ragas_runs) \in Nat
        /\ DOMAIN ragas_runs = 1..Len(ragas_runs) /\ DOMAIN ragas_runs' = 1..(Len(ragas_runs) + 1)
        /\ Len(ragas_runs') = Len(ragas_runs) + 1
        /\ \A i \in DOMAIN ragas_runs : ragas_runs'[i] = ragas_runs[i]
        /\ ragas_runs'[Len(ragas_runs) + 1] = NewEvaluation
    BY <1>2, <2>1 DEF RagasInv
  <2>4. \A i \in DOMAIN ragas_runs' : ragas_runs'[i] \in Evaluation
    BY <2>3, NothingIsTyped DEF RagasTypes
  <2>5. \A q \in Evaluators : evaluation'[q] \in {evaluation[q], None} \/ SampledWell(evaluation'[q])
    BY <1>2, <2>1, <2>2
  <2>6. base' \in Bases
    BY <2>1 DEF RagasTypes
  <2> QED BY <1>2, <1>8, <2>1, <2>3, <2>4, <2>5, <2>6
<1>10. ASSUME NEW p \in Evaluators, Complete(p) PROVE RagasTypes'
  <2> DEFINE e == evaluation[p]
  <2>1. CASE Fail(p)
    BY <1>3, <2>1
  <2>2. CASE ~Fail(p)
    <3>1. /\ Evaluating(p) /\ Len(e.scored) = Len(e.samples)
          /\ ragas_runs' = [ragas_runs EXCEPT ![e.run] = Completed(e.samples, e.scored)]
          /\ evaluation' = [evaluation EXCEPT ![p] = None] /\ UNCHANGED <<base, broken_off>>
      BY <1>10, <2>2 DEF Complete
    <3>2. SampledWell(e) /\ e.scored \in Seq(SUBSET Metrics)
      BY <1>2, <3>1 DEF RagasTypes, RequestsOwn, RagasInv
    <3>3. Completed(e.samples, e.scored) \in Evaluation
      BY <3>1, <3>2, ScoresCounted DEF SampledWell
    <3>4. Len(ragas_runs') = Len(ragas_runs) /\ DOMAIN ragas_runs' = DOMAIN ragas_runs
      <4>1. ragas_runs \in Seq(RunRows) /\ ragas_runs' \in Seq(RunRows) /\ DOMAIN ragas_runs' = DOMAIN ragas_runs
        BY <1>1, <1>2, <3>1 DEF RagasInv
      <4>2. Len(ragas_runs) \in Nat /\ Len(ragas_runs') \in Nat /\ 1..Len(ragas_runs) = 1..Len(ragas_runs')
        BY <4>1
      <4> QED BY <4>1, <4>2
    <3> HIDE DEF e
    <3>5. \A i \in DOMAIN ragas_runs' : ragas_runs'[i] \in Evaluation
      BY <3>1, <3>3, <3>4 DEF RagasTypes
    <3>6. \A q \in Evaluators : evaluation'[q] \in {evaluation[q], None}
      BY <1>2, <3>1
    <3>7. base' \in Bases /\ Len(ragas_runs') <= MaxEvaluations
      BY <3>1, <3>4 DEF RagasTypes
    <3> QED BY <1>8, <3>1, <3>4, <3>5, <3>6, <3>7
  <2> QED BY <2>1, <2>2
<1>11. ASSUME NEW permanent \in BOOLEAN, DeleteBase(permanent) PROVE RagasTypes'
  <2>1. base' \in Bases /\ UNCHANGED <<evaluation, broken_off>>
    BY <1>11 DEF DeleteBase, Bases
  <2>2. /\ ragas_runs' \in Seq(RunRows) /\ ragas_runs \in Seq(RunRows) /\ DOMAIN ragas_runs' = DOMAIN ragas_runs
        /\ \A i \in DOMAIN ragas_runs' : ragas_runs'[i] \in {ragas_runs[i], [NewEvaluation EXCEPT !.status = "gone"]}
    BY <1>1, <1>2, <1>11 DEF DeleteBase, RagasInv
  <2>3. Len(ragas_runs') = Len(ragas_runs)
    <3>1. Len(ragas_runs) \in Nat /\ Len(ragas_runs') \in Nat /\ 1..Len(ragas_runs) = 1..Len(ragas_runs')
      BY <2>2
    <3> QED BY <3>1
  <2>4. \A i \in DOMAIN ragas_runs' : ragas_runs'[i] \in Evaluation
    BY <2>2, NothingIsTyped DEF RagasTypes
  <2>5. Len(ragas_runs') <= MaxEvaluations
    BY <2>3 DEF RagasTypes
  <2> QED BY <1>8, <2>1, <2>2, <2>4, <2>5
<1>12. CASE PublishBase \/ UNCHANGED ragas_vars
  <2>1. base' \in Bases /\ UNCHANGED <<ragas_runs, evaluation, broken_off>>
    BY <1>12 DEF PublishBase, ragas_vars, RagasTypes, Bases
  <2> QED BY <1>8, <2>1 DEF RagasTypes
<1> QED BY <1>3, <1>5, <1>6, <1>7, <1>9, <1>10, <1>11, <1>12 DEF RagasNext, BreakDown

\* Every variable of the evaluations keeps its type: no more samples than the
\* limit, whatever a client asks for (resolve_samples).
THEOREM EvaluationsTyped == RagasSpec => []RagasTypeOK
<1>1. RagasInit => RagasTypes
  BY RagasStarts, RagasAssumption DEF RagasInit, RagasTypes, Bases, Evaluating
<1>2. ASSUME RagasTypes PROVE RagasTypeOK
  <2>1. RagasInv /\ MaxSamples \in Nat
    BY <1>2, RagasAssumption DEF RagasTypes
  <2>2. ragas_runs \in Seq(Evaluation)
    <3>1. ragas_runs \in [1..Len(ragas_runs) -> Evaluation] /\ Len(ragas_runs) \in Nat
      <4>1. ragas_runs \in Seq(RunRows)
        BY <2>1 DEF RagasInv
      <4>2. ragas_runs \in [1..Len(ragas_runs) -> RunRows] /\ Len(ragas_runs) \in Nat
        BY <4>1, LenProperties
      <4> QED BY <1>2, <4>2 DEF RagasTypes
    <3> QED BY <3>1, ListOf
  <2>3. ASSUME NEW p \in Evaluators, Evaluating(p)
        PROVE  /\ evaluation[p].stage \in {"resolving", "scoring"}
               /\ evaluation[p].run \in DOMAIN ragas_runs
               /\ evaluation[p].specs \in BoundedSeq(Specs, MaxSamples)
               /\ evaluation[p].samples \in Samples
               /\ evaluation[p].scored \in Scores
    <3>1. SampledWell(evaluation[p])
      BY <1>2, <2>3 DEF RagasTypes
    <3>2. evaluation[p].run \in DOMAIN ragas_runs /\ evaluation[p].scored \in Seq(SUBSET Metrics)
      BY <2>1, <2>3 DEF RagasInv, RequestsOwn
    <3>3. Len(evaluation[p].scored) <= MaxSamples
      <4>1. Len(evaluation[p].scored) \in Nat /\ Len(evaluation[p].samples) \in Nat
        BY <3>1, <3>2 DEF SampledWell
      <4> QED BY <2>1, <3>1, <4>1 DEF SampledWell
    <3> QED BY <2>1, <3>1, <3>2, <3>3, Bounded DEF SampledWell, Samples, Scores
  <2> QED BY <1>2, <2>2, <2>3 DEF RagasTypes, RagasTypeOK, Evaluating
<1> QED BY <1>1, <1>2, RagasTypesStep, PTL DEF RagasSpec

-----------------------------------------------------------------------------
(* Sequences of sequences, and the batches of a table *)

\* FlattenSeq, step by step.
Flattens(f, s) == f[0] = <<>> /\ \A i \in 1..Len(s) : f[i] = f[i - 1] \o s[i]

LEMMA FlattensIs ==
    ASSUME NEW T, NEW s \in Seq(Seq(T)), NEW f \in [0..Len(s) -> Seq(T)], Flattens(f, s)
    PROVE  FlattenSeq(s) = f[Len(s)]
<1> DEFINE n == Len(s)
           flatten[i \in 1..Len(s)] == IF i = 1 THEN s[i] ELSE flatten[i - 1] \o s[i]
           g == [i \in 1..n |-> f[i]]
<1>1. n \in Nat /\ \A i \in 1..n : s[i] \in Seq(T) /\ f[i] = f[i - 1] \o s[i] /\ i - 1 \in 0..n
  BY DEF Flattens
<1>a. ASSUME 1 \in 1..n PROVE f[1] = s[1]
  <2>1. f[1] = f[1 - 1] \o s[1] /\ s[1] \in Seq(T)
    BY <1>1, <1>a
  <2>2. f[1 - 1] = <<>>
    BY DEF Flattens
  <2> QED BY <2>1, <2>2, ConcatEmptySeq
<1>2. CASE n = 0
  <2>1. FlattenSeq(s) = s /\ s = <<>>
    BY <1>2, EmptySeq DEF FlattenSeq
  <2> QED BY <1>2, <2>1 DEF Flattens
<1>3. CASE n # 0
  <2>1. ASSUME NEW i \in 1..n PROVE g[i] = IF i = 1 THEN s[i] ELSE g[i - 1] \o s[i]
    <3>1. CASE i = 1
      <4>1. f[1] = s[1]
        BY <1>a, <3>1
      <4> QED BY <3>1, <4>1
    <3>2. CASE i # 1
      <4>1. i - 1 \in 1..n
        BY <1>1, <3>2
      <4> QED BY <1>1, <3>2, <4>1
    <3> QED BY <3>1, <3>2
  <2>2. g = [i \in 1..n |-> IF i = 1 THEN s[i] ELSE g[i - 1] \o s[i]]
    BY <2>1
  <2> HIDE DEF g
  <2>3. flatten = [i \in 1..n |-> IF i = 1 THEN s[i] ELSE flatten[i - 1] \o s[i]]
    BY <2>2
  <2>4. FlattenSeq(s) = flatten[n]
    BY <1>3 DEF FlattenSeq
  <2>x. \A i \in 1..n : flatten[i] = IF i = 1 THEN s[i] ELSE flatten[i - 1] \o s[i]
    <3> HIDE DEF flatten
    <3> QED BY <2>3
  <2> HIDE DEF flatten
  <2> DEFINE Same == {i \in Nat : i <= n => flatten[i] = f[i] \/ i = 0}
  <2>5. 0 \in Same
    OBVIOUS
  <2>6. ASSUME NEW i \in Same PROVE i + 1 \in Same
    <3> SUFFICES ASSUME i + 1 <= n PROVE flatten[i + 1] = f[i + 1]
      OBVIOUS
    <3>1. i \in Nat /\ i + 1 \in 1..n /\ (i + 1) - 1 = i
      BY <1>1
    <3>2. f[i + 1] = f[i] \o s[i + 1]
      BY <1>1, <3>1
    <3>3. CASE i = 0
      <4>1. f[1] = s[1]
        BY <1>a, <3>1, <3>3
      <4>2. flatten[1] = s[1]
        BY <2>x, <3>1, <3>3
      <4> QED BY <3>3, <4>1, <4>2
    <3>4. CASE i # 0
      <4>1. flatten[i] = f[i]
        BY <1>1, <3>1, <3>4
      <4>2. flatten[i + 1] = flatten[i] \o s[i + 1]
        <5>1. i + 1 # 1 /\ i + 1 \in 1..n
          BY <3>1, <3>4
        <5>2. flatten[i + 1] = flatten[(i + 1) - 1] \o s[i + 1]
          BY <2>x, <5>1
        <5> QED BY <3>1, <5>2
      <4> QED BY <3>2, <4>1, <4>2
    <3> QED BY <3>3, <3>4
  <2>7. n \in Same
    <3>1. Same \subseteq Nat
      OBVIOUS
    <3> HIDE DEF Same
    <3> QED BY <1>1, <2>5, <2>6, <3>1, Upwards
  <2> QED BY <1>1, <1>3, <2>4, <2>7
<1> QED BY <1>2, <1>3

LEMMA FlattensThereIs ==
    ASSUME NEW T, NEW s \in Seq(Seq(T))
    PROVE  \E f \in [0..Len(s) -> Seq(T)] : Flattens(f, s)
<1> DEFINE V == Seq(T)
           v == <<>>
           n == Len(s)
           step == [p \in (1..n) \X V |-> p[2] \o s[p[1]]]
<1>1. n \in Nat /\ \A i \in 1..n : s[i] \in V
  OBVIOUS
<1>2. v \in V
  OBVIOUS
<1>3. step \in [(1..n) \X V -> V]
  <2>1. ASSUME NEW i \in 1..n, NEW a \in V PROVE a \o s[i] \in V
    BY <1>1, ConcatProperties
  <2> QED BY <2>1
<1>4. \A i \in 1..n, a \in V : step[<<i, a>>] = a \o s[i]
  OBVIOUS
<1> HIDE DEF step, V, v, n
<1>5. PICK f \in [0..n -> V] : BuiltBy(f, v, step, n)
  BY <1>1, <1>2, <1>3, StepByStep
<1>6. \A i \in 1..n : f[i - 1] \in V
  BY <1>1
<1>7. f[0] = <<>> /\ \A i \in 1..n : f[i] = f[i - 1] \o s[i]
  BY <1>4, <1>5, <1>6 DEF BuiltBy, v
<1> QED BY <1>7 DEF V, n, Flattens

LEMMA FlattenTyped ==
    ASSUME NEW T, NEW s \in Seq(Seq(T)) PROVE FlattenSeq(s) \in Seq(T)
<1>1. PICK f \in [0..Len(s) -> Seq(T)] : Flattens(f, s)
  BY FlattensThereIs
<1>2. FlattenSeq(s) = f[Len(s)] /\ Len(s) \in 0..Len(s)
  BY <1>1, FlattensIs
<1> QED BY <1>2

LEMMA FlattenAppend ==
    ASSUME NEW T, NEW s \in Seq(Seq(T)), NEW x \in Seq(T)
    PROVE  FlattenSeq(Append(s, x)) = FlattenSeq(s) \o x
<1> DEFINE n == Len(s)
           t == Append(s, x)
<1>1. PICK f \in [0..n -> Seq(T)] : Flattens(f, s)
  BY FlattensThereIs
<1>2. /\ n \in Nat /\ t \in Seq(Seq(T)) /\ Len(t) = n + 1
      /\ \A i \in 1..n : t[i] = s[i]
      /\ t[n + 1] = x
  OBVIOUS
<1> DEFINE g == [i \in 0..(n + 1) |-> IF i = n + 1 THEN f[n] \o x ELSE f[i]]
<1>3. f[n] \in Seq(T) /\ f[n] \o x \in Seq(T)
  <2>1. f[n] \in Seq(T)
    BY <1>2
  <2> QED BY <2>1, ConcatProperties
<1>4. g \in [0..(n + 1) -> Seq(T)]
  BY <1>2, <1>3
<1>5. g[n + 1] = f[n] \o x /\ g[0] = <<>>
  BY <1>1, <1>2 DEF Flattens
<1>6. ASSUME NEW i \in 1..(n + 1) PROVE g[i] = g[i - 1] \o t[i]
  <2>1. i - 1 \in 0..(n + 1) /\ i - 1 # n + 1
    BY <1>2
  <2>2. g[i - 1] = f[i - 1]
    BY <2>1
  <2>3. CASE i = n + 1
    <3>1. (n + 1) - 1 = n /\ t[i] = x /\ g[i] = f[n] \o x /\ g[i - 1] = f[n]
      BY <1>2, <1>5, <2>2, <2>3
    <3> QED BY <3>1
  <2>4. CASE i # n + 1
    <3>1. i \in 1..n /\ g[i] = f[i]
      BY <1>2, <2>4
    <3>2. f[i] = f[i - 1] \o s[i]
      BY <1>1, <3>1 DEF Flattens
    <3> QED BY <1>2, <2>2, <3>1, <3>2
  <2> QED BY <2>3, <2>4
<1> HIDE DEF t, g
<1>7. FlattenSeq(t) = g[n + 1]
  BY <1>2, <1>4, <1>5, <1>6, FlattensIs DEF Flattens
<1>8. FlattenSeq(s) = f[n]
  BY <1>1, FlattensIs
<1> QED BY <1>5, <1>7, <1>8 DEF t

Regroups(a, b, c) == (a \o b) \o c = a \o (b \o c)
LEMMA Associates == \A T : \A a, b, c \in Seq(T) : Regroups(a, b, c)
  BY DEF Regroups

LEMMA FlattenHead ==
    ASSUME NEW T, NEW s \in Seq(Seq(T)), s # <<>>
    PROVE  FlattenSeq(s) = Head(s) \o FlattenSeq(Tail(s))
<1> DEFINE n == Len(s)
           t == Tail(s)
           h == Head(s)
<1>1. /\ n \in Nat /\ n >= 1 /\ h \in Seq(T) /\ h = s[1] /\ t \in Seq(Seq(T)) /\ Len(t) = n - 1
      /\ \A i \in 1..(n - 1) : t[i] = s[i + 1]
      /\ Len(s) = n /\ \A i \in 1..n : s[i] \in Seq(T)
  <2>1. n \in Nat /\ n # 0
    BY EmptySeq
  <2> QED BY <2>1, HeadTailProperties
<1> HIDE DEF h, t, n
<1>2. PICK f \in [0..(n - 1) -> Seq(T)] : Flattens(f, t)
  BY <1>1, FlattensThereIs
<1> DEFINE g == [i \in 0..n |-> IF i = 0 THEN <<>> ELSE h \o f[i - 1]]
<1>3. \A i \in 0..n : i # 0 => i - 1 \in 0..(n - 1) /\ f[i - 1] \in Seq(T) /\ g[i] = h \o f[i - 1]
  <2> SUFFICES ASSUME NEW i \in 0..n, i # 0
               PROVE  i - 1 \in 0..(n - 1) /\ f[i - 1] \in Seq(T) /\ g[i] = h \o f[i - 1]
    OBVIOUS
  <2>1. i - 1 \in 0..(n - 1)
    BY <1>1
  <2>2. f[i - 1] \in Seq(T)
    BY <2>1
  <2> QED BY <2>1, <2>2
<1>4. g \in [0..n -> Seq(T)] /\ g[0] = <<>>
  <2>1. \A i \in 0..n : i # 0 => h \o f[i - 1] \in Seq(T)
    BY <1>1, <1>3, ConcatProperties
  <2> QED BY <1>1, <2>1
<1>5. ASSUME NEW i \in 1..n PROVE g[i] = g[i - 1] \o s[i]
  <2>1. s[i] \in Seq(T) /\ g[i] = h \o f[i - 1] /\ i \in 0..n /\ i - 1 \in 0..n
    BY <1>1, <1>3
  <2>2. CASE i = 1
    <3>1. f[0] = <<>> /\ g[1] = h \o f[0] /\ g[0] = <<>>
      <4>1. f[0] = <<>>
        BY <1>2 DEF Flattens
      <4>2. i - 1 = 0
        BY <2>2
      <4>3. g[1] = h \o f[0]
        BY <2>1, <2>2, <4>2
      <4> QED BY <1>4, <4>1, <4>3
    <3>2. h \o <<>> = h /\ <<>> \o s[1] = s[1]
      BY <1>1, <2>1, <2>2, ConcatEmptySeq
    <3> QED BY <1>1, <2>2, <3>1, <3>2
  <2>3. CASE i # 1
    <3>1. i - 1 \in 1..(n - 1) /\ i - 2 \in 0..(n - 1) /\ i - 1 # 0
      BY <1>1, <2>3
    <3>2. f[i - 1] = f[i - 2] \o t[i - 1] /\ t[i - 1] = s[i]
      <4>1. f[i - 1] = f[(i - 1) - 1] \o t[i - 1]
        BY <1>1, <1>2, <3>1 DEF Flattens
      <4>2. (i - 1) - 1 = i - 2 /\ (i - 1) + 1 = i
        OBVIOUS
      <4> QED BY <1>1, <3>1, <4>1, <4>2
    <3>3. g[i - 1] = h \o f[i - 2]
      <4>1. g[i - 1] = h \o f[(i - 1) - 1] /\ (i - 1) - 1 = i - 2
        BY <1>3, <2>1, <3>1
      <4> QED BY <4>1
    <3>4. f[i - 2] \in Seq(T)
      BY <3>1
    <3>5. (h \o f[i - 2]) \o s[i] = h \o (f[i - 2] \o s[i])
      <4>1. Regroups(h, f[i - 2], s[i])
        BY <1>1, <2>1, <3>4, Associates
      <4> QED BY <4>1, Zenon DEF Regroups
    <3> HIDE DEF g
    <3> QED BY <2>1, <3>2, <3>3, <3>5
  <2> QED BY <2>2, <2>3
<1> HIDE DEF g
<1>6. FlattenSeq(s) = g[n]
  BY <1>1, <1>4, <1>5, FlattensIs DEF Flattens
<1>7. FlattenSeq(t) = f[n - 1]
  BY <1>1, <1>2, FlattensIs
<1>8. g[n] = h \o f[n - 1]
  BY <1>1, <1>3
<1> QED BY <1>6, <1>7, <1>8 DEF h, t

LEMMA FlattenNothing ==
    ASSUME NEW T, NEW s \in Seq(Seq(T)), \A i \in DOMAIN s : s[i] = <<>> PROVE FlattenSeq(s) = <<>>
<1> DEFINE f == [i \in 0..Len(s) |-> <<>>]
<1>1. Len(s) \in Nat /\ DOMAIN s = 1..Len(s) /\ <<>> \in Seq(T)
  OBVIOUS
<1>2. <<>> \o <<>> = <<>>
  BY <1>1, ConcatEmptySeq
<1>3. f \in [0..Len(s) -> Seq(T)] /\ f[0] = <<>>
  BY <1>1
<1>4. ASSUME NEW i \in 1..Len(s) PROVE f[i] = f[i - 1] \o s[i]
  <2>1. i \in 0..Len(s) /\ i - 1 \in 0..Len(s) /\ s[i] = <<>>
    BY <1>1
  <2> QED BY <1>2, <2>1
<1>5. f[Len(s)] = <<>>
  BY <1>1
<1> HIDE DEF f
<1> QED BY <1>3, <1>4, <1>5, FlattensIs DEF Flattens

LEMMA BytesTyped == ASSUME NEW sizes \in Seq(Nat) PROVE Bytes(sizes) \in Nat
<1> DEFINE n == Len(sizes)
           total[i \in 0..Len(sizes)] == IF i = 0 THEN Header ELSE total[i - 1] + sizes[i]
           step == [p \in (1..n) \X Nat |-> p[2] + sizes[p[1]]]
<1>1. n \in Nat /\ Header \in Nat /\ \A i \in 1..n : sizes[i] \in Nat
  BY ExternalAssumption
<1>2. \E g \in [0..n -> Nat] : BuiltBy(g, Header, step, n)
  <2> DEFINE V == Nat
  <2>1. Header \in V /\ n \in Nat /\ step \in [(1..n) \X V -> V]
    BY <1>1
  <2> HIDE DEF step, n, total, V
  <2>2. \E g \in [0..n -> V] : BuiltBy(g, Header, step, n)
    BY <2>1, StepByStep
  <2> QED BY <2>2 DEF V
<1>3. PICK g \in [0..n -> Nat] : g[0] = Header /\ \A i \in 1..n : g[i] = step[<<i, g[i - 1]>>]
  BY <1>2 DEF BuiltBy
<1>4. \A i \in 0..n : i # 0 => i \in 1..n /\ i - 1 \in 0..n /\ g[i - 1] \in Nat
  BY <1>1
<1>5. g = [i \in 0..n |-> IF i = 0 THEN Header ELSE g[i - 1] + sizes[i]]
  BY <1>1, <1>3, <1>4
<1>6. total = [i \in 0..n |-> IF i = 0 THEN Header ELSE total[i - 1] + sizes[i]]
  BY <1>5
<1>7. Bytes(sizes) = total[n]
  BY DEF Bytes
<1> HIDE DEF step, total
<1> DEFINE T == {i \in Nat : i <= n => total[i] \in Nat}
<1>8. 0 \in T
  BY <1>1, <1>6
<1>9. ASSUME NEW i \in T PROVE i + 1 \in T
  <2> SUFFICES ASSUME i + 1 <= n PROVE total[i + 1] \in Nat
    OBVIOUS
  <2>1. i \in Nat /\ i + 1 \in 0..n /\ i + 1 # 0 /\ (i + 1) - 1 = i /\ i + 1 \in 1..n
    BY <1>1
  <2>2. total[i + 1] = total[i] + sizes[i + 1]
    BY <1>6, <2>1
  <2>3. total[i] \in Nat
    BY <1>1, <2>1
  <2> QED BY <1>1, <2>1, <2>2, <2>3
<1>10. n \in T
  <2>1. T \subseteq Nat
    OBVIOUS
  <2> HIDE DEF T
  <2> QED BY <2>1, <1>1, <1>8, <1>9, Upwards
<1> QED BY <1>1, <1>7, <1>10

\* A batch that split_markdown_batches makes: more than one row only within the limit.
FitsLimit(b) == Len(b) > 1 => Bytes(b) <= MaxBytes
Batched == {b \in Seq(Nat) \ {<<>>} : FitsLimit(b)}
Splits == {s \in [batches : Seq(Batched), batch : Seq(Nat)] : s.batch = <<>> \/ s.batch \in Batched}
HeldRows(s) == FlattenSeq(s.batches) \o s.batch

LEMMA BatchesAreRows == ASSUME NEW s \in Seq(Batched) PROVE s \in Seq(Seq(Nat)) /\ FlattenSeq(s) \in Seq(Nat)
<1>1. Batched \subseteq Seq(Nat)
  BY DEF Batched
<1>2. s \in Seq(Seq(Nat))
  BY <1>1, Widens
<1> QED BY <1>2, FlattenTyped

LEMMA SplitMade ==
    ASSUME NEW x \in Seq(Batched), NEW y \in Seq(Nat), y = <<>> \/ y \in Batched
    PROVE  [batches |-> x, batch |-> y] \in Splits /\ HeldRows([batches |-> x, batch |-> y]) = FlattenSeq(x) \o y
<1> DEFINE s == [batches |-> x, batch |-> y]
<1>1. s.batches = x /\ s.batch = y /\ s \in [batches : Seq(Batched), batch : Seq(Nat)]
  OBVIOUS
<1> HIDE DEF s
<1>2. s \in Splits
  BY <1>1 DEF Splits
<1>3. HeldRows(s) = FlattenSeq(x) \o y
  BY <1>1, Zenon DEF HeldRows
<1> QED BY <1>2, <1>3 DEF s

LEMMA RowAdded ==
    ASSUME NEW s \in Splits, NEW row \in Nat
    PROVE  WithRow(s, row) \in Splits /\ HeldRows(WithRow(s, row)) = HeldRows(s) \o <<row>>
<1> DEFINE flat == FlattenSeq(s.batches)
<1>1. /\ s.batches \in Seq(Batched) /\ s.batch \in Seq(Nat) /\ (s.batch = <<>> \/ s.batch \in Batched)
      /\ s = [batches |-> s.batches, batch |-> s.batch]
  BY DEF Splits
<1>2. flat \in Seq(Nat) /\ s.batches \in Seq(Seq(Nat))
  BY <1>1, BatchesAreRows
<1>3. <<row>> \in Seq(Nat) /\ <<row>> # <<>> /\ Len(<<row>>) = 1
  OBVIOUS
<1>4. Append(s.batch, row) \in Seq(Nat) /\ Append(s.batch, row) = s.batch \o <<row>>
      /\ Len(Append(s.batch, row)) = Len(s.batch) + 1 /\ Append(s.batch, row) # <<>>
  BY <1>1
<1>5. CASE Full(s.batch, row)
  <2>1. s.batch # <<>> /\ s.batch \in Batched
    BY <1>1, <1>5 DEF Full
  <2>2. WithRow(s, row) = [batches |-> Append(s.batches, s.batch), batch |-> <<row>>]
    BY <1>5 DEF WithRow
  <2>3. <<row>> \in Batched
    BY <1>3 DEF Batched, FitsLimit
  <2>4. Append(s.batches, s.batch) \in Seq(Batched)
    BY <1>1, <2>1
  <2>5. FlattenSeq(Append(s.batches, s.batch)) = flat \o s.batch
    BY <1>1, <1>2, FlattenAppend
  <2>6. /\ WithRow(s, row) \in Splits
        /\ HeldRows(WithRow(s, row)) = FlattenSeq(Append(s.batches, s.batch)) \o <<row>>
    BY <1>3, <2>2, <2>3, <2>4, SplitMade
  <2> QED BY <2>5, <2>6, Zenon DEF HeldRows
<1>6. CASE ~Full(s.batch, row)
  <2>1. WithRow(s, row) = [batches |-> s.batches, batch |-> Append(s.batch, row)]
    BY <1>6 DEF WithRow
  <2>2. Append(s.batch, row) \in Batched
    <3>1. CASE s.batch = <<>>
      <4>1. Len(Append(s.batch, row)) = 1
        BY <1>4, <3>1
      <4> QED BY <1>4, <4>1 DEF Batched, FitsLimit
    <3>2. CASE s.batch # <<>>
      <4>1. ~(Bytes(Append(s.batch, row)) > MaxBytes)
        BY <1>6, <3>2 DEF Full
      <4>2. Bytes(Append(s.batch, row)) \in Nat /\ MaxBytes \in Nat
        BY <1>4, BytesTyped, ExternalAssumption
      <4>3. Bytes(Append(s.batch, row)) <= MaxBytes
        BY <4>1, <4>2
      <4> QED BY <1>4, <4>3 DEF Batched, FitsLimit
    <3> QED BY <3>1, <3>2
  <2>3. WithRow(s, row) \in Splits /\ HeldRows(WithRow(s, row)) = flat \o Append(s.batch, row)
    BY <1>1, <1>4, <2>1, <2>2, SplitMade
  <2>4. Regroups(flat, s.batch, <<row>>)
    BY <1>1, <1>2, <1>3, Associates
  <2>5. HeldRows(WithRow(s, row)) = (flat \o s.batch) \o <<row>>
    BY <1>4, <2>3, <2>4, Zenon DEF Regroups
  <2> QED BY <2>3, <2>5, Zenon DEF HeldRows
<1> QED BY <1>5, <1>6

\* The batches of a table hold its rows, each once and in order.
LEMMA BatchesHoldRows ==
    ASSUME NEW rows_ \in Seq(Nat)
    PROVE  Batches(rows_) \in Seq(Batched) /\ FlattenSeq(Batches(rows_)) = rows_
<1> DEFINE n == Len(rows_)
           start == [batches |-> <<>>, batch |-> <<>>]
           split[i \in 0..Len(rows_)] ==
               IF i = 0 THEN [batches |-> <<>>, batch |-> <<>>] ELSE WithRow(split[i - 1], rows_[i])
           V == Splits
           step == [p \in (1..n) \X V |-> WithRow(p[2], rows_[p[1]])]
<1>1. n \in Nat /\ n = Len(rows_) /\ \A i \in 1..n : rows_[i] \in Nat
  OBVIOUS
<1>s. start \in V
  <2>1. <<>> \in Seq(Batched) /\ <<>> \in Seq(Nat)
    OBVIOUS
  <2> QED BY <2>1, SplitMade
<1> HIDE DEF n
<1>a. \E g \in [0..n -> V] : BuiltBy(g, start, step, n)
  <2>1. step \in [(1..n) \X V -> V]
    BY <1>1, RowAdded
  <2> HIDE DEF step, start, V, split
  <2> QED BY <1>1, <1>s, <2>1, StepByStep
<1>b. \A i \in 1..n, a \in V : step[<<i, a>>] = WithRow(a, rows_[i])
  OBVIOUS
<1> HIDE DEF V, step
<1>2. PICK g \in [0..n -> V] : g[0] = start /\ \A i \in 1..n : g[i] = step[<<i, g[i - 1]>>]
  BY <1>a DEF BuiltBy
<1>3. \A i \in 0..n : i # 0 => i \in 1..n /\ i - 1 \in 0..n /\ g[i - 1] \in V
  <2> SUFFICES ASSUME NEW i \in 0..n, i # 0 PROVE i \in 1..n /\ i - 1 \in 0..n /\ g[i - 1] \in V
    OBVIOUS
  <2>1. i \in 1..n /\ i - 1 \in 0..n
    BY <1>1
  <2> QED BY <2>1
<1>4. \A i \in 1..n : g[i] = WithRow(g[i - 1], rows_[i])
  <2> SUFFICES ASSUME NEW i \in 1..n PROVE g[i] = WithRow(g[i - 1], rows_[i])
    OBVIOUS
  <2>1. i \in 0..n /\ i # 0
    BY <1>1
  <2>2. g[i - 1] \in V
    BY <1>3, <2>1
  <2>3. step[<<i, g[i - 1]>>] = WithRow(g[i - 1], rows_[i])
    BY <1>b, <2>2
  <2> QED BY <1>2, <2>3
<1>5. g = [i \in 0..n |-> IF i = 0 THEN [batches |-> <<>>, batch |-> <<>>] ELSE WithRow(g[i - 1], rows_[i])]
  BY <1>2, <1>3, <1>4
<1>6. split = [i \in 0..n |-> IF i = 0 THEN [batches |-> <<>>, batch |-> <<>>] ELSE WithRow(split[i - 1], rows_[i])]
  BY <1>1, <1>5
<1>7. Batches(rows_) = WithRest(split[n])
  BY DEF Batches, n
<1> HIDE DEF step, split
<1> DEFINE Good(i) == split[i] \in Splits /\ HeldRows(split[i]) = SubSeq(rows_, 1, i)
           T == {i \in Nat : i <= n => Good(i)}
<1>8. 0 \in T
  <2>1. split[0] = start
    BY <1>1, <1>6
  <2>2. FlattenSeq(<<>>) = <<>> /\ <<>> \o <<>> = <<>>
    BY EmptySeq, ConcatEmptySeq DEF FlattenSeq
  <2>3. HeldRows(start) = <<>>
    BY <2>2 DEF HeldRows
  <2>4. SubSeq(rows_, 1, 0) = <<>>
    BY SubSeqEmpty
  <2>5. Good(0)
    BY <1>s, <2>1, <2>3, <2>4 DEF V
  <2> HIDE DEF Good
  <2> QED BY <2>5
<1>9. ASSUME NEW i \in T PROVE i + 1 \in T
  <2> SUFFICES ASSUME i + 1 <= n PROVE Good(i + 1)
    OBVIOUS
  <2>1. i \in Nat /\ i + 1 \in 0..n /\ i + 1 # 0 /\ (i + 1) - 1 = i /\ i + 1 \in 1..n /\ Good(i)
    BY <1>1
  <2>2. split[i + 1] = WithRow(split[i], rows_[i + 1])
    BY <1>6, <2>1
  <2>3. rows_[i + 1] \in Nat
    BY <1>1, <2>1
  <2>4. split[i + 1] \in Splits /\ HeldRows(split[i + 1]) = SubSeq(rows_, 1, i) \o <<rows_[i + 1]>>
    BY <2>1, <2>2, <2>3, RowAdded
  <2>5. SubSeq(rows_, 1, i + 1) = SubSeq(rows_, 1, i) \o <<rows_[i + 1]>>
    <3>1. 1 \in 1..Len(rows_) /\ i + 1 \in 1..Len(rows_)
      BY <1>1, <2>1
    <3>2. SubSeq(rows_, 1, i + 1) = SubSeq(rows_, 1, (i + 1) - 1) \o <<rows_[i + 1]>>
      BY <3>1, SubSeqRecursiveSecond
    <3> QED BY <2>1, <3>2
  <2> QED BY <2>4, <2>5
<1>10. Good(n)
  <2>1. T \subseteq Nat
    OBVIOUS
  <2> HIDE DEF T
  <2>2. n \in T
    BY <2>1, <1>1, <1>8, <1>9, Upwards
  <2> QED BY <1>1, <2>2 DEF T
<1>11. SubSeq(rows_, 1, n) = rows_
  BY <1>1, SubSeqFull
<1> DEFINE s == split[n]
<1>12. s.batches \in Seq(Batched) /\ s.batch \in Seq(Nat) /\ (s.batch = <<>> \/ s.batch \in Batched)
       /\ FlattenSeq(s.batches) \o s.batch = rows_
  BY <1>10, <1>11 DEF Splits, HeldRows
<1>13. FlattenSeq(s.batches) \in Seq(Nat) /\ s.batches \in Seq(Seq(Nat))
  BY <1>12, BatchesAreRows
<1> HIDE DEF s
<1>14. CASE s.batch = <<>>
  <2>1. WithRest(s) = s.batches
    BY <1>14 DEF WithRest
  <2>2. FlattenSeq(s.batches) = rows_
    BY <1>12, <1>13, <1>14, ConcatEmptySeq
  <2> QED BY <1>7, <1>12, <2>1, <2>2 DEF s
<1>15. CASE s.batch # <<>>
  <2>1. WithRest(s) = Append(s.batches, s.batch)
    BY <1>15 DEF WithRest
  <2>2. FlattenSeq(Append(s.batches, s.batch)) = rows_
    BY <1>12, <1>13, FlattenAppend
  <2>3. Append(s.batches, s.batch) \in Seq(Batched)
    BY <1>12, <1>15
  <2> QED BY <1>7, <2>1, <2>2, <2>3 DEF s
<1> QED BY <1>14, <1>15

-----------------------------------------------------------------------------
(* Imports *)

\* The rows an import has in each document, and its documents.
RowsIn(i) == [n \in DOMAIN files |-> IF files[n].import = i THEN files[n].rows ELSE <<>>]
ImportedAs(i) == {n \in DOMAIN files : files[n].import = i}
FilesWell ==
    /\ files \in Seq(File) /\ Len(files) <= MaxFiles
    /\ \A n \in DOMAIN files : files[n].import # 0 => files[n].rows \in Batched /\ files[n].import <= n
    /\ \A n, m \in DOMAIN files : files[n].import # 0 /\ files[n].import = files[m].import =>
         files[n].scheduled = files[m].scheduled

\* What an import keeps: what it has stored and what is left make its table.
Imports(p) == call[p].stage = "import"
ImportShape(x) == /\ {"stage", "table", "left", "done"} \subseteq DOMAIN x
                  /\ x.table \in Seq(Nat) /\ x.left \in Seq(Batched) /\ x.done \in Seq(DOMAIN files)
StoredSoFar(x) == IF x.done = <<>> THEN <<>> ELSE Imported(x.done[1])
ImportGoes(x) ==
    /\ ImportShape(x)
    /\ StoredSoFar(x) \o FlattenSeq(x.left) = x.table
    /\ x.done # <<>> => /\ ImportedAs(x.done[1]) = ToSet(x.done)
                        /\ \A n \in ToSet(x.done) : ~files[n].scheduled
ImportsApart == \A p, q \in Callers :
    Imports(p) /\ Imports(q) /\ call[p].done # <<>> /\ call[q].done # <<>> /\ call[p].done[1] = call[q].done[1] => p = q
RecordsWell == \A p \in Callers : call[p].stage = "record" =>
    call[p].file \in DOMAIN files /\ files[call[p].file].import = 0
HistoryWell ==
    /\ remembered \subseteq [owner : Clients \X Keys, content : Contents, file : DOMAIN files]
    /\ disturbed \subseteq Clients \X Keys /\ unchecked \subseteq Sources
ImportsInv ==
    /\ ExternalShape /\ FilesWell /\ ImportsApart /\ RecordsWell /\ HistoryWell
    /\ \A p \in Callers : Imports(p) => ImportGoes(call[p])

LEMMA RowsInTyped ==
    ASSUME files \in Seq(File), NEW i
    PROVE  /\ RowsIn(i) \in Seq(Seq(Nat)) /\ Len(RowsIn(i)) = Len(files)
           /\ Imported(i) = FlattenSeq(RowsIn(i)) /\ Imported(i) \in Seq(Nat)
<1>1. DOMAIN files = 1..Len(files) /\ Len(files) \in Nat
  OBVIOUS
<1>2. \A n \in DOMAIN files : files[n].rows \in Seq(Nat)
  <2> SUFFICES ASSUME NEW n \in DOMAIN files PROVE files[n].rows \in Seq(Nat)
    OBVIOUS
  <2>1. files[n] \in File
    BY ItemOf
  <2> QED BY <2>1 DEF File
<1>3. <<>> \in Seq(Nat)
  OBVIOUS
<1>4. RowsIn(i) \in [1..Len(files) -> Seq(Nat)]
  BY <1>1, <1>2, <1>3 DEF RowsIn
<1>5. RowsIn(i) \in Seq(Seq(Nat)) /\ Len(RowsIn(i)) = Len(files)
  BY <1>1, <1>4, ListOf
<1>6. Imported(i) = FlattenSeq(RowsIn(i))
  BY Zenon DEF Imported, RowsIn
<1> QED BY <1>5, <1>6, FlattenTyped

\* One more document.
LEMMA FilesGrow ==
    ASSUME FilesWell, NEW row \in File, files' = Append(files, row), Len(files) < MaxFiles
    PROVE  LET n == Len(files) + 1 IN
           /\ files' \in Seq(File) /\ Len(files') <= MaxFiles /\ n \in Nat \ {0} /\ n \notin DOMAIN files
           /\ DOMAIN files' = DOMAIN files \cup {n} /\ files'[n] = row
           /\ \A k \in DOMAIN files : files'[k] = files[k] /\ k \in Nat \ {0} /\ k < n
           /\ \A i : ImportedAs(i)' = IF row.import = i THEN ImportedAs(i) \cup {n} ELSE ImportedAs(i)
           /\ \A i : Imported(i)' = IF row.import = i THEN Imported(i) \o row.rows ELSE Imported(i)
<1> DEFINE n == Len(files) + 1
<1>1. /\ files \in Seq(File) /\ Len(files) \in Nat /\ DOMAIN files = 1..Len(files) /\ MaxFiles \in Nat
  BY ExternalAssumption DEF FilesWell
<1>2. /\ files' \in Seq(File) /\ Len(files') = n /\ files'[n] = row
      /\ DOMAIN files' = 1..n
      /\ \A k \in 1..Len(files) : files'[k] = files[k]
  BY <1>1
<1>3. Len(files') <= MaxFiles /\ n \in Nat \ {0} /\ n \notin DOMAIN files /\ DOMAIN files' = DOMAIN files \cup {n}
      /\ \A k \in DOMAIN files : k \in Nat \ {0} /\ k < n
  BY <1>1, <1>2
<1> HIDE DEF n
<1>4. ASSUME NEW i
      PROVE  ImportedAs(i)' = IF row.import = i THEN ImportedAs(i) \cup {n} ELSE ImportedAs(i)
  BY <1>1, <1>2, <1>3 DEF ImportedAs
<1>5. ASSUME NEW i
      PROVE  Imported(i)' = IF row.import = i THEN Imported(i) \o row.rows ELSE Imported(i)
  <2> DEFINE more == IF row.import = i THEN row.rows ELSE <<>>
             old == RowsIn(i)
  <2>1. old \in Seq(Seq(Nat)) /\ Len(old) = Len(files) /\ more \in Seq(Nat)
        /\ Imported(i) = FlattenSeq(old) /\ Imported(i) \in Seq(Nat)
    BY <1>1, RowsInTyped DEF File
  <2>2. RowsIn(i)' = Append(old, more)
    <3>1. RowsIn(i)' = [k \in 1..n |-> IF files'[k].import = i THEN files'[k].rows ELSE <<>>]
      BY <1>2 DEF RowsIn
    <3>2. \A k \in 1..Len(files) : old[k] = IF files[k].import = i THEN files[k].rows ELSE <<>>
      BY <1>1 DEF RowsIn
    <3>3. /\ Append(old, more) = [k \in 1..n |-> IF k = n THEN more ELSE old[k]]
      <4> HIDE DEF old, more
      <4>1. Append(old, more) \in Seq(Seq(Nat)) /\ Len(Append(old, more)) = n
            /\ \A k \in 1..Len(old) : Append(old, more)[k] = old[k]
            /\ Append(old, more)[Len(old) + 1] = more
        BY <2>1, AppendProperties DEF n
      <4>2. Append(old, more) \in [1..n -> Seq(Nat)]
        BY <4>1, LenProperties
      <4>3. \A k \in 1..n : k # n => k \in 1..Len(old)
        BY <1>1, <2>1 DEF n
      <4>4. Len(old) + 1 = n
        BY <2>1 DEF n
      <4>5. ASSUME NEW k \in 1..n PROVE Append(old, more)[k] = IF k = n THEN more ELSE old[k]
        <5>1. CASE k = n
          BY <4>1, <4>4, <5>1
        <5>2. CASE k # n
          BY <4>1, <4>3, <5>2
        <5> QED BY <5>1, <5>2
      <4>6. Append(old, more) = [k \in 1..n |-> Append(old, more)[k]]
        BY <4>2
      <4> HIDE DEF n
      <4> QED BY <4>5, <4>6, Zenon
    <3>4. \A k \in 1..n : k # n => k \in 1..Len(files)
      BY <1>1 DEF n
    <3>5. \A k \in 1..n : (IF files'[k].import = i THEN files'[k].rows ELSE <<>>) = IF k = n THEN more ELSE old[k]
      <4> SUFFICES ASSUME NEW k \in 1..n
                   PROVE  (IF files'[k].import = i THEN files'[k].rows ELSE <<>>) = IF k = n THEN more ELSE old[k]
        OBVIOUS
      <4>1. CASE k = n
        BY <1>2, <4>1
      <4>2. CASE k # n
        <5>1. k \in 1..Len(files) /\ files'[k] = files[k]
          BY <1>2, <3>4, <4>2
        <5> HIDE DEF old
        <5> QED BY <3>2, <4>2, <5>1
      <4> QED BY <4>1, <4>2
    <3> HIDE DEF old, more
    <3> QED BY <3>1, <3>3, <3>5
  <2>3. Imported(i)' = FlattenSeq(RowsIn(i)')
    BY Zenon DEF Imported, RowsIn
  <2> HIDE DEF old
  <2>4. Imported(i)' = Imported(i) \o more
    BY <2>1, <2>2, <2>3, FlattenAppend
  <2>5. Imported(i) \o <<>> = Imported(i)
    BY <2>1, ConcatEmptySeq
  <2> QED BY <2>4, <2>5
<1> QED BY <1>2, <1>3, <1>4, <1>5 DEF n

\* Documents are scheduled, those of an import together.
LEMMA FilesMarked ==
    ASSUME FilesWell, NEW S, NEW b \in BOOLEAN, DOMAIN files' = DOMAIN files,
           \A n \in DOMAIN files : files'[n] = IF n \in S THEN [files[n] EXCEPT !.scheduled = b] ELSE files[n],
           files' = [n \in DOMAIN files |-> files'[n]],
           \A n, m \in DOMAIN files : files[n].import # 0 /\ files[n].import = files[m].import => (n \in S <=> m \in S)
    PROVE  /\ FilesWell'
           /\ \A i : ImportedAs(i)' = ImportedAs(i) /\ Imported(i)' = Imported(i)
<1>1. files \in Seq(File) /\ DOMAIN files = 1..Len(files) /\ Len(files) \in Nat
  BY DEF FilesWell
<1>2. \A n \in DOMAIN files : files[n] \in File
  BY <1>1, ItemOf
<1>3. \A n \in DOMAIN files : /\ files'[n] \in File /\ files'[n].import = files[n].import /\ files'[n].rows = files[n].rows
                              /\ files'[n].scheduled = IF n \in S THEN b ELSE files[n].scheduled
  <2> SUFFICES ASSUME NEW n \in DOMAIN files
               PROVE  /\ files'[n] \in File /\ files'[n].import = files[n].import /\ files'[n].rows = files[n].rows
                      /\ files'[n].scheduled = IF n \in S THEN b ELSE files[n].scheduled
    BY Zenon
  <2>1. files[n] \in File
    BY <1>2
  <2>2. CASE n \in S
    <3>1. files'[n] = [files[n] EXCEPT !.scheduled = b]
      BY <2>2
    <3> QED BY <2>1, <2>2, <3>1 DEF File
  <2>3. CASE n \notin S
    BY <2>1, <2>3 DEF File
  <2> QED BY <2>2, <2>3
<1>4. files' \in Seq(File) /\ Len(files') = Len(files)
  <2>1. files' \in [1..Len(files) -> File]
    BY <1>1, <1>3
  <2> QED BY <1>1, <2>1, ListOf
<1>5. FilesWell'
  BY <1>3, <1>4 DEF FilesWell
<1>6. ASSUME NEW i PROVE RowsIn(i)' = RowsIn(i)
  BY <1>3 DEF RowsIn
<1>7. ASSUME NEW i PROVE Imported(i)' = Imported(i)
  BY <1>6, Zenon DEF Imported, RowsIn
<1>8. ASSUME NEW i PROVE ImportedAs(i)' = ImportedAs(i)
  BY <1>3 DEF ImportedAs
<1> QED BY <1>5, <1>7, <1>8

\* A document that is an upload, or goes on with an import whose documents are
\* scheduled as it is.
LEMMA GrownWell ==
    ASSUME FilesWell, NEW row \in File, files' = Append(files, row), Len(files) < MaxFiles,
           row.import # 0 => row.rows \in Batched /\ row.import <= Len(files) + 1,
           row.import # 0 => \A m \in ImportedAs(row.import) : files[m].scheduled = row.scheduled
    PROVE  FilesWell'
<1> DEFINE n == Len(files) + 1
<1>1. /\ files' \in Seq(File) /\ Len(files') <= MaxFiles /\ n \in Nat \ {0} /\ n \notin DOMAIN files
      /\ DOMAIN files' = DOMAIN files \cup {n} /\ files'[n] = row
      /\ \A k \in DOMAIN files : files'[k] = files[k] /\ k \in Nat \ {0} /\ k < n
  BY FilesGrow
<1> HIDE DEF n
<1>2. ASSUME NEW k \in DOMAIN files', files'[k].import # 0 PROVE files'[k].rows \in Batched /\ files'[k].import <= k
  <2>1. CASE k = n
    BY <1>1, <1>2, <2>1 DEF n
  <2>2. CASE k \in DOMAIN files
    BY <1>1, <1>2, <2>2 DEF FilesWell
  <2> QED BY <1>1, <2>1, <2>2
<1>3. ASSUME NEW k \in DOMAIN files', NEW m \in DOMAIN files', files'[k].import # 0, files'[k].import = files'[m].import
      PROVE  files'[k].scheduled = files'[m].scheduled
  <2>1. CASE k = n /\ m = n
    BY <2>1
  <2>2. CASE k = n /\ m \in DOMAIN files
    BY <1>1, <1>3, <2>2 DEF ImportedAs
  <2>3. CASE k \in DOMAIN files /\ m = n
    BY <1>1, <1>3, <2>3 DEF ImportedAs
  <2>4. CASE k \in DOMAIN files /\ m \in DOMAIN files
    BY <1>1, <1>3, <2>4 DEF FilesWell
  <2> QED BY <1>1, <2>1, <2>2, <2>3, <2>4
<1> QED BY <1>1, <1>2, <1>3 DEF FilesWell

\* A document of an import has a number that is not 0.
LEMMA ImportNumber ==
    ASSUME files \in Seq(File), NEW p \in Callers, ImportGoes(call[p]), call[p].done # <<>>
    PROVE  call[p].done[1] \in Nat \ {0} /\ call[p].done[1] \in DOMAIN files
<1>1. call[p].done \in Seq(DOMAIN files) /\ DOMAIN files = 1..Len(files)
  BY DEF ImportGoes, ImportShape
<1>2. call[p].done[1] \in DOMAIN files
  <2> DEFINE d == call[p].done
             D == DOMAIN files
  <2>1. d \in Seq(D) /\ d # <<>>
    BY <1>1
  <2> HIDE DEF d, D
  <2>2. Len(d) \in Nat /\ Len(d) # 0 /\ DOMAIN d = 1..Len(d)
    BY <2>1, EmptySeq
  <2>3. d[1] \in D
    BY <2>1, <2>2, ItemOf
  <2> QED BY <2>3 DEF d, D
<1> QED BY <1>1, <1>2

\* An import goes on as long as its documents stay as they are.
LEMMA ImportStays ==
    ASSUME files \in Seq(File), NEW p \in Callers, ImportGoes(call[p]), call'[p] = call[p], DOMAIN files \subseteq DOMAIN files',
           \A i \in Nat \ {0} : i = call[p].done[1] => Imported(i)' = Imported(i) /\ ImportedAs(i)' = ImportedAs(i),
           \A n \in ToSet(call[p].done) : files'[n].scheduled = files[n].scheduled
    PROVE  ImportGoes(call[p])'
<1>1. ImportShape(call[p])'
  <2>1. call[p].done \in Seq(DOMAIN files')
    BY Widens DEF ImportGoes, ImportShape
  <2> QED BY <2>1 DEF ImportGoes, ImportShape
<1>2. CASE call[p].done = <<>>
  <2>1. StoredSoFar(call[p])' = <<>> /\ StoredSoFar(call[p]) = <<>>
    BY <1>2 DEF StoredSoFar
  <2> QED BY <1>1, <1>2, <2>1 DEF ImportGoes
<1>3. CASE call[p].done # <<>>
  <2> DEFINE i == call[p].done[1]
  <2>1. i \in Nat \ {0}
    BY <1>3, ImportNumber
  <2>2. Imported(call[p].done[1])' = Imported(call[p].done[1]) /\ ImportedAs(call[p].done[1])' = ImportedAs(call[p].done[1])
    BY <2>1
  <2>3. StoredSoFar(call[p])' = StoredSoFar(call[p])
    BY <1>3, <2>2 DEF StoredSoFar
  <2>4. StoredSoFar(call[p])' \o FlattenSeq(call'[p].left) = call'[p].table
    BY <2>3 DEF ImportGoes
  <2>5. ImportedAs(call[p].done[1])' = ToSet(call'[p].done)
    BY <1>3, <2>2 DEF ImportGoes
  <2>6. \A n \in ToSet(call'[p].done) : ~files'[n].scheduled
    BY <1>3 DEF ImportGoes
  <2> QED BY <1>1, <2>4, <2>5, <2>6 DEF ImportGoes
<1> QED BY <1>2, <1>3

\* An import that has stored nothing yet.
Started(p) == ImportShape(call[p]) /\ call[p].done = <<>> /\ FlattenSeq(call[p].left) = call[p].table

LEMMA StartedGoes == ASSUME NEW p \in Callers, Started(p) PROVE ImportGoes(call[p])
<1>1. call[p].table \in Seq(Nat) /\ <<>> \o call[p].table = call[p].table
  BY ConcatEmptySeq DEF Started, ImportShape
<1>2. StoredSoFar(call[p]) = <<>>
  BY DEF Started, StoredSoFar
<1> QED BY <1>1, <1>2 DEF Started, ImportGoes

LEMMA StartedGo == \A p \in Callers : Started(p) => ImportGoes(call[p])
  BY StartedGoes

\* A step that leaves imports alone, or begins some.
LEMMA CallsStay ==
    ASSUME ImportsInv, ExternalShape', FilesWell', RecordsWell', HistoryWell', DOMAIN files \subseteq DOMAIN files',
           \A i \in Nat \ {0} : Imported(i)' = Imported(i) /\ ImportedAs(i)' = ImportedAs(i),
           \A q \in Callers : Imports(q)' =>
               \/ Imports(q) /\ call'[q] = call[q] /\ \A n \in ToSet(call[q].done) : files'[n].scheduled = files[n].scheduled
               \/ Started(q)'
    PROVE  ImportsInv'
<1>1. files \in Seq(File)
  BY DEF ImportsInv, FilesWell
<1>2. ASSUME NEW q \in Callers, Imports(q)' PROVE ImportGoes(call[q])'
  <2>1. CASE Started(q)'
    <3>1. (\A p \in Callers : Started(p) => ImportGoes(call[p]))'
      BY StartedGo, PTL
    <3> QED BY <2>1, <3>1
  <2>2. CASE Imports(q) /\ call'[q] = call[q] /\ \A n \in ToSet(call[q].done) : files'[n].scheduled = files[n].scheduled
    <3>1. ImportGoes(call[q])
      BY <2>2 DEF ImportsInv
    <3> QED BY <1>1, <2>2, <3>1, ImportStays
  <2> QED BY <1>2, <2>1, <2>2
<1>3. ImportsApart'
  <2> SUFFICES ASSUME NEW p \in Callers, NEW q \in Callers, Imports(p)', Imports(q)', call'[p].done # <<>>, call'[q].done # <<>>,
                      call'[p].done[1] = call'[q].done[1]
               PROVE  p = q
    BY DEF ImportsApart
  <2>1. Imports(p) /\ call'[p] = call[p] /\ Imports(q) /\ call'[q] = call[q]
    BY DEF Started
  <2> QED BY <2>1 DEF ImportsInv, ImportsApart
<1> QED BY <1>2, <1>3 DEF ImportsInv

\* A step that stores nothing and starts no import.
LEMMA NothingStored ==
    ASSUME ImportsInv, ExternalShape', UNCHANGED files, HistoryWell',
           \A q \in Callers : \/ call'[q] = call[q] 
                              \/ call'[q].stage \notin {"record", "import"}
                              \/ call'[q].stage = "import" /\ Started(q)'
    PROVE  ImportsInv'
<1>1. FilesWell' /\ \A i : Imported(i)' = Imported(i) /\ ImportedAs(i)' = ImportedAs(i)
  BY DEF ImportsInv, FilesWell, Imported, ImportedAs
<1>2. RecordsWell'
  BY DEF ImportsInv, RecordsWell
<1>3. ASSUME NEW q \in Callers, Imports(q)'
      PROVE  \/ Imports(q) /\ call'[q] = call[q] /\ \A n \in ToSet(call[q].done) : files'[n].scheduled = files[n].scheduled
             \/ Started(q)'
  BY <1>3 DEF Imports
<1> QED BY <1>1, <1>2, <1>3, CallsStay

LEMMA HistorySame ==
    ASSUME HistoryWell, UNCHANGED files, remembered' \subseteq remembered, UNCHANGED <<disturbed, unchecked>> PROVE HistoryWell'
  BY DEF HistoryWell

\* Uploads.
LEMMA UploadsAside ==
    ASSUME ImportsInv, ExternalShape', NEW p \in Callers,
           \/ \E c \in Clients, k \in Keys \cup {NoKey}, x \in Contents : StartUpload(p, c, k, x)
           \/ Lookup(p) \/ Refuse(p)
    PROVE  ImportsInv'
<1> USE DEF ImportsInv
<1>0. DOMAIN call = Callers /\ Idle.stage = "idle"
  BY DEF ExternalShape, Idle
<1>1. ASSUME NEW c \in Clients, NEW k \in Keys \cup {NoKey}, NEW x \in Contents, StartUpload(p, c, k, x) PROVE ImportsInv'
  <2>1. \A q \in Callers : call'[q] = call[q] \/ call'[q].stage \notin {"record", "import"}
    BY <1>0, <1>1 DEF StartUpload, Begin
  <2>2. HistoryWell'
    BY <1>1 DEF StartUpload, HistoryWell
  <2> QED BY <1>1, <2>1, <2>2, NothingStored DEF StartUpload
<1>2. CASE Lookup(p)
  <2>1. \A q \in Callers : call'[q] = call[q] \/ call'[q].stage \notin {"record", "import"}
    <3>1. "stage" \in DOMAIN call[p]
      BY CallTypes
    <3> QED BY <1>0, <1>2, <3>1 DEF Lookup, Finish
  <2>2. HistoryWell'
    BY <1>2, HistorySame DEF Lookup
  <2> QED BY <1>2, <2>1, <2>2, NothingStored DEF Lookup
<1>3. CASE Refuse(p)
  <2>1. \A q \in Callers : call'[q] = call[q] \/ call'[q].stage \notin {"record", "import"}
    BY <1>0, <1>3 DEF Refuse, Finish
  <2>2. HistoryWell'
    BY <1>3, HistorySame DEF Refuse
  <2> QED BY <1>3, <2>1, <2>2, NothingStored DEF Refuse
<1> QED BY <1>1, <1>2, <1>3

\* Requests about clients and sources, and a request that breaks off.
LEMMA RequestsAside ==
    ASSUME ImportsInv, ExternalShape', NEW p \in Callers,
           \/ ImportFails(p) \/ BreakOff(p)
           \/ \E s \in Sources : StartRemoveSource(p, s)
           \/ RemoveSource(p)
           \/ \E c \in Clients, a \in SUBSET Sources : StartCreateClient(p, c, a)
           \/ CreateClient(p)
    PROVE  ImportsInv'
<1> USE DEF ImportsInv
<1>0. DOMAIN call = Callers /\ Idle.stage = "idle"
  BY DEF ExternalShape, Idle
<1>1. ASSUME Finish(p) PROVE \A q \in Callers : call'[q] = call[q] \/ call'[q].stage \notin {"record", "import"}
  BY <1>0, <1>1 DEF Finish
<1>2. CASE ImportFails(p)
  <2>1. HistoryWell'
    BY <1>2, HistorySame DEF ImportFails
  <2> QED BY <1>1, <1>2, <2>1, NothingStored DEF ImportFails
<1>3. CASE BreakOff(p)
  <2>1. call[p].stage = "record" => call[p].owner \in UploadOwners
    BY CallTypes
  <2>2. HistoryWell'
    <3>1. call[p].stage = "record" /\ call[p].owner[2] # NoKey => call[p].owner \in Clients \X Keys
      BY <2>1 DEF UploadOwners
    <3> QED BY <1>3, <3>1 DEF BreakOff, HistoryWell
  <2> QED BY <1>1, <1>3, <2>2, NothingStored DEF BreakOff
<1>4. ASSUME NEW s \in Sources, StartRemoveSource(p, s) PROVE ImportsInv'
  <2>1. \A q \in Callers : call'[q] = call[q] \/ call'[q].stage \notin {"record", "import"}
    BY <1>0, <1>4 DEF StartRemoveSource, Begin
  <2>2. HistoryWell'
    BY <1>4, HistorySame DEF StartRemoveSource
  <2> QED BY <1>4, <2>1, <2>2, NothingStored DEF StartRemoveSource
<1>5. CASE RemoveSource(p)
  <2>1. HistoryWell'
    BY <1>5, HistorySame DEF RemoveSource
  <2> QED BY <1>1, <1>5, <2>1, NothingStored DEF RemoveSource
<1>6. ASSUME NEW c \in Clients, NEW a \in SUBSET Sources, StartCreateClient(p, c, a) PROVE ImportsInv'
  <2>1. \A q \in Callers : call'[q] = call[q] \/ call'[q].stage \notin {"record", "import"}
    BY <1>0, <1>6 DEF StartCreateClient, Begin
  <2>2. HistoryWell'
    BY <1>6, HistorySame DEF StartCreateClient
  <2> QED BY <1>6, <2>1, <2>2, NothingStored DEF StartCreateClient
<1>7. CASE CreateClient(p)
  <2>1. call[p].allowed \in SUBSET Sources
    BY <1>7, CallTypes DEF CreateClient
  <2>2. HistoryWell'
    BY <1>7, <2>1 DEF CreateClient, HistoryWell
  <2> QED BY <1>1, <1>7, <2>2, NothingStored DEF CreateClient
<1> QED BY <1>2, <1>3, <1>4, <1>5, <1>6, <1>7

LEMMA RowsAside ==
    ASSUME ImportsInv, ExternalShape',
           \/ \E s \in Sources : CreateSource(s) \/ \E st \in {"enabled", "disabled"} : UpdateSource(s, st)
           \/ \E c \in Clients : (\E on \in BOOLEAN, a \in SUBSET Sources : UpdateClient(c, on, a)) \/ DeleteClient(c)
    PROVE  ImportsInv'
<1>1. UNCHANGED <<files, call>>
  BY DEF CreateSource, UpdateSource, UpdateClient, DeleteClient
<1>2. HistoryWell'
  <2>1. CASE \E s \in Sources : CreateSource(s) \/ \E st \in {"enabled", "disabled"} : UpdateSource(s, st)
    BY <2>1, HistorySame DEF CreateSource, UpdateSource, ImportsInv
  <2>2. ASSUME NEW c \in Clients, NEW on \in BOOLEAN, NEW a \in SUBSET Sources, UpdateClient(c, on, a) PROVE HistoryWell'
    BY <2>2 DEF UpdateClient, HistoryWell, ImportsInv
  <2>3. ASSUME NEW c \in Clients, DeleteClient(c) PROVE HistoryWell'
    BY <2>3, HistorySame DEF DeleteClient, ImportsInv
  <2> QED BY <2>1, <2>2, <2>3
<1> QED BY <1>1, <1>2, NothingStored

\* A new import keeps its rows in batches.
LEMMA ImportBegins ==
    ASSUME ImportsInv, ExternalShape', NEW p \in Callers, NEW s \in Sources, NEW t \in Tables, StartImport(p, s, t)
    PROVE  ImportsInv'
<1>1. DOMAIN call = Callers /\ HistoryWell
  BY DEF ImportsInv, ExternalShape
<1>2. FirstRows(t) \in Seq(Nat)
  <2>1. t \in Seq(Nat) /\ Len(t) \in Nat /\ MaxRows \in Nat
    BY ExternalAssumption
  <2> DEFINE m == IF Len(t) < MaxRows THEN Len(t) ELSE MaxRows
  <2>2. m \in Nat /\ m <= Len(t)
    BY <2>1
  <2> HIDE DEF m
  <2>3. SubSeq(t, 1, m) \in Seq(Nat)
    BY <2>1, <2>2
  <2> QED BY <2>3, Zenon DEF FirstRows, m
<1>3. Batches(FirstRows(t)) \in Seq(Batched) /\ FlattenSeq(Batches(FirstRows(t))) = FirstRows(t)
  BY <1>2, BatchesHoldRows
<1>4. /\ call'[p] = [stage |-> "import", table |-> FirstRows(t), left |-> Batches(FirstRows(t)), done |-> <<>>]
      /\ \A q \in Callers \ {p} : call'[q] = call[q]
      /\ UNCHANGED <<files, remembered, disturbed, unchecked>>
  BY <1>1 DEF StartImport, Begin
<1>5. Started(p)' /\ call'[p].stage = "import"
  <2>1. <<>> \in Seq(DOMAIN files')
    OBVIOUS
  <2> QED BY <1>2, <1>3, <1>4, <2>1 DEF Started, ImportShape
<1>6. HistoryWell'
  BY <1>1, <1>4, HistorySame
<1>7. \A q \in Callers : call'[q] = call[q] \/ (call'[q].stage = "import" /\ Started(q)')
  BY <1>4, <1>5
<1> QED BY <1>4, <1>6, <1>7, NothingStored

\* An upload is stored.
LEMMA UploadStored ==
    ASSUME ImportsInv, ExternalShape', NEW p \in Callers, Store(p)
    PROVE  ImportsInv'
<1> DEFINE n == Len(files) + 1
           row == [owner |-> call[p].owner, content |-> call[p].content,
                   import |-> 0, rows |-> <<>>, scheduled |-> FALSE]
<1>1. DOMAIN call = Callers /\ HistoryWell /\ FilesWell /\ ExternalShape
  BY DEF ImportsInv, ExternalShape
<1>2. row \in File /\ row.import = 0
  <2>1. call[p].owner \in UploadOwners /\ call[p].content \in Contents
    BY <1>1, CallTypes DEF Store
  <2>2. 0 \in 0..MaxFiles /\ <<>> \in Seq(Nat)
    BY ExternalAssumption
  <2> QED BY <2>1, <2>2 DEF File, UploadOwners
<1>3. /\ files' = Append(files, row) /\ Len(files) < MaxFiles
      /\ call' = [call EXCEPT ![p] = [stage |-> "record", owner |-> call[p].owner, content |-> call[p].content, file |-> n]]
      /\ UNCHANGED <<remembered, disturbed, unchecked>>
  BY DEF Store
<1> HIDE DEF row
<1>4. FilesWell'
  BY <1>1, <1>2, <1>3, GrownWell
<1>5. /\ n \in Nat \ {0} /\ n \notin DOMAIN files
      /\ DOMAIN files' = DOMAIN files \cup {n} /\ files'[n] = row
      /\ \A k \in DOMAIN files : files'[k] = files[k]
      /\ \A i \in Nat \ {0} : ImportedAs(i)' = ImportedAs(i) /\ Imported(i)' = Imported(i)
  BY <1>1, <1>2, <1>3, FilesGrow
<1>6. RecordsWell'
  <2> SUFFICES ASSUME NEW q \in Callers, call'[q].stage = "record"
               PROVE  call'[q].file \in DOMAIN files' /\ files'[call'[q].file].import = 0
    BY DEF RecordsWell
  <2>1. CASE q = p
    BY <1>1, <1>2, <1>3, <1>5, <2>1
  <2>2. CASE q # p
    <3>1. call'[q] = call[q]
      BY <1>1, <1>3, <2>2
    <3> QED BY <1>5, <3>1 DEF RecordsWell, ImportsInv
  <2> QED BY <2>1, <2>2
<1>7. HistoryWell'
  <2>1. DOMAIN files \subseteq DOMAIN files'
    BY <1>5
  <2> QED BY <1>1, <1>3, <2>1 DEF HistoryWell
<1>8. ASSUME NEW q \in Callers, Imports(q)'
      PROVE  Imports(q) /\ call'[q] = call[q] /\ \A k \in ToSet(call[q].done) : files'[k].scheduled = files[k].scheduled
  <2>1. q # p /\ call'[q] = call[q]
    BY <1>1, <1>3, <1>8 DEF Imports
  <2>2. Imports(q)
    BY <1>8, <2>1 DEF Imports
  <2>3. ToSet(call[q].done) \subseteq DOMAIN files
    <3>1. call[q].done \in Seq(DOMAIN files)
      BY <2>2 DEF ImportsInv, ImportGoes, ImportShape
    <3> QED BY <3>1, ItemOf DEF ToSet
  <2> QED BY <1>5, <2>1, <2>2, <2>3
<1> QED BY <1>4, <1>5, <1>6, <1>7, <1>8, CallsStay

\* An upload is answered.
LEMMA UploadRecorded ==
    ASSUME ImportsInv, ExternalShape', NEW p \in Callers, Record(p)
    PROVE  ImportsInv'
<1> DEFINE keyed == call[p].owner[2] # NoKey
           lasting == ~keyed \/ client[call[p].owner[1]].st # "deleted"
           f == call[p].file
<1>1. DOMAIN call = Callers /\ HistoryWell /\ FilesWell /\ ExternalShape /\ Idle.stage = "idle"
  BY DEF ImportsInv, ExternalShape, Idle
<1>2. f \in DOMAIN files /\ files[f].import = 0 /\ call[p].owner \in UploadOwners /\ call[p].content \in Contents
  BY <1>1, CallTypes DEF Record, ImportsInv, RecordsWell
<1>3. /\ files' = [files EXCEPT ![f].scheduled = lasting] /\ call' = [call EXCEPT ![p] = Idle]
      /\ UNCHANGED <<disturbed, unchecked>>
      /\ remembered' \subseteq remembered \cup {[owner |-> call[p].owner, content |-> call[p].content, file |-> f]}
      /\ ~keyed => remembered' = remembered
  BY DEF Record, Finish
<1>4. lasting \in BOOLEAN
  OBVIOUS
<1> HIDE DEF lasting
<1>5. PICK b \in BOOLEAN : b = lasting
  BY <1>4
<1>6. /\ DOMAIN files' = DOMAIN files /\ files' = [n \in DOMAIN files |-> files'[n]]
      /\ \A n \in DOMAIN files : files'[n] = IF n \in {f} THEN [files[n] EXCEPT !.scheduled = b] ELSE files[n]
  BY <1>3, <1>5
<1>7. \A n, m \in DOMAIN files : files[n].import # 0 /\ files[n].import = files[m].import => (n \in {f} <=> m \in {f})
  BY <1>2
<1>8. FilesWell' /\ \A i : ImportedAs(i)' = ImportedAs(i) /\ Imported(i)' = Imported(i)
  <2> DEFINE S == {f}
  <2>1. /\ \A n \in DOMAIN files : files'[n] = IF n \in S THEN [files[n] EXCEPT !.scheduled = b] ELSE files[n]
        /\ \A n, m \in DOMAIN files : files[n].import # 0 /\ files[n].import = files[m].import => (n \in S <=> m \in S)
    BY <1>6, <1>7
  <2> HIDE DEF S
  <2> QED BY <1>1, <1>6, <2>1, FilesMarked
<1>9. ASSUME NEW n \in DOMAIN files PROVE files'[n].import = files[n].import
  <2>1. files[n] \in File
    BY <1>1, ItemOf DEF FilesWell
  <2>2. CASE n = f
    <3>1. files'[n] = [files[n] EXCEPT !.scheduled = b]
      BY <1>6, <2>2
    <3> QED BY <2>1, <3>1 DEF File
  <2>3. CASE n # f
    BY <1>6, <2>3
  <2> QED BY <2>2, <2>3
<1>10. RecordsWell'
  <2> SUFFICES ASSUME NEW q \in Callers, call'[q].stage = "record"
               PROVE  call'[q].file \in DOMAIN files' /\ files'[call'[q].file].import = 0
    BY DEF RecordsWell
  <2>1. q # p /\ call'[q] = call[q]
    BY <1>1, <1>3
  <2> QED BY <1>6, <1>9, <2>1 DEF RecordsWell, ImportsInv
<1>11. HistoryWell'
  <2> DEFINE R == [owner : Clients \X Keys, content : Contents, file : DOMAIN files]
             r == [owner |-> call[p].owner, content |-> call[p].content, file |-> f]
  <2>1. keyed => call[p].owner \in Clients \X Keys
    BY <1>2 DEF UploadOwners
  <2>2. keyed => r \in R
    BY <1>2, <2>1
  <2>3. remembered \subseteq R /\ disturbed \subseteq Clients \X Keys /\ unchecked \subseteq Sources
    BY <1>1 DEF HistoryWell
  <2>4. remembered' \subseteq R
    BY <1>3, <2>2, <2>3
  <2> QED BY <1>3, <1>6, <2>3, <2>4 DEF HistoryWell
<1>12. ASSUME NEW q \in Callers, Imports(q)'
       PROVE  Imports(q) /\ call'[q] = call[q] /\ \A k \in ToSet(call[q].done) : files'[k].scheduled = files[k].scheduled
  <2>1. q # p /\ call'[q] = call[q]
    BY <1>1, <1>3, <1>12 DEF Imports
  <2>2. Imports(q) /\ ImportGoes(call[q])
    BY <1>12, <2>1 DEF Imports, ImportsInv
  <2>3. ASSUME NEW k \in ToSet(call[q].done) PROVE files'[k].scheduled = files[k].scheduled
    <3>1. call[q].done # <<>>
      BY <2>3 DEF ToSet
    <3>2. k \in ImportedAs(call[q].done[1]) /\ call[q].done[1] \in Nat \ {0}
      BY <1>1, <2>2, <2>3, <3>1, ImportNumber DEF ImportGoes, FilesWell
    <3>3. k \in DOMAIN files /\ k # f
      BY <1>2, <3>2 DEF ImportedAs
    <3> QED BY <1>6, <3>3
  <2> QED BY <2>1, <2>2, <2>3
<1> QED BY <1>6, <1>8, <1>10, <1>11, <1>12, CallsStay

\* The documents of an import are scheduled.
LEMMA ImportScheduled ==
    ASSUME ImportsInv, ExternalShape', NEW p \in Callers, ImportAnswer(p)
    PROVE  ImportsInv'
<1> DEFINE S == ToSet(call[p].done)
<1>1. /\ DOMAIN call = Callers /\ HistoryWell /\ FilesWell /\ ExternalShape /\ Idle.stage = "idle" /\ files \in Seq(File)
      /\ ImportGoes(call[p]) /\ Imports(p)
  BY DEF ImportsInv, ExternalShape, Idle, ImportAnswer, Imports, FilesWell
<1>2. call[p].done \in Seq(DOMAIN files) /\ \A n : Contains(call[p].done, n) <=> n \in S
  <2>1. call[p].done \in Seq(DOMAIN files)
    BY <1>1 DEF ImportGoes, ImportShape
  <2>2. DOMAIN call[p].done = 1..Len(call[p].done)
    BY <2>1
  <2> QED BY <2>1, <2>2 DEF Contains, ToSet
<1>3. S = {} \/ (call[p].done # <<>> /\ call[p].done[1] \in Nat \ {0} /\ S = ImportedAs(call[p].done[1]))
  <2>1. CASE call[p].done = <<>>
    BY <2>1 DEF ToSet
  <2>2. CASE call[p].done # <<>>
    BY <1>1, <2>2, ImportNumber DEF ImportGoes
  <2> QED BY <2>1, <2>2
<1>4. /\ call' = [call EXCEPT ![p] = Idle] /\ UNCHANGED <<remembered, disturbed, unchecked>>
      /\ files' = [n \in DOMAIN files |-> IF n \in S THEN [files[n] EXCEPT !.scheduled = TRUE] ELSE files[n]]
  <2>1. files' = [n \in DOMAIN files |-> IF Contains(call[p].done, n) THEN [files[n] EXCEPT !.scheduled = TRUE] ELSE files[n]]
    BY DEF ImportAnswer
  <2>2. call' = [call EXCEPT ![p] = Idle] /\ UNCHANGED <<remembered, disturbed, unchecked>>
    BY DEF ImportAnswer, Finish
  <2> HIDE DEF S
  <2> QED BY <1>2, <2>1, <2>2
<1>5. \A n, m \in DOMAIN files : files[n].import # 0 /\ files[n].import = files[m].import => (n \in S <=> m \in S)
  BY <1>3 DEF ImportedAs
<1> HIDE DEF S
<1>6. /\ DOMAIN files' = DOMAIN files /\ files' = [n \in DOMAIN files |-> files'[n]]
      /\ \A n \in DOMAIN files : files'[n] = IF n \in S THEN [files[n] EXCEPT !.scheduled = TRUE] ELSE files[n]
  BY <1>4
<1>7. FilesWell' /\ \A i : ImportedAs(i)' = ImportedAs(i) /\ Imported(i)' = Imported(i)
  BY <1>1, <1>5, <1>6, FilesMarked
<1>8. ASSUME NEW n \in DOMAIN files PROVE files'[n].import = files[n].import
  <2>1. files[n] \in File
    BY <1>1, ItemOf
  <2>2. CASE n \in S
    <3>1. files'[n] = [files[n] EXCEPT !.scheduled = TRUE]
      BY <1>6, <2>2
    <3> QED BY <2>1, <3>1 DEF File
  <2>3. CASE n \notin S
    BY <1>6, <2>3
  <2> QED BY <2>2, <2>3
<1>9. RecordsWell'
  <2> SUFFICES ASSUME NEW q \in Callers, call'[q].stage = "record"
               PROVE  call'[q].file \in DOMAIN files' /\ files'[call'[q].file].import = 0
    BY DEF RecordsWell
  <2>1. q # p /\ call'[q] = call[q]
    BY <1>1, <1>4
  <2> QED BY <1>6, <1>8, <2>1 DEF RecordsWell, ImportsInv
<1>10. HistoryWell'
  BY <1>1, <1>4, <1>6 DEF HistoryWell
<1>11. ASSUME NEW q \in Callers, Imports(q)'
       PROVE  Imports(q) /\ call'[q] = call[q] /\ \A k \in ToSet(call[q].done) : files'[k].scheduled = files[k].scheduled
  <2>1. q # p /\ call'[q] = call[q]
    BY <1>1, <1>4, <1>11 DEF Imports
  <2>2. Imports(q) /\ ImportGoes(call[q])
    BY <1>11, <2>1 DEF Imports, ImportsInv
  <2>3. ASSUME NEW k \in ToSet(call[q].done) PROVE files'[k].scheduled = files[k].scheduled
    <3>1. call[q].done # <<>>
      BY <2>3 DEF ToSet
    <3>2. k \in ImportedAs(call[q].done[1])
      BY <2>2, <2>3, <3>1 DEF ImportGoes
    <3>3. k \in DOMAIN files /\ files[k].import = call[q].done[1]
      BY <3>2 DEF ImportedAs
    <3>4. k \notin S
      <4> SUFFICES ASSUME k \in S PROVE FALSE
        OBVIOUS
      <4>1. call[p].done # <<>> /\ k \in ImportedAs(call[p].done[1])
        BY <1>3
      <4>2. call[p].done[1] = call[q].done[1]
        BY <3>3, <4>1 DEF ImportedAs
      <4> QED BY <1>1, <2>1, <2>2, <3>1, <4>1, <4>2 DEF ImportsInv, ImportsApart
    <3> QED BY <1>6, <3>3, <3>4
  <2> QED BY <2>1, <2>2, <2>3
<1> QED BY <1>6, <1>7, <1>9, <1>10, <1>11, CallsStay

\* No document belongs to an import that has not begun.
LEMMA NothingImported ==
    ASSUME FilesWell, NEW i, i = Len(files) + 1 PROVE ImportedAs(i) = {} /\ Imported(i) = <<>>
<1>1. /\ files \in Seq(File) /\ Len(files) \in Nat /\ DOMAIN files = 1..Len(files) /\ i \in Nat \ {0}
  BY DEF FilesWell
<1>2. \A k \in DOMAIN files : files[k].import # i
  <2> SUFFICES ASSUME NEW k \in DOMAIN files, files[k].import = i PROVE FALSE
    OBVIOUS
  <2>1. i <= k /\ k \in 1..Len(files)
    BY <1>1 DEF FilesWell
  <2> QED BY <1>1, <2>1
<1>3. RowsIn(i) \in Seq(Seq(Nat)) /\ Len(RowsIn(i)) = Len(files) /\ Imported(i) = FlattenSeq(RowsIn(i))
  BY <1>1, RowsInTyped
<1>4. \A k \in DOMAIN RowsIn(i) : RowsIn(i)[k] = <<>>
  BY <1>2 DEF RowsIn
<1>5. FlattenSeq(RowsIn(i)) = <<>>
  <2> DEFINE s == RowsIn(i)
  <2>1. s \in Seq(Seq(Nat)) /\ \A k \in DOMAIN s : s[k] = <<>>
    BY <1>3, <1>4
  <2> HIDE DEF s
  <2>2. FlattenSeq(s) = <<>>
    BY <2>1, FlattenNothing
  <2> QED BY <2>2 DEF s
<1> QED BY <1>2, <1>3, <1>5 DEF ImportedAs

\* The next batch of an import is stored.
LEMMA BatchStored ==
    ASSUME ImportsInv, ExternalShape', NEW p \in Callers, ImportBatch(p)
    PROVE  ImportsInv'
<1> DEFINE x == call[p]
           row == [owner |-> <<>>, content |-> <<>>, rows |-> Head(x.left),
                   import |-> IF x.done = <<>> THEN Len(files) + 1 ELSE x.done[1], scheduled |-> FALSE]
<1>1. /\ DOMAIN call = Callers /\ HistoryWell /\ FilesWell /\ ExternalShape /\ files \in Seq(File)
      /\ Imports(p) /\ ImportGoes(x) /\ ImportShape(x) /\ x.left # <<>> /\ Len(files) < MaxFiles
  BY DEF ImportsInv, ExternalShape, ImportBatch, Imports, FilesWell, ImportGoes
<1>2. PICK n : n = Len(files) + 1
  OBVIOUS
<1>3. PICK i : i = row.import
  OBVIOUS
<1>4. x.done = <<>> => i = n
  BY <1>2, <1>3
<1>5. x.done # <<>> => i = x.done[1] /\ i \in Nat \ {0} /\ i \in DOMAIN files
  <2>1. x.done # <<>> => i = x.done[1]
    BY <1>3
  <2> QED BY <1>1, <2>1, ImportNumber
<1>6. /\ Head(x.left) \in Batched /\ Tail(x.left) \in Seq(Batched)
      /\ FlattenSeq(x.left) = Head(x.left) \o FlattenSeq(Tail(x.left))
      /\ Head(x.left) \in Seq(Nat) /\ FlattenSeq(Tail(x.left)) \in Seq(Nat)
  <2> DEFINE s == x.left
  <2>1. s \in Seq(Batched) /\ s # <<>>
    BY <1>1 DEF ImportShape
  <2> HIDE DEF s
  <2>2. Head(s) \in Batched /\ Tail(s) \in Seq(Batched)
    BY <2>1, HeadTailProperties
  <2>3. s \in Seq(Seq(Nat))
    BY <2>1, BatchesAreRows
  <2>4. FlattenSeq(s) = Head(s) \o FlattenSeq(Tail(s))
    BY <2>1, <2>3, FlattenHead
  <2>5. FlattenSeq(Tail(s)) \in Seq(Nat)
    BY <2>2, BatchesAreRows
  <2>6. Head(s) \in Seq(Nat)
    BY <2>2 DEF Batched
  <2> QED BY <2>2, <2>4, <2>5, <2>6 DEF s
<1>7. n \in Nat \ {0} /\ n <= MaxFiles /\ i \in 0..MaxFiles /\ i # 0 /\ i <= n /\ n \notin DOMAIN files
  <2>1. Len(files) \in Nat /\ DOMAIN files = 1..Len(files) /\ MaxFiles \in Nat
    BY <1>1, ExternalAssumption
  <2>2. n \in Nat \ {0} /\ n <= MaxFiles /\ n \notin DOMAIN files
    BY <1>1, <1>2, <2>1
  <2>3. i = n \/ i \in DOMAIN files
    BY <1>4, <1>5
  <2> QED BY <1>2, <2>1, <2>2, <2>3
<1>8. /\ row \in File /\ row.import = i /\ row.rows = Head(x.left) /\ row.scheduled = FALSE /\ files' = Append(files, row)
  <2>1. row \in File
    <3>1. row = [owner |-> <<>>, content |-> <<>>, rows |-> Head(x.left), import |-> i, scheduled |-> FALSE]
      BY <1>3
    <3> QED BY <1>6, <1>7, <3>1 DEF File
  <2>2. files' = Append(files, row)
    BY DEF ImportBatch
  <2> QED BY <1>3, <2>1, <2>2
<1> HIDE DEF row
<1>9. \A m \in ImportedAs(i) : ~files[m].scheduled
  <2>1. CASE x.done = <<>>
    <3>1. ImportedAs(i) = {}
      BY <1>1, <1>2, <1>4, <2>1, NothingImported
    <3> QED BY <3>1
  <2>2. CASE x.done # <<>>
    BY <1>1, <1>5, <2>2 DEF ImportGoes
  <2> QED BY <2>1, <2>2
<1>10. FilesWell'
  <2>1. row.rows \in Batched /\ row.import <= Len(files) + 1
    BY <1>2, <1>6, <1>7, <1>8
  <2>2. \A m \in ImportedAs(row.import) : files[m].scheduled = row.scheduled
    <3> SUFFICES ASSUME NEW m \in ImportedAs(row.import) PROVE files[m].scheduled = row.scheduled
      OBVIOUS
    <3>1. m \in ImportedAs(i)
      BY <1>8
    <3>2. m \in DOMAIN files
      BY <3>1 DEF ImportedAs
    <3>3. files[m].scheduled \in BOOLEAN
      <4>1. files[m] \in File
        BY <1>1, <3>2, ItemOf
      <4> QED BY <4>1 DEF File
    <3> QED BY <1>8, <1>9, <3>1, <3>3
  <2> QED BY <1>1, <1>8, <2>1, <2>2, GrownWell
<1>11. /\ DOMAIN files' = DOMAIN files \cup {n} /\ files'[n] = row
       /\ \A k \in DOMAIN files : files'[k] = files[k]
       /\ \A j \in Nat \ {0} : j # i => ImportedAs(j)' = ImportedAs(j) /\ Imported(j)' = Imported(j)
       /\ ImportedAs(i)' = ImportedAs(i) \cup {n} /\ Imported(i)' = Imported(i) \o Head(x.left)
  <2>1. /\ DOMAIN files' = DOMAIN files \cup {n} /\ files'[n] = row
        /\ \A k \in DOMAIN files : files'[k] = files[k]
        /\ \A j : ImportedAs(j)' = IF row.import = j THEN ImportedAs(j) \cup {n} ELSE ImportedAs(j)
        /\ \A j : Imported(j)' = IF row.import = j THEN Imported(j) \o row.rows ELSE Imported(j)
    BY <1>1, <1>2, <1>8, FilesGrow
  <2> QED BY <1>8, <2>1
<1>12. /\ \A q \in Callers \ {p} : call'[q] = call[q]
       /\ {"stage", "table", "left", "done"} \subseteq DOMAIN call'[p]
       /\ call'[p].stage = "import" /\ call'[p].table = x.table /\ call'[p].left = Tail(x.left)
       /\ call'[p].done = Append(x.done, n)
       /\ UNCHANGED <<remembered, disturbed, unchecked>>
  <2>1. call' = [call EXCEPT ![p] = [[call[p] EXCEPT !.left = Tail(@)] EXCEPT !.done = Append(@, n)]]
        /\ UNCHANGED <<remembered, disturbed, unchecked>>
    BY <1>2 DEF ImportBatch
  <2> QED BY <1>1, <2>1 DEF ImportShape, Imports
<1>13. /\ call'[p].done \in Seq(DOMAIN files') /\ call'[p].done # <<>> /\ call'[p].done[1] = i
       /\ ToSet(call'[p].done) = ToSet(x.done) \cup {n}
  <2> DEFINE d == x.done
             D == DOMAIN files'
  <2>1. d \in Seq(D) /\ n \in D
    <3>1. d \in Seq(DOMAIN files)
      BY <1>1 DEF ImportShape
    <3> QED BY <1>11, <3>1, Widens
  <2>2. (d = <<>> => i = n) /\ (d # <<>> => i = d[1])
    BY <1>4, <1>5
  <2> HIDE DEF d, D
  <2>3. /\ Append(d, n) \in Seq(D) /\ Len(d) \in Nat /\ Len(Append(d, n)) = Len(d) + 1 /\ DOMAIN d = 1..Len(d)
        /\ DOMAIN Append(d, n) = 1..(Len(d) + 1)
        /\ \A k \in 1..Len(d) : Append(d, n)[k] = d[k]
        /\ Append(d, n)[Len(d) + 1] = n
    BY <2>1
  <2>4. Append(d, n) # <<>>
    BY <2>3
  <2>5. Append(d, n)[1] = i
    <3>1. CASE d = <<>>
      BY <2>2, <3>1
    <3>2. CASE d # <<>>
      <4>1. Len(d) # 0
        BY <2>1, <3>2, EmptySeq
      <4>2. 1 \in 1..Len(d)
        BY <2>3, <4>1
      <4> QED BY <2>2, <2>3, <3>2, <4>2
    <3> QED BY <3>1, <3>2
  <2>6. ToSet(Append(d, n)) = ToSet(d) \cup {n}
    <3>1. 1..(Len(d) + 1) = (1..Len(d)) \cup {Len(d) + 1}
      BY <2>3
    <3> QED BY <2>3, <3>1 DEF ToSet
  <2> QED BY <1>12, <2>3, <2>4, <2>5, <2>6 DEF d, D
<1>14. StoredSoFar(x) \o Head(x.left) = Imported(i)' /\ StoredSoFar(x) \in Seq(Nat)
       /\ ImportedAs(i)' = ToSet(call'[p].done)
       /\ \A k \in ToSet(call'[p].done) : ~files'[k].scheduled
  <2>1. CASE x.done = <<>>
    <3>1. Imported(i) = <<>> /\ ImportedAs(i) = {}
      BY <1>1, <1>2, <1>4, <2>1, NothingImported
    <3>2. ToSet(x.done) = {}
      BY <2>1 DEF ToSet
    <3>3. StoredSoFar(x) = <<>> /\ <<>> \in Seq(Nat)
      BY <2>1 DEF StoredSoFar
    <3>4. ToSet(call'[p].done) = {n}
      BY <1>13, <3>2
    <3> QED BY <1>8, <1>11, <3>1, <3>3, <3>4
  <2>2. CASE x.done # <<>>
    <3>1. StoredSoFar(x) = Imported(i) /\ Imported(i) \in Seq(Nat)
      BY <1>1, <1>5, <2>2, RowsInTyped DEF StoredSoFar
    <3>2. ImportedAs(i) = ToSet(x.done) /\ \A k \in ToSet(x.done) : ~files[k].scheduled
      BY <1>1, <1>5, <2>2 DEF ImportGoes
    <3>3. \A k \in ToSet(x.done) : k \in DOMAIN files
      BY <3>2 DEF ImportedAs
    <3> QED BY <1>8, <1>11, <1>13, <3>1, <3>2, <3>3
  <2> QED BY <2>1, <2>2
<1>15. Imported(i)' \o FlattenSeq(Tail(x.left)) = x.table
  <2>1. Regroups(StoredSoFar(x), Head(x.left), FlattenSeq(Tail(x.left)))
    BY <1>6, <1>14, Associates
  <2>2. StoredSoFar(x) \o FlattenSeq(x.left) = x.table
    BY <1>1 DEF ImportGoes
  <2>3. StoredSoFar(x) \o (Head(x.left) \o FlattenSeq(Tail(x.left))) = x.table
    BY <1>6, <2>2, Zenon
  <2>4. (StoredSoFar(x) \o Head(x.left)) \o FlattenSeq(Tail(x.left)) = x.table
    BY <2>1, <2>3, Zenon DEF Regroups
  <2> QED BY <1>14, <2>4, Zenon
<1>16. ImportGoes(call[p])'
  <2>1. ImportShape(call[p])'
    BY <1>1, <1>6, <1>12, <1>13 DEF ImportShape
  <2>2. StoredSoFar(call[p])' = Imported(i)'
    <3>1. StoredSoFar(call[p])' = Imported(call[p].done[1])'
      BY <1>13 DEF StoredSoFar
    <3> QED BY <1>13, <3>1
  <2>3. ImportedAs(call[p].done[1])' = ImportedAs(i)'
    BY <1>13
  <2> QED BY <1>12, <1>14, <1>15, <2>1, <2>2, <2>3 DEF ImportGoes
<1>17. ASSUME NEW q \in Callers, q # p, Imports(q)'
       PROVE  Imports(q) /\ call'[q] = call[q] /\ ImportGoes(call[q]) /\ ImportGoes(call[q])'
              /\ (call[q].done # <<>> => call[q].done[1] # i)
  <2>1. Imports(q) /\ call'[q] = call[q] /\ ImportGoes(call[q])
    BY <1>12, <1>17 DEF Imports, ImportsInv
  <2>2. call[q].done # <<>> => call[q].done[1] # i
    <3> SUFFICES ASSUME call[q].done # <<>>, call[q].done[1] = i PROVE FALSE
      OBVIOUS
    <3>1. i \in DOMAIN files
      BY <1>1, <2>1, ImportNumber
    <3>2. x.done # <<>> /\ x.done[1] = i
      BY <1>4, <1>5, <1>7, <3>1
    <3> QED BY <1>1, <1>17, <2>1, <3>2 DEF ImportsInv, ImportsApart
  <2>3. ToSet(call[q].done) \subseteq DOMAIN files
    <3>1. call[q].done \in Seq(DOMAIN files)
      BY <2>1 DEF ImportGoes, ImportShape
    <3> QED BY <3>1, ItemOf DEF ToSet
  <2>4. CASE call[q].done # <<>>
    <3>1. \A j \in Nat \ {0} : j = call[q].done[1] => Imported(j)' = Imported(j) /\ ImportedAs(j)' = ImportedAs(j)
      BY <1>11, <2>2, <2>4
    <3>2. DOMAIN files \subseteq DOMAIN files' /\ \A k \in ToSet(call[q].done) : files'[k].scheduled = files[k].scheduled
      BY <1>11, <2>3
    <3>3. ImportGoes(call[q])'
      BY <1>1, <2>1, <3>1, <3>2, ImportStays
    <3> QED BY <2>1, <2>2, <3>3
  <2>5. CASE call[q].done = <<>>
    <3>1. StoredSoFar(call[q])' = <<>> /\ StoredSoFar(call[q]) = <<>>
      BY <2>1, <2>5 DEF StoredSoFar
    <3>2. ImportShape(call[q])'
      <4>1. call[q].done \in Seq(DOMAIN files')
        BY <2>5
      <4> QED BY <2>1, <4>1 DEF ImportGoes, ImportShape
    <3>3. ImportGoes(call[q])'
      BY <2>1, <2>5, <3>1, <3>2 DEF ImportGoes
    <3> QED BY <2>1, <2>5, <3>3
  <2> QED BY <2>4, <2>5
<1>18. ImportsApart'
  <2> SUFFICES ASSUME NEW q \in Callers, NEW r \in Callers, Imports(q)', Imports(r)', call'[q].done # <<>>, call'[r].done # <<>>,
                      call'[q].done[1] = call'[r].done[1]
               PROVE  q = r
    BY DEF ImportsApart
  <2>1. q = p => r = p
    BY <1>13, <1>17
  <2>2. r = p => q = p
    BY <1>13, <1>17
  <2>3. CASE q # p /\ r # p
    <3>1. Imports(q) /\ call'[q] = call[q] /\ Imports(r) /\ call'[r] = call[r]
      BY <1>17, <2>3
    <3> QED BY <3>1 DEF ImportsInv, ImportsApart
  <2> QED BY <2>1, <2>2, <2>3
<1>19. RecordsWell'
  <2> SUFFICES ASSUME NEW q \in Callers, call'[q].stage = "record"
               PROVE  call'[q].file \in DOMAIN files' /\ files'[call'[q].file].import = 0
    BY DEF RecordsWell
  <2>1. q # p /\ call'[q] = call[q]
    BY <1>12
  <2> QED BY <1>11, <2>1 DEF RecordsWell, ImportsInv
<1>20. HistoryWell'
  <2>1. DOMAIN files \subseteq DOMAIN files'
    BY <1>11
  <2> QED BY <1>1, <1>12, <2>1 DEF HistoryWell
<1> QED BY <1>10, <1>16, <1>17, <1>18, <1>19, <1>20 DEF ImportsInv

LEMMA ImportsStart == ExternalInit => ImportsInv
<1> SUFFICES ASSUME ExternalInit PROVE ImportsInv
  OBVIOUS
<1>1. ExternalShape
  BY ExternalStart DEF ExternalInv
<1>2. files = <<>> /\ files \in Seq(File) /\ DOMAIN files = {} /\ Len(files) = 0
  BY DEF ExternalInit
<1>3. FilesWell
  BY <1>2, ExternalAssumption DEF FilesWell
<1>4. \A p \in Callers : call[p].stage = "idle"
  BY DEF ExternalInit, Idle
<1>5. HistoryWell
  BY DEF ExternalInit, HistoryWell
<1> QED BY <1>1, <1>3, <1>4, <1>5 DEF ImportsInv, Imports, ImportsApart, RecordsWell

LEMMA ImportsStep == ImportsInv /\ [ExternalNext]_external_vars => ImportsInv'
<1> SUFFICES ASSUME ImportsInv, [ExternalNext]_external_vars PROVE ImportsInv'
  OBVIOUS
<1>1. CASE ExternalNext
  <2>1. ExternalShape'
    BY <1>1, ShapeKept DEF ImportsInv
  <2> QED BY <1>1, <2>1, UploadsAside, RequestsAside, RowsAside, ImportBegins, UploadStored, UploadRecorded,
             ImportScheduled, BatchStored DEF ExternalNext
<1>2. CASE UNCHANGED external_vars
  <2>1. ExternalShape' /\ UNCHANGED files /\ \A q \in Callers : call'[q] = call[q]
    BY <1>2 DEF ImportsInv, external_vars, ExternalShape
  <2>2. HistoryWell'
    BY <1>2 DEF ImportsInv, external_vars, HistoryWell
  <2> QED BY <2>1, <2>2, NothingStored
<1> QED BY <1>1, <1>2

LEMMA ImportsAlways == ExternalSpec => []ImportsInv
  BY ImportsStart, ImportsStep, PTL DEF ExternalSpec

\* The requests of other systems keep their state in shape, for any clients,
\* sources, tables and requests (external.upload_doc, import_to_knowledge_base).
THEOREM ExternalTyped == ExternalSpec => []ExternalTypeOK
<1>1. ImportsInv => ExternalTypeOK
  <2> SUFFICES ASSUME ImportsInv PROVE ExternalTypeOK
    OBVIOUS
  <2>1. \A p \in Callers : call[p].stage \in {"idle", "lookup", "store", "record", "import", "remove", "create"}
    BY DEF ImportsInv, ExternalShape, ClientCalls, Idle
  <2>2. \A c \in Clients : client[c] = Absent \/ client[c] \in ClientRows
    BY DEF ImportsInv, ExternalShape
  <2> QED BY <2>1, <2>2 DEF ImportsInv, ExternalShape, FilesWell, HistoryWell, ExternalTypeOK
<1> QED BY <1>1, ImportsAlways, PTL

\* An import keeps the rows it read, each once and in order, however long the
\* table and whatever other requests run; its documents are within the limit
\* and scheduled together (split_markdown_batches, import_to_knowledge_base).
THEOREM ImportsKeepRows == ExternalSpec => []ImportedRows
<1>1. ImportsInv => ImportedRows
  <2> SUFFICES ASSUME ImportsInv PROVE ImportedRows
    OBVIOUS
  <2>1. ASSUME NEW n \in DOMAIN files, files[n].import # 0
        PROVE  /\ Len(files[n].rows) > 1 => Bytes(files[n].rows) <= MaxBytes
               /\ files[n].rows # <<>>
               /\ \A m \in DOMAIN files : files[m].import = files[n].import => files[m].scheduled = files[n].scheduled
    <3>1. files[n].rows \in Batched
      BY <2>1 DEF ImportsInv, FilesWell
    <3>2. files[n].rows # <<>> /\ FitsLimit(files[n].rows)
      BY <3>1 DEF Batched
    <3>3. \A m \in DOMAIN files : files[m].import = files[n].import => files[m].scheduled = files[n].scheduled
      BY <2>1 DEF ImportsInv, FilesWell
    <3> QED BY <3>2, <3>3 DEF FitsLimit
  <2>2. ASSUME NEW p \in Callers, call[p].stage = "import", call[p].done # <<>>
        PROVE  Imported(call[p].done[1]) \o FlattenSeq(call[p].left) = call[p].table
    <3>1. ImportGoes(call[p])
      BY <2>2 DEF ImportsInv, Imports
    <3> QED BY <2>2, <3>1 DEF ImportGoes, StoredSoFar
  <2> QED BY <2>1, <2>2 DEF ImportedRows
<1> QED BY <1>1, ImportsAlways, PTL
================================================================================
