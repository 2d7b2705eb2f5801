------------------------------- MODULE RagasRuns -------------------------------
(***************************************************************************)
(* RAGAS evaluations of one knowledge base.  A request commits its run as  *)
(* running, resolves the samples (turns of the history, or questions it    *)
(* answers itself), scores every sample with every metric, and commits the *)
(* items with the figures of the run; or it gives up.                      *)
(***************************************************************************)
EXTENDS Naturals, Sequences, FiniteSets, FiniteSetsExt, SequencesExt

CONSTANTS
    Evaluators,    \* requests in flight at a time
    Metrics,
    NeedReference, \* metrics for samples with a reference only (context_recall)
    SpecLists,     \* what clients send: sequences over Specs, <<>> for none
    MaxSamples,    \* RAGAS_MAX_SAMPLE_LIMIT, which sample_limit may lower
    MaxEvaluations \* runs that are ever made (a bound of the model)

\* A sample a client asks for: a turn of the history or a question of its own,
\* with a reference or without.
Specs == [message : BOOLEAN, reference : BOOLEAN]

ASSUME RagasAssumption ==
    /\ IsFiniteSet(Metrics) /\ NeedReference \subseteq Metrics
    /\ SpecLists \subseteq Seq(Specs)
    /\ MaxSamples \in Nat \ {0} /\ MaxEvaluations \in Nat

VARIABLES
    base,       \* the knowledge base
    ragas_runs, \* runs and their items, in the order they were made; some are gone with the base
    evaluation, \* the request of each evaluator
    broken_off  \* history: runs whose request the process did not survive

ragas_vars == <<base, ragas_runs, evaluation, broken_off>>

-----------------------------------------------------------------------------
(* State *)

Bases == {"unpublished", "published", "deleted", "purged"}
None == [stage |-> "none"]
Evaluating(p) == evaluation[p] # None
\* scored: the metrics that gave a score, for each sample.
Scores == BoundedSeq(SUBSET Metrics, MaxSamples)
Samples == BoundedSeq(BOOLEAN, MaxSamples)
Evaluation == [status : {"running", "completed", "failed", "gone"}, items : Scores,
               sample_count : 0..MaxSamples, success_counts : [Metrics -> 0..MaxSamples]]
NewEvaluation == [status |-> "running", items |-> <<>>, sample_count |-> 0,
                  success_counts |-> [m \in Metrics |-> 0]]

RagasTypeOK ==
    /\ base \in Bases
    /\ ragas_runs \in Seq(Evaluation) /\ Len(ragas_runs) <= MaxEvaluations
    /\ \A p \in Evaluators : evaluation[p] = None \/
        /\ evaluation[p].stage \in {"resolving", "scoring"}
        /\ evaluation[p].run \in DOMAIN ragas_runs
        /\ evaluation[p].specs \in BoundedSeq(Specs, MaxSamples)
        /\ evaluation[p].samples \in Samples
        /\ evaluation[p].scored \in Scores
    /\ broken_off \subseteq DOMAIN ragas_runs

RagasInit ==
    /\ base \in {"unpublished", "published"}
    /\ ragas_runs = <<>>
    /\ evaluation = [p \in Evaluators |-> None]
    /\ broken_off = {}

-----------------------------------------------------------------------------
(* A run *)

\* resolve_samples takes the first of them; those with a blank question do not count.
Capped(specs) == SubSeq(specs, 1, Min({Len(specs), MaxSamples}))

\* _require_kb, and the commit of the run.
StartEvaluation(p, specs) ==
    /\ ~Evaluating(p) /\ Len(ragas_runs) < MaxEvaluations
    /\ base \in {"unpublished", "published"}
    /\ ragas_runs' = Append(ragas_runs, NewEvaluation)
    /\ evaluation' = [evaluation EXCEPT ![p] =
         [stage |-> "resolving", run |-> Len(ragas_runs) + 1, specs |-> Capped(specs),
          samples |-> <<>>, scored |-> <<>>]]
    /\ UNCHANGED <<base, broken_off>>

\* (Mutant: a handler that commits what it has scored so far.)
FailKeepingItems(p) ==
    /\ ragas_runs' = [ragas_runs EXCEPT ![evaluation[p].run].items =
                        IF ragas_runs[evaluation[p].run].status = "gone" THEN <<>> ELSE evaluation[p].scored]
    /\ evaluation' = [evaluation EXCEPT ![p] = None]
    /\ UNCHANGED <<base, broken_off>>

\* The error handlers roll back what the request has not committed.  Then they
\* read the id of the run, which the rollback has expired: in an AsyncSession
\* that raises, and the status they would have stored is not stored.
Fail(p) ==
    /\ evaluation' = [evaluation EXCEPT ![p] = None]
    /\ UNCHANGED <<base, ragas_runs, broken_off>>

\* samples[i] tells whether it has a reference.
Resolve(p, samples) ==
    /\ evaluation' = [evaluation EXCEPT ![p].samples = @ \o samples,
                        ![p].stage = IF Len(evaluation[p].samples \o samples) >= Len(evaluation[p].specs)
                                     THEN "scoring" ELSE @]
    /\ UNCHANGED <<base, ragas_runs, broken_off>>

\* collect_samples: turns that cite documents of the base.  None is an error.
CollectHistory(p, samples) ==
    /\ Evaluating(p) /\ evaluation[p].stage = "resolving" /\ evaluation[p].specs = <<>>
    /\ IF samples = <<>> THEN Fail(p) ELSE Resolve(p, samples)

Pending(p) ==
    /\ Evaluating(p) /\ evaluation[p].stage = "resolving"
    /\ Len(evaluation[p].samples) < Len(evaluation[p].specs)
SampleSpec(p) == evaluation[p].specs[Len(evaluation[p].samples) + 1]

\* A turn that is still there, cites the base and has this question.  Without
\* a reference of the client's it has that of the turn, if any.
LoadHistorical(p, own) ==
    /\ Pending(p) /\ SampleSpec(p).message /\ base # "purged"
    /\ Resolve(p, <<SampleSpec(p).reference \/ own>>)

\* Every other sample is retrieved and answered now.  A base without a
\* published index, no context, no answer: the whole run fails.
MaterializeQuestion(p, answered) ==
    /\ Pending(p)
    /\ IF base = "published" /\ answered
       THEN Resolve(p, <<SampleSpec(p).reference>>)
       ELSE Fail(p)

Applicable(reference) == IF reference THEN Metrics ELSE Metrics \ NeedReference

\* score_sample: a metric that fails is an error of this sample alone.
ScoreSample(p, succeeded) ==
    /\ Evaluating(p) /\ evaluation[p].stage = "scoring"
    /\ Len(evaluation[p].scored) < Len(evaluation[p].samples)
    /\ succeeded \subseteq Applicable(evaluation[p].samples[Len(evaluation[p].scored) + 1])
    /\ evaluation' = [evaluation EXCEPT ![p].scored = Append(@, succeeded)]
    /\ UNCHANGED <<base, ragas_runs, broken_off>>

Successes(scored) == [m \in Metrics |-> Cardinality({i \in DOMAIN scored : m \in scored[i]})]
Completed(samples, scored) ==
    [status |-> "completed", items |-> scored, sample_count |-> Len(samples),
     success_counts |-> Successes(scored)]

\* (Mutant: the run is written without asking whether it is still there.)
CompleteAnyway(p) ==
    /\ Evaluating(p) /\ evaluation[p].stage = "scoring"
    /\ Len(evaluation[p].scored) = Len(evaluation[p].samples)
    /\ LET x == evaluation[p]
       IN IF \A i \in DOMAIN x.scored : x.scored[i] = {}
          THEN Fail(p)
          ELSE /\ ragas_runs' = [ragas_runs EXCEPT ![x.run] = Completed(x.samples, x.scored)]
               /\ evaluation' = [evaluation EXCEPT ![p] = None]
               /\ UNCHANGED <<base, broken_off>>

\* The items and the figures in one commit.  It fails when the run is gone.
Complete(p) ==
    /\ Evaluating(p) /\ evaluation[p].stage = "scoring"
    /\ Len(evaluation[p].scored) = Len(evaluation[p].samples)
    /\ LET x == evaluation[p]
       IN IF ragas_runs[x.run].status = "gone" \/ \A i \in DOMAIN x.scored : x.scored[i] = {}
          THEN Fail(p)
          ELSE /\ ragas_runs' = [ragas_runs EXCEPT ![x.run] = Completed(x.samples, x.scored)]
               /\ evaluation' = [evaluation EXCEPT ![p] = None]
               /\ UNCHANGED <<base, broken_off>>

\* The metrics cannot be built, the database fails.
BreakDown(p) == Evaluating(p) /\ Fail(p)

\* The process ends, or the task is cancelled: no handler runs.
BreakOffRun(p) ==
    /\ Evaluating(p)
    /\ broken_off' = broken_off \cup {evaluation[p].run}
    /\ evaluation' = [evaluation EXCEPT ![p] = None]
    /\ UNCHANGED <<base, ragas_runs>>

-----------------------------------------------------------------------------
(* The base meanwhile *)

PublishBase ==
    /\ base = "unpublished"
    /\ base' = "published"
    /\ UNCHANGED <<ragas_runs, evaluation, broken_off>>

\* Its permanent deletion takes the runs with their items along.
DeleteBase(permanent) ==
    /\ base # "purged" /\ (permanent \/ base # "deleted")
    /\ base' = IF permanent THEN "purged" ELSE "deleted"
    /\ ragas_runs' = IF permanent
                     THEN [i \in DOMAIN ragas_runs |-> [NewEvaluation EXCEPT !.status = "gone"]]
                     ELSE ragas_runs
    /\ UNCHANGED <<evaluation, broken_off>>

RagasNext ==
    \/ \E p \in Evaluators :
        \/ \E specs \in SpecLists : StartEvaluation(p, specs)
        \/ \E samples \in Samples : CollectHistory(p, samples)
        \/ \E yes \in BOOLEAN : LoadHistorical(p, yes) \/ MaterializeQuestion(p, yes)
        \/ \E succeeded \in SUBSET Metrics : ScoreSample(p, succeeded)
        \/ Complete(p) \/ BreakDown(p) \/ BreakOffRun(p)
    \/ PublishBase
    \/ \E permanent \in BOOLEAN : DeleteBase(permanent)

RagasSpec == RagasInit /\ [][RagasNext]_ragas_vars

-----------------------------------------------------------------------------
(* Properties *)

\* A run shows its samples all together with figures that add up, or none of
\* them, whatever fails in between; a completed run has a score at least.
AllOrNothing == \A i \in DOMAIN ragas_runs :
    LET r == ragas_runs[i] IN
    IF r.status = "completed"
    THEN /\ r.sample_count = Len(r.items)
         /\ r.success_counts = Successes(r.items)
         /\ \E m \in Metrics : r.success_counts[m] > 0
    ELSE r.items = <<>> /\ r.sample_count = 0

\* What a settled run shows is not changed any more, but by the deletion of
\* its base; and no request settles the run of another.
SettledStays == [][\A i \in DOMAIN ragas_runs :
    ragas_runs'[i] # ragas_runs[i] =>
        \/ ragas_runs'[i].status = "gone" /\ base' = "purged"
        \/ /\ ragas_runs[i].status = "running"
           /\ \E p \in Evaluators : /\ Evaluating(p) /\ evaluation[p].run = i
                                    /\ evaluation'[p] = None]_ragas_vars
=============================================================================
