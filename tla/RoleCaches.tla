------------------------------- MODULE RoleCaches -------------------------------
(***************************************************************************)
(* The cache of questions and answers of one role.  An analysis of the     *)
(* documents replaces what the last one made, an analysis of the history   *)
(* adds what is missing.  Both are started by administrators and by the    *)
(* scheduler, of any process, and no lock keeps them apart: rows are       *)
(* deleted as one statement saw them, looked up by a later one, and        *)
(* written at the end of the transaction.                                  *)
(*                                                                         *)
(* A question is its normalized form, of which a role has one row          *)
(* (uq_role_cache_normalized_question).  It is assumed that the model      *)
(* names at least one question that is more than punctuation.              *)
(***************************************************************************)
EXTENDS Naturals, FiniteSets

CONSTANTS
    Analysts,      \* analyses in flight at a time
    CacheQuestions,
    DocumentLimit, \* document_question_limit
    HistoryLimit,  \* history_question_limit
    MaxAnalyses    \* analyses that are ever made (a bound of the model)

ASSUME RoleCachesAssumption ==
    /\ IsFiniteSet(Analysts) /\ IsFiniteSet(CacheQuestions)
    /\ {DocumentLimit, HistoryLimit} \subseteq Nat \ {0} /\ MaxAnalyses \in Nat

VARIABLES
    entry,   \* committed rows
    analysis,\* the transaction of each analyst
    numbered,\* analyses made so far
    latest   \* history: whether the last committed analysis of documents met another one

cache_vars == <<entry, analysis, numbered, latest>>

-----------------------------------------------------------------------------
(* State *)

NoEntry == [source |-> "none"]
\* row: the analysis that inserted it, which tells a row from its successor.
CacheEntry == [source : {"document_generated", "history_frequent"}, row : 1..MaxAnalyses]
NoAnalysis == [stage |-> "none"]
\* targets: the rows DELETE saw; gone: those it deleted; known: what the plan
\* found in the table.
CacheJob == [stage : {"reading", "deleting", "deleted", "planned", "flushed"},
             source : {"document_generated", "history_frequent"}, number : 1..MaxAnalyses,
             items : SUBSET CacheQuestions, targets : SUBSET CacheQuestions,
             gone : SUBSET CacheQuestions, known : [CacheQuestions -> CacheEntry \cup {NoEntry}],
             met : BOOLEAN]

RoleCachesTypeOK ==
    /\ entry \in [CacheQuestions -> CacheEntry \cup {NoEntry}]
    /\ analysis \in [Analysts -> CacheJob \cup {NoAnalysis}]
    /\ numbered \in 0..MaxAnalyses
    /\ latest \in {"none", "alone", "met"}

RoleCachesInit ==
    /\ entry = [q \in CacheQuestions |-> NoEntry]
    /\ analysis = [p \in Analysts |-> NoAnalysis]
    /\ numbered = 0
    /\ latest = "none"

DocumentEntries == {q \in CacheQuestions : entry[q].source = "document_generated"}
Analyzing(p, stage) == analysis[p] # NoAnalysis /\ analysis[p].stage = stage

\* Rows and keys that a transaction holds until it ends.
Holds(p) ==
    IF analysis[p] = NoAnalysis THEN {}
    ELSE analysis[p].gone \cup IF analysis[p].stage = "flushed" THEN analysis[p].items ELSE {}
Unlocked(p, questions) == \A r \in Analysts \ {p} : Holds(r) \cap questions = {}

\* Analyses of documents that have come to their DELETE.
Replacing(p) ==
    analysis[p] # NoAnalysis /\ analysis[p].source = "document_generated" /\ analysis[p].stage # "reading"

-----------------------------------------------------------------------------
(* Analyses *)

\* A request, or the scheduler once the interval of the role is over.
StartAnalysis(p, source) ==
    /\ analysis[p] = NoAnalysis /\ numbered < MaxAnalyses
    /\ numbered' = numbered + 1
    /\ analysis' = [analysis EXCEPT ![p] =
         [stage |-> "reading", source |-> source, number |-> numbered + 1, items |-> {},
          targets |-> {}, gone |-> {}, known |-> [q \in CacheQuestions |-> NoEntry], met |-> FALSE]]
    /\ UNCHANGED <<entry, latest>>

\* The model has answered; DELETE looks for what the last analysis made.
SeekOld(p, items) ==
    LET others == {r \in Analysts \ {p} : Replacing(r)} IN
    /\ Analyzing(p, "reading") /\ analysis[p].source = "document_generated"
    /\ items # {} /\ Cardinality(items) <= DocumentLimit
    /\ analysis' = [r \in Analysts |->
         IF r = p THEN [analysis[p] EXCEPT !.stage = "deleting", !.items = items,
                                      !.targets = DocumentEntries, !.met = others # {},
                                      !.known = entry]
         ELSE IF r \in others THEN [analysis[r] EXCEPT !.met = TRUE] ELSE analysis[r]]
    /\ UNCHANGED <<entry, numbered, latest>>

\* Mutant of DeleteOld: what the last analysis made stays.
KeepOld(p) ==
    /\ Analyzing(p, "deleting") /\ Unlocked(p, analysis[p].targets)
    /\ analysis' = [analysis EXCEPT ![p].stage = "deleted"]
    /\ UNCHANGED <<entry, numbered, latest>>

\* It waits for rows that others hold; those they have replaced are not deleted.
DeleteOld(p) ==
    /\ Analyzing(p, "deleting") /\ Unlocked(p, analysis[p].targets)
    /\ analysis' = [analysis EXCEPT ![p].stage = "deleted",
         ![p].gone = {q \in analysis[p].targets : entry[q] # NoEntry /\ entry[q].row = analysis[p].known[q].row}]
    /\ UNCHANGED <<entry, numbered, latest>>

\* cache_by_normalized: an item that has a row overwrites it, whatever made it.
PlanRows(p) ==
    /\ Analyzing(p, "deleted")
    /\ analysis' = [analysis EXCEPT ![p].stage = "planned",
         ![p].known = [q \in CacheQuestions |-> IF q \in analysis[p].gone THEN NoEntry ELSE entry[q]]]
    /\ UNCHANGED <<entry, numbered, latest>>

\* analyze_history: frequent questions that have no row, and an answer whose
\* bases are known.
PlanHistory(p, items) ==
    /\ Analyzing(p, "reading") /\ analysis[p].source = "history_frequent"
    /\ Cardinality(items) <= HistoryLimit
    /\ \A q \in items : entry[q] = NoEntry
    /\ analysis' = [analysis EXCEPT ![p].stage = "planned", ![p].items = items]
    /\ UNCHANGED <<entry, numbered, latest>>

\* The statements of the last flush: the first writes the time of the analysis on
\* the configuration of the role, which one transaction at a time can; each of
\* the others waits for whoever holds its row or its key, and then needs the row
\* it knows, or none.
FlushRows(p) ==
    /\ Analyzing(p, "planned") /\ Unlocked(p, analysis[p].items)
    /\ \A r \in Analysts : ~Analyzing(r, "flushed")
    /\ \A q \in analysis[p].items :
         IF analysis[p].known[q] = NoEntry THEN entry[q] = NoEntry \/ q \in analysis[p].gone
         ELSE entry[q] # NoEntry /\ entry[q].row = analysis[p].known[q].row
    /\ analysis' = [analysis EXCEPT ![p].stage = "flushed"]
    /\ UNCHANGED <<entry, numbered, latest>>

CommitAnalysis(p) ==
    LET x == analysis[p] IN
    /\ Analyzing(p, "flushed")
    /\ entry' = [q \in CacheQuestions |->
         IF q \in x.items
         THEN [source |-> x.source, row |-> IF x.known[q] = NoEntry THEN x.number ELSE x.known[q].row]
         ELSE IF q \in x.gone THEN NoEntry ELSE entry[q]]
    /\ latest' = IF x.source = "history_frequent" THEN latest ELSE IF x.met THEN "met" ELSE "alone"
    /\ analysis' = [analysis EXCEPT ![p] = NoAnalysis]
    /\ UNCHANGED numbered

\* No base, no chunk, no item with a source; the model, a constraint, a row that
\* is gone or a deadlock; or the process stops.  The next analysis tries again.
FailAnalysis(p) ==
    /\ analysis[p] # NoAnalysis
    /\ analysis' = [analysis EXCEPT ![p] = NoAnalysis]
    /\ UNCHANGED <<entry, numbered, latest>>

RoleCachesNext ==
    \E p \in Analysts :
        \/ \E s \in {"document_generated", "history_frequent"} : StartAnalysis(p, s)
        \/ \E items \in SUBSET CacheQuestions : SeekOld(p, items) \/ PlanHistory(p, items)
        \/ DeleteOld(p) \/ PlanRows(p) \/ FlushRows(p) \/ CommitAnalysis(p) \/ FailAnalysis(p)

RoleCachesSpec == RoleCachesInit /\ [][RoleCachesNext]_cache_vars

-----------------------------------------------------------------------------
(* Properties *)

\* "At most 20" (analyze_documents): an analysis that met no other leaves the
\* questions it made and none of the older ones.  Where analyses meet, each may
\* leave its own: one DELETE does not see what the other inserts.
LimitKept ==
    /\ latest = "alone" => Cardinality(DocumentEntries) <= DocumentLimit
    /\ Cardinality(DocumentEntries) <= DocumentLimit * Cardinality(Analysts)

\* "Generate first, then replace" (role_cache.py:266): once there were questions
\* from documents there always are, whatever fails or meets.
NeverEmptied == latest # "none" => DocumentEntries # {}

\* Both promises of an analysis of the documents.
RoleCachesKept == LimitKept /\ NeverEmptied
=============================================================================
