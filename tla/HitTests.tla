------------------------------- MODULE HitTests -------------------------------
(***************************************************************************)
(* Hit-rate tests: cases with their question rows, the edits of a case,    *)
(* the runs that put its questions to the retrieval, and the comparison of *)
(* strategies, which is one run after the other.                           *)
(*                                                                         *)
(* A request is one transaction, under READ COMMITTED: it sees what was    *)
(* committed when each of its statements began, and what it writes is      *)
(* visible at its commit.  A DELETE of question rows looks for the rows    *)
(* first, then waits for those another transaction has deleted.            *)
(***************************************************************************)
EXTENDS Naturals, Sequences, FiniteSets, FiniteSetsExt, SequencesExt

CONSTANTS
    Cases,       \* test cases that are ever made
    Testers,     \* requests in flight at a time
    QuestionLists, \* question lists a client sends, sequences over Labels
    TopK,        \* top_k of a run
    MaxBatches,  \* lists that are ever stored (a bound of the model)
    MaxRuns,     \* runs that are ever committed (a bound of the model)
    NoCase

\* Whether a question names the documents or chunks it expects.
Labels == {"labeled", "bare"}

ASSUME HitTestsAssumption ==
    /\ QuestionLists \subseteq Seq(Labels) \ {<<>>} /\ QuestionLists # {} /\ IsFiniteSet(QuestionLists)
    /\ TopK \in Nat \ {0} /\ MaxBatches \in Nat /\ MaxRuns \in Nat
    /\ NoCase \notin Cases

VARIABLES
    cases,     \* question_count of each case, 0 when it has no row
    made,      \* cases that were created
    rows,      \* question rows of each case
    lists,     \* history: the lists stored so far, in the order of their requests
    hit_runs,  \* committed test_runs with their test_results
    serial,    \* runs committed so far
    job,       \* the request of each tester
    compared,  \* what the last comparison of each tester returned
    clashed    \* history: cases with two edits at a time

hit_vars == <<cases, made, rows, lists, hit_runs, serial, job, compared, clashed>>

-----------------------------------------------------------------------------
(* State *)

\* A row: the list it came with, its sort_order and its label.
CaseRow == [batch : 1..MaxBatches, order : 1..Max({Len(b) : b \in QuestionLists}), label : Labels]
RowsOf(n, list) == {[batch |-> n, order |-> i, label |-> list[i]] : i \in DOMAIN list}

\* hits, rr: hit_count and the sum of the reciprocal ranks, in units of
\* 1 / TopK!;  asked, ranks: the results, rank 0 for a miss.
Units == LET product[i \in 0..TopK] == IF i = 0 THEN 1 ELSE product[i - 1] * i IN product[TopK]
Reciprocal(rank) == IF rank = 0 THEN 0 ELSE Units \div rank
NoJob == [stage |-> "idle"]
Working(p) == job[p] # NoJob
Exists(c) == cases[c] # 0
\* Rows whose deletion is not committed yet.
Locked(p) == IF Working(p) /\ job[p].stage = "replacing" THEN job[p].doomed ELSE {}
Editing(c) == {p \in Testers : Working(p) /\ job[p].stage \in {"editing", "deleting", "replacing"}
                               /\ job[p].case = c}
\* Requests whose run row refers to the case: its deletion waits for them.
Measuring(c) == {p \in Testers : Working(p) /\ job[p].stage = "measuring" /\ job[p].case = c}

Stages == {"idle", "editing", "deleting", "replacing", "cased", "read", "measuring"}
HitsTypeOK ==
    /\ cases \in [Cases -> Nat] /\ made \subseteq Cases
    /\ rows \in [Cases -> SUBSET CaseRow]
    /\ lists \in BoundedSeq(QuestionLists, MaxBatches)
    /\ serial \in 0..MaxRuns
    /\ \A i \in DOMAIN hit_runs :
        /\ i \in 1..serial
        /\ hit_runs[i].case \in Cases \cup {NoCase}
        /\ Len(hit_runs[i].asked) = Len(hit_runs[i].ranks)
        /\ \A k \in DOMAIN hit_runs[i].ranks : hit_runs[i].ranks[k] \in 0..TopK
    /\ \A p \in Testers : job[p].stage \in Stages
    /\ \A p \in Testers : \A k \in DOMAIN compared[p] : compared[p][k] \in 1..serial
    /\ clashed \subseteq Cases

HitsInit ==
    /\ cases = [c \in Cases |-> 0] /\ made = {}
    /\ rows = [c \in Cases |-> {}]
    /\ lists = <<>>
    /\ hit_runs = <<>> /\ serial = 0
    /\ job = [p \in Testers |-> NoJob]
    /\ compared = [p \in Testers |-> <<>>]
    /\ clashed = {}

-----------------------------------------------------------------------------
(* Cases *)

CreateCase(c, b) ==
    /\ c \notin made /\ Len(lists) < MaxBatches
    /\ lists' = Append(lists, b)
    /\ cases' = [cases EXCEPT ![c] = Len(b)] /\ made' = made \cup {c}
    /\ rows' = [rows EXCEPT ![c] = RowsOf(Len(lists) + 1, b)]
    /\ UNCHANGED <<hit_runs, serial, job, compared, clashed>>

\* update_test_case loads the case, for an edit that has a list of questions (one
\* of name or description waits for its row first); count is the question_count it saw.
LoadEdit(p, c, b) ==
    /\ ~Working(p) /\ Exists(c) /\ Len(lists) < MaxBatches
    /\ lists' = Append(lists, b)
    /\ job' = [job EXCEPT ![p] = [stage |-> "editing", case |-> c, count |-> cases[c],
                                  batch |-> Len(lists) + 1]]
    /\ clashed' = IF Editing(c) # {} THEN clashed \cup {c} ELSE clashed
    /\ UNCHANGED <<cases, made, rows, hit_runs, serial, compared>>

\* Its DELETE begins: it will delete the rows that are committed by now,
SeekRows(p) ==
    /\ Working(p) /\ job[p].stage = "editing"
    /\ job' = [job EXCEPT ![p] = [stage |-> "deleting", case |-> job[p].case, count |-> job[p].count,
                                  batch |-> job[p].batch, doomed |-> rows[job[p].case]]]
    /\ UNCHANGED <<cases, made, rows, lists, hit_runs, serial, compared, clashed>>

\* after the requests that have deleted one of them too,
DeleteRows(p) ==
    /\ Working(p) /\ job[p].stage = "deleting"
    /\ \A q \in Testers \ {p} : Locked(q) \cap job[p].doomed = {}
    /\ job' = [job EXCEPT ![p].stage = "replacing",
                          ![p].doomed = @ \cap rows[job[p].case]]
    /\ UNCHANGED <<cases, made, rows, lists, hit_runs, serial, compared, clashed>>

\* (Mutant: the count of the questions is left to the creation of the case.)
CommitEditNotCounting(p) ==
    /\ Working(p) /\ job[p].stage = "replacing"
    /\ LET c == job[p].case
       IN rows' = IF Exists(c)
                  THEN [rows EXCEPT ![c] = (@ \ job[p].doomed) \cup RowsOf(job[p].batch, lists[job[p].batch])]
                  ELSE rows
    /\ job' = [job EXCEPT ![p] = NoJob]
    /\ UNCHANGED <<cases, made, lists, hit_runs, serial, compared, clashed>>

\* and its commit inserts the new ones.  The UPDATE of question_count is left
\* out when it is what the request has loaded.  It fails when the case is gone.
CommitEdit(p) ==
    /\ Working(p) /\ job[p].stage = "replacing"
    /\ LET c == job[p].case
           size == Len(lists[job[p].batch])
       IN IF Exists(c)
          THEN /\ rows' = [rows EXCEPT ![c] = (@ \ job[p].doomed) \cup RowsOf(job[p].batch, lists[job[p].batch])]
               /\ cases' = IF size = job[p].count THEN cases ELSE [cases EXCEPT ![c] = size]
          ELSE UNCHANGED <<rows, cases>>
    /\ job' = [job EXCEPT ![p] = NoJob]
    /\ UNCHANGED <<made, lists, hit_runs, serial, compared, clashed>>

\* Questions go with their case, and its runs lose the reference to it.
DeleteCase(c) ==
    /\ Exists(c) /\ Measuring(c) = {}
    /\ \A p \in Testers : Locked(p) \cap rows[c] = {}
    /\ cases' = [cases EXCEPT ![c] = 0]
    /\ rows' = [rows EXCEPT ![c] = {}]
    /\ hit_runs' = [i \in DOMAIN hit_runs |->
                      IF hit_runs[i].case = c THEN [hit_runs[i] EXCEPT !.case = NoCase] ELSE hit_runs[i]]
    /\ UNCHANGED <<made, lists, serial, job, compared, clashed>>

-----------------------------------------------------------------------------
(* Runs *)

RoomFor(n) == serial + n <= MaxRuns
\* todo: runs that the request has still to do after this one;  done: their ids.
Run(c, todo, done) == [stage |-> "cased", case |-> c, todo |-> todo, done |-> done]

\* execute_test_run alone, or for each of two strategies.
StartRun(p, c, todo) ==
    /\ ~Working(p) /\ Exists(c) /\ RoomFor(todo + 1)
    /\ job' = [job EXCEPT ![p] = Run(c, todo, <<>>)]
    /\ UNCHANGED <<cases, made, rows, lists, hit_runs, serial, compared, clashed>>

Measured(x, asked) == [stage |-> "measuring", case |-> x.case, todo |-> x.todo, done |-> x.done,
                       asked |-> asked]
StartTemporary(p) ==
    /\ ~Working(p) /\ RoomFor(1)
    /\ job' = [job EXCEPT ![p] = Measured(Run(NoCase, 0, <<>>), <<[batch |-> 0, order |-> 1, label |-> "bare"]>>)]
    /\ UNCHANGED <<cases, made, rows, lists, hit_runs, serial, compared, clashed>>

\* Rows by sort_order; those of one order in any order.
Ordered(S) == CHOOSE s \in SetToSeqs(S) :
    \A i, j \in DOMAIN s : i < j => \/ s[i].order < s[j].order
                                    \/ s[i].order = s[j].order /\ s[i].batch < s[j].batch
Mixed(S) == Cardinality({r.label : r \in S}) > 1

\* Its questions: none is an error, and so is a mixture of labels.
ReadQuestions(p) ==
    /\ Working(p) /\ job[p].stage = "cased"
    /\ LET found == rows[job[p].case]
       IN job' = [job EXCEPT ![p] =
            IF found = {} \/ Mixed(found) THEN NoJob
            ELSE [stage |-> "read", case |-> job[p].case, todo |-> job[p].todo, done |-> job[p].done,
                  asked |-> Ordered(found)]]
    /\ UNCHANGED <<cases, made, rows, lists, hit_runs, serial, compared, clashed>>

\* The run row is inserted: an error when its case is gone.
InsertRun(p) ==
    /\ Working(p) /\ job[p].stage = "read"
    /\ job' = [job EXCEPT ![p] = IF Exists(job[p].case) THEN Measured(job[p], job[p].asked) ELSE NoJob]
    /\ UNCHANGED <<cases, made, rows, lists, hit_runs, serial, compared, clashed>>

\* One question: found is the number of results, fit the ranks of expected ones.
CheckHit(label, found, fit) ==
    IF found = 0 THEN 0
    ELSE IF label = "bare" THEN 1
    ELSE IF fit = {} THEN 0 ELSE Min(fit)
Outcomes(label) == {CheckHit(label, f, S) : f \in 0..TopK, S \in SUBSET (1..TopK)}

HitCount(ranks) == Cardinality({i \in DOMAIN ranks : ranks[i] # 0})
CalculateMrr(ranks) ==
    LET sum[i \in 0..Len(ranks)] == IF i = 0 THEN 0 ELSE sum[i - 1] + Reciprocal(ranks[i])
    IN  sum[Len(ranks)]

\* The loop over the questions, which nobody sees before the run, its results
\* and its figures are committed together.  A comparison goes on with the next
\* strategy.
CommitRun(p, ranks) ==
    /\ Working(p) /\ job[p].stage = "measuring"
    /\ DOMAIN ranks = DOMAIN job[p].asked
    /\ \A k \in DOMAIN ranks : ranks[k] \in Outcomes(job[p].asked[k].label)
    /\ serial < MaxRuns
    /\ serial' = serial + 1
    /\ LET x == job[p]
           done == Append(x.done, serial + 1)
       IN /\ hit_runs' = [i \in DOMAIN hit_runs \cup {serial + 1} |->
                IF i \in DOMAIN hit_runs THEN hit_runs[i]
                ELSE [case |-> x.case, asked |-> x.asked, ranks |-> ranks,
                      total |-> Len(x.asked), hits |-> HitCount(ranks), rr |-> CalculateMrr(ranks)]]
          /\ IF x.todo > 0 /\ Exists(x.case)
             THEN job' = [job EXCEPT ![p] = Run(x.case, x.todo - 1, done)] /\ UNCHANGED compared
             ELSE /\ job' = [job EXCEPT ![p] = NoJob]
                  /\ compared' = IF x.todo = 0 /\ x.done # <<>>
                                 THEN [compared EXCEPT ![p] = done] ELSE compared
    /\ UNCHANGED <<cases, made, rows, lists, clashed>>

\* An error or a crash: what the request has not committed is gone.
Drop(p) ==
    /\ Working(p)
    /\ job' = [job EXCEPT ![p] = NoJob]
    /\ UNCHANGED <<cases, made, rows, lists, hit_runs, serial, compared, clashed>>

DeleteRun(i) ==
    /\ i \in DOMAIN hit_runs
    /\ hit_runs' = [k \in DOMAIN hit_runs \ {i} |-> hit_runs[k]]
    /\ UNCHANGED <<cases, made, rows, lists, serial, job, compared, clashed>>

DeleteAllRuns ==
    /\ hit_runs # <<>>
    /\ hit_runs' = <<>>
    /\ UNCHANGED <<cases, made, rows, lists, serial, job, compared, clashed>>

RankLists == BoundedSeq(0..TopK, 2 * Max({Len(b) : b \in QuestionLists}))

HitsNext ==
    \/ \E c \in Cases : DeleteCase(c) \/ \E b \in QuestionLists : CreateCase(c, b)
    \/ \E p \in Testers :
        \/ \E c \in Cases : \/ \E b \in QuestionLists : LoadEdit(p, c, b)
                            \/ \E todo \in 0..1 : StartRun(p, c, todo)
        \/ SeekRows(p) \/ DeleteRows(p) \/ CommitEdit(p)
        \/ StartTemporary(p) \/ ReadQuestions(p) \/ InsertRun(p)
        \/ \E ranks \in RankLists : CommitRun(p, ranks)
        \/ Drop(p)
    \/ \E i \in 1..serial : DeleteRun(i)
    \/ DeleteAllRuns

HitsSpec == HitsInit /\ [][HitsNext]_hit_vars

-----------------------------------------------------------------------------
(* Properties *)

\* A case that nobody edited twice at a time has the questions of one list,
\* and question_count is their number: a list replaces the other as a whole.
CaseWhole == \A c \in Cases \ clashed :
    Exists(c) => \E n \in DOMAIN lists : rows[c] = RowsOf(n, lists[n]) /\ cases[c] = Len(lists[n])

\* A run measured all questions of one list in their order, whatever edits,
\* failures and deletions it met, unless a case was edited twice at a time.
RunMeasuresList == \A i \in DOMAIN hit_runs :
    LET asked == hit_runs[i].asked
        n == asked[1].batch
    IN  \/ n = 0 \/ clashed # {}
        \/ asked = [k \in DOMAIN lists[n] |-> [batch |-> n, order |-> k, label |-> lists[n][k]]]

\* The figures of a run are those of its results.
FiguresFit == \A i \in DOMAIN hit_runs :
    LET r == hit_runs[i] IN
    /\ r.total = Len(r.ranks)
    /\ r.hits <= r.total
    /\ r.hits = 0 <=> r.rr = 0
    /\ r.rr <= r.hits * Units

\* Lists are replaced and measured as a whole (update_test_case, execute_test_run).
ListsWhole == CaseWhole /\ RunMeasuresList
=============================================================================
