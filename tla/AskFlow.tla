------------------------------- MODULE AskFlow -------------------------------
(***************************************************************************)
(* What an ask does between its question and its answer (QAPipeline.run):  *)
(* guard, route, scope and level, FAQ, role cache, exact cache, retrieval, *)
(* the evidence of the last turn and neighbouring chunks, the filters by   *)
(* level, the gate of the model, the answer, the turn that is kept.        *)
(*                                                                         *)
(* A conversation asks one question at a time; several conversations share *)
(* the process.  Meanwhile administrators change levels and rights.  An    *)
(* action is the code between two awaits that read or write what others    *)
(* change.  How turns are stored is the subject of Sessions, how the exact *)
(* cache works that of AnswerCache.                                        *)
(***************************************************************************)
EXTENDS Naturals, Sequences, FiniteSets, SequencesExt

CONSTANTS
    Conversations,
    Docs, Bases, Levels,
    FirstLevels, \* levels documents may start with
    Kb,        \* the base of a document
    Chunks,    \* chunks of the documents, as <<document, index>>
    Slots,     \* model calls at a time (MODEL_MAX_CONCURRENT_GENERATIONS)
    TopK,      \* hits of a retrieval
    Cap,       \* evidence of a follow-up (QA_STICKY_EVIDENCE_CAP)
    MaxAsks,   \* questions asked in all (a bound of the model)
    MaxEvents  \* changes, analyses, failures, leaving clients (a bound)

ASSUME FlowAssumption ==
    /\ Levels \subseteq Nat /\ FirstLevels \subseteq Levels
    /\ Kb \in [Docs -> Bases]
    /\ Chunks \subseteq Docs \X Nat
    /\ Slots \in Nat \ {0} /\ TopK \in Nat \ {0} /\ Cap \in Nat \ {0}
    /\ MaxAsks \in Nat /\ MaxEvents \in Nat

VARIABLES
    level,   \* level of each document and of its chunks
    rights,  \* bases each conversation may search: what resolve_kb_targets returns
    rank,    \* level of its user
    exact,   \* the last answer in the exact cache
    role,    \* the entry of the role cache for the question
    free,    \* free slots of the gate
    last,    \* citations of the last answer that was kept
    turns,   \* turns kept
    asked,   \* questions asked so far
    ask,     \* the ask of each conversation
    events

vars == <<level, rights, rank, exact, role, free, last, turns, asked, ask, events>>

BaseOf(c) == Kb[c[1]]
LevelOf(c) == level[c[1]]

\* A cached answer: what it cites, and the bases and level it was made for.
Nothing == [cites |-> <<>>, bases |-> {}, level |-> 0, there |-> FALSE]
Answers == [cites : Seq(Chunks), bases : SUBSET Bases, level : Levels \cup {0}, there : BOOLEAN]

\* What an analysis writes: its source is in the base it names.
RoleEntry(c) == [cites |-> <<c>>, bases |-> {BaseOf(c)}, level |-> 0, there |-> TRUE]

Stages == {"idle", "open", "routed", "scoped", "checked", "missed", "found",
           "merged", "cited", "generating", "direct", "answered", "kept", "done"}
Ways == {"new", "followup", "direct", "role"}
Outcomes == {"none", "done", "error", "blocked", "denied", "left"}
\* bases, level: scope and level as resolved;  hits: what retrieval found and
\* the level allows;  cites: the evidence so far, then the citations;
\* moved: documents whose level changed meanwhile;  kept: the turn is committed.
Ask == [stage : Stages, way : Ways, bases : SUBSET Bases, level : Levels \cup {0},
        hits : Seq(Chunks), cites : Seq(Chunks), moved : SUBSET Docs,
        kept : BOOLEAN, outcome : Outcomes]
Idle == [stage |-> "idle", way |-> "new", bases |-> {}, level |-> 0, hits |-> <<>>,
         cites |-> <<>>, moved |-> {}, kept |-> FALSE, outcome |-> "none"]

TypeOK ==
    /\ level \in [Docs -> Levels]
    /\ rights \in [Conversations -> SUBSET Bases]
    /\ rank \in [Conversations -> Levels]
    /\ exact \in Answers /\ role \in Answers
    /\ free \in 0..Slots
    /\ last \in [Conversations -> Seq(Chunks)]
    /\ turns \in [Conversations -> 0..MaxAsks]
    /\ asked \in 0..MaxAsks
    /\ ask \in [Conversations -> Ask]
    /\ events \in 0..MaxEvents

Init ==
    /\ level \in [Docs -> FirstLevels]
    /\ rights = [a \in Conversations |-> Bases]
    /\ rank \in [Conversations -> Levels]
    /\ exact = Nothing
    /\ role \in {Nothing} \cup {RoleEntry(c) : c \in Chunks}
    /\ free = Slots
    /\ last = [a \in Conversations |-> <<>>]
    /\ turns = [a \in Conversations |-> 0]
    /\ asked = 0
    /\ ask = [a \in Conversations |-> Idle]
    /\ events = 0

Event == events < MaxEvents /\ events' = events + 1
At(a, s) == ask[a].stage = s
Goes(a, s) == ask' = [ask EXCEPT ![a].stage = s]
Ends(a, o) == ask' = [ask EXCEPT ![a] = [Idle EXCEPT !.outcome = o, !.kept = ask[a].kept]]

-----------------------------------------------------------------------------
(* Evidence *)

\* The members of s at the places I, in their order.
Sift(s, I) ==
    LET f[i \in 0..Len(s)] ==
            IF i = 0 THEN <<>> ELSE IF i \in I THEN Append(f[i - 1], s[i]) ELSE f[i - 1]
    IN  f[Len(s)]
Only(s, C) == Sift(s, {i \in DOMAIN s : s[i] \in C})
Distinct(s) == Sift(s, {i \in DOMAIN s : \A j \in 1..(i - 1) : s[j] # s[i]})
First(n, s) == SubSeq(s, 1, IF Len(s) < n THEN Len(s) ELSE n)

\* filter_hits_by_sensitivity
Allowed(s, l) == Only(s, {c \in Chunks : LevelOf(c) <= l})
Within(s, B) == Only(s, {c \in Chunks : BaseOf(c) \in B})

\* merge_retrieval_hits: what is kept from before comes first.
Merge(primary, sticky, cap) == First(cap, Distinct(sticky \o primary))

\* expand_neighbor_hits with a radius of 1: where the chunks before and after
\* each of s would be, and those that are there.
Beside(s, k) ==
    LET c == s[(k + 1) \div 2] IN <<c[1], IF k % 2 = 1 THEN c[2] - 1 ELSE c[2] + 1>>
Neighbors(s, B) ==
    Within(Only(Distinct([k \in 1..(2 * Len(s)) |-> Beside(s, k)]), Chunks \ ToSet(s)), B)

\* What a retrieval may return; which chunks match is up to the question.
Results(B) == {s \in BoundedSeq({c \in Chunks : BaseOf(c) \in B}, TopK) : Distinct(s) = s}

-----------------------------------------------------------------------------
(* Guard, session, route, scope *)

\* A question enters the pipeline; the local rules may stop it.
Start(a) ==
    /\ At(a, "idle") /\ asked < MaxAsks
    /\ asked' = asked + 1
    /\ ask' = [ask EXCEPT ![a] = [Idle EXCEPT !.stage = "open"]]
    /\ UNCHANGED <<level, rights, rank, exact, role, free, last, turns, events>>

\* Blocked by the local rules, or after the FAQ by the full guard.
Block(a) ==
    /\ At(a, "open") \/ At(a, "checked")
    /\ Event
    /\ Ends(a, "blocked")
    /\ UNCHANGED <<level, rights, rank, exact, role, free, last, turns, asked>>

\* Templates, and transformations of the last answer, are answers at once and
\* cite nothing.  A question is a follow-up only if there were turns.
Route(a) ==
    /\ At(a, "open")
    /\ \/ ask' = [ask EXCEPT ![a].stage = "direct", ![a].way = "direct"]
       \/ Goes(a, "routed")
       \/ turns[a] > 0 /\ ask' = [ask EXCEPT ![a].stage = "routed", ![a].way = "followup"]
    /\ UNCHANGED <<level, rights, rank, exact, role, free, last, turns, asked, events>>

\* resolve_kb_targets, for all bases or for the one the user picked
ResolveScope(a) ==
    /\ At(a, "routed")
    /\ \E B \in SUBSET rights[a] :
         /\ B = rights[a] \/ Cardinality(B) = 1
         /\ ask' = [ask EXCEPT ![a].stage = "scoped", ![a].bases = B, ![a].level = rank[a]]
    /\ UNCHANGED <<level, rights, rank, exact, role, free, last, turns, asked, events>>

\* None of the bases the user picked can be searched.
RefuseScope(a) ==
    /\ At(a, "routed") /\ rights[a] # Bases
    /\ Ends(a, "error")
    /\ UNCHANGED <<level, rights, rank, exact, role, free, last, turns, asked, events>>

-----------------------------------------------------------------------------
(* Answers that are there already *)

\* check_faq_hit: the row of a FAQ has the level of its sources (FaqBase).
HitFaq(a) ==
    /\ At(a, "scoped")
    /\ \E c \in Chunks :
         /\ BaseOf(c) \in ask[a].bases
         /\ IF LevelOf(c) <= ask[a].level
            THEN ask' = [ask EXCEPT ![a].stage = "direct", ![a].way = "direct", ![a].cites = <<c>>]
            ELSE Ends(a, "denied")
    /\ UNCHANGED <<level, rights, rank, exact, role, free, last, turns, asked, events>>

MissFaq(a) ==
    /\ At(a, "scoped")
    /\ Goes(a, "checked")
    /\ UNCHANGED <<level, rights, rank, exact, role, free, last, turns, asked, events>>

\* RoleCacheService.lookup: the bases of the entry within the scope, its
\* documents within the level.
RoleFits(a) ==
    /\ role.there /\ role.bases # {} /\ role.bases \subseteq ask[a].bases
    /\ \A c \in ToSet(role.cites) : LevelOf(c) <= ask[a].level

HitRole(a) ==
    /\ At(a, "checked") /\ RoleFits(a)
    /\ ask' = [ask EXCEPT ![a].stage = "direct", ![a].way = "role", ![a].cites = role.cites]
    /\ UNCHANGED <<level, rights, rank, exact, role, free, last, turns, asked, events>>

ExactFits(a) == exact.there /\ exact.bases = ask[a].bases /\ exact.level = ask[a].level

\* An answer in the exact cache, at once or after waiting for its builder, is
\* checked against the levels of now and dropped if they do not allow it.
ServeExact(a) ==
    /\ At(a, "checked") /\ ExactFits(a) /\ ~RoleFits(a)
    /\ IF \A c \in ToSet(exact.cites) : LevelOf(c) <= ask[a].level
       THEN /\ ask' = [ask EXCEPT ![a].stage = "direct", ![a].way = "direct", ![a].cites = exact.cites]
            /\ UNCHANGED exact
       ELSE exact' = Nothing /\ Goes(a, "missed")
    /\ UNCHANGED <<level, rights, rank, role, free, last, turns, asked, events>>

\* No entry, or one that Redis or the process has lost.
MissCaches(a) ==
    /\ At(a, "checked") /\ ~RoleFits(a)
    /\ Goes(a, "missed")
    /\ UNCHANGED <<level, rights, rank, exact, role, free, last, turns, asked, events>>

-----------------------------------------------------------------------------
(* Evidence and answer *)

\* Retrieval, tried again with the original question when it finds nothing,
\* then the filter by level.
Retrieve(a) ==
    /\ At(a, "missed") /\ ask[a].bases # {}
    /\ \E s \in Results(ask[a].bases) :
         ask' = [ask EXCEPT ![a].stage = "found",
                            ![a].hits = Allowed(s, ask[a].level), ![a].cites = Allowed(s, ask[a].level)]
    /\ UNCHANGED <<level, rights, rank, exact, role, free, last, turns, asked, events>>

\* A follow-up that finds citations of the last answer takes them and all
\* neighbours first, up to the cap; other questions take the neighbours of
\* their hits and have room for both.
Gather(a) ==
    LET x == ask[a]
        follows == x.way = "followup" /\ last[a] # <<>>
        sticky == IF follows THEN Within(last[a], x.bases) ELSE <<>>
        near == Neighbors(sticky \o x.hits, x.bases)
        room == IF TopK + Len(near) > Cap THEN TopK + Len(near) ELSE Cap
    IN
    /\ At(a, "found")
    /\ ask' = [ask EXCEPT ![a].stage = "merged",
                          ![a].cites = Merge(x.hits, sticky \o near, IF follows THEN Cap ELSE room)]
    /\ UNCHANGED <<level, rights, rank, exact, role, free, last, turns, asked, events>>

\* Mutant of Refilter: what was merged is taken as it is.
KeepMerged(a) ==
    /\ At(a, "merged")
    /\ Goes(a, IF ask[a].cites = <<>> THEN "answered" ELSE "cited")
    /\ UNCHANGED <<level, rights, rank, exact, role, free, last, turns, asked, events>>

\* The second filter by level; without evidence the answer says so and calls
\* no gated model.
Refilter(a) ==
    LET kept == Allowed(ask[a].cites, ask[a].level) IN
    /\ At(a, "merged")
    /\ ask' = [ask EXCEPT ![a].stage = IF kept = <<>> THEN "answered" ELSE "cited",
                          ![a].cites = kept]
    /\ UNCHANGED <<level, rights, rank, exact, role, free, last, turns, asked, events>>

\* Nothing may be searched.
SearchNothing(a) ==
    /\ At(a, "missed") /\ ask[a].bases = {}
    /\ Goes(a, "answered")
    /\ UNCHANGED <<level, rights, rank, exact, role, free, last, turns, asked, events>>

\* The client has the citations by now.
AcquireSlot(a) ==
    /\ At(a, "cited") /\ free > 0
    /\ free' = free - 1
    /\ Goes(a, "generating")
    /\ UNCHANGED <<level, rights, rank, exact, role, last, turns, asked, events>>

\* No slot within QA_MAX_QUEUE_WAIT_SECONDS
Busy(a) ==
    /\ At(a, "cited") /\ free = 0
    /\ Ends(a, "error")
    /\ UNCHANGED <<level, rights, rank, exact, role, free, last, turns, asked, events>>

Generate(a) ==
    /\ At(a, "generating")
    /\ free' = free + 1
    /\ Goes(a, "answered")
    /\ UNCHANGED <<level, rights, rank, exact, role, last, turns, asked, events>>

-----------------------------------------------------------------------------
(* The end of an ask *)

\* Mutant of PersistTurn: done comes first.
DoneFirst(a) ==
    /\ At(a, "answered") \/ At(a, "direct")
    /\ Ends(a, "done")
    /\ UNCHANGED <<level, rights, rank, exact, role, free, last, turns, asked, events>>

\* _persist_turn commits (Sessions).
PersistTurn(a) ==
    /\ At(a, "answered") \/ At(a, "direct")
    /\ last' = [last EXCEPT ![a] = ask[a].cites]
    /\ turns' = [turns EXCEPT ![a] = @ + 1]
    /\ ask' = [ask EXCEPT ![a].stage = IF ask[a].way \in {"new", "followup"} THEN "kept" ELSE "done",
                          ![a].kept = TRUE]
    /\ UNCHANGED <<level, rights, rank, exact, role, free, asked, events>>

\* put_exact, before done for an answer of the model and after it for one of
\* the role cache; an empty answer releases the build only.
Entry(a) == [cites |-> ask[a].cites, bases |-> ask[a].bases, level |-> ask[a].level, there |-> TRUE]
StoreAnswer(a) ==
    /\ At(a, "kept")
    /\ exact' \in {exact, Entry(a)}
    /\ Goes(a, "done")
    /\ UNCHANGED <<level, rights, rank, role, free, last, turns, asked, events>>

Done(a) ==
    /\ At(a, "done")
    /\ exact' = IF ask[a].way = "role" THEN Entry(a) ELSE exact
    /\ Ends(a, "done")
    /\ UNCHANGED <<level, rights, rank, role, free, last, turns, asked, events>>

\* Mutant of Fail: the slot is not given back.
FailHolding(a) ==
    /\ ask[a].stage \notin {"idle", "kept", "done"} /\ Event
    /\ Ends(a, "error")
    /\ UNCHANGED <<level, rights, rank, exact, role, free, last, turns, asked>>

Release(a) == free' = IF At(a, "generating") THEN free + 1 ELSE free

\* An exception, of the model or of the database.
Fail(a) ==
    /\ ask[a].stage \notin {"idle", "kept", "done"} /\ Event
    /\ Release(a)
    /\ Ends(a, "error")
    /\ UNCHANGED <<level, rights, rank, exact, role, last, turns, asked>>

\* The client goes away: the generator ends at its next yield.
Leave(a) ==
    /\ ask[a].stage # "idle" /\ Event
    /\ Release(a)
    /\ Ends(a, "left")
    /\ UNCHANGED <<level, rights, rank, exact, role, last, turns, asked>>

-----------------------------------------------------------------------------
(* Administration *)

\* update_document_sensitivity invalidates the exact cache after its commit,
\* or fails to; asks that run see the new level from now on.
SetLevel(d, l) ==
    /\ level[d] # l /\ Event
    /\ level' = [level EXCEPT ![d] = l]
    /\ exact' \in {exact, Nothing}
    /\ ask' = [a \in Conversations |-> IF At(a, "idle") THEN ask[a] ELSE [ask[a] EXCEPT !.moved = @ \cup {d}]]
    /\ UNCHANGED <<rights, rank, role, free, last, turns, asked>>

\* Departments, grants, the status of a base, roles and overrides of a user
SetRights(a, B, l) ==
    /\ Event
    /\ rights' = [rights EXCEPT ![a] = B]
    /\ rank' = [rank EXCEPT ![a] = l]
    /\ UNCHANGED <<level, exact, role, free, last, turns, asked, ask>>

\* analyze_documents: new questions and answers for a role, with their sources.
AnalyzeDocuments(c) ==
    /\ role.cites # <<c>> /\ Event
    /\ role' = RoleEntry(c)
    /\ UNCHANGED <<level, rights, rank, exact, free, last, turns, asked, ask>>

Step(a) ==
    \/ Start(a) \/ Block(a) \/ Route(a) \/ ResolveScope(a) \/ RefuseScope(a)
    \/ HitFaq(a) \/ MissFaq(a) \/ HitRole(a) \/ ServeExact(a) \/ MissCaches(a)
    \/ Retrieve(a) \/ Gather(a) \/ Refilter(a) \/ SearchNothing(a)
    \/ AcquireSlot(a) \/ Busy(a) \/ Generate(a)
    \/ PersistTurn(a) \/ StoreAnswer(a) \/ Done(a) \/ Fail(a) \/ Leave(a)

Next ==
    \/ \E a \in Conversations : Step(a)
    \/ \E d \in Docs, l \in Levels : SetLevel(d, l)
    \/ \E a \in Conversations, B \in SUBSET Bases, l \in Levels : SetRights(a, B, l)
    \/ \E c \in Chunks : AnalyzeDocuments(c)

Spec == Init /\ [][Next]_vars
-----------------------------------------------------------------------------
(* Properties *)

Shown == {"cited", "generating", "direct", "answered", "kept", "done"}

\* Whatever an answer comes from (retrieval, the last turn, neighbours, FAQ,
\* role cache, exact cache), it cites only documents of the bases resolved for
\* this ask, and none above its level but those whose level changed since.
CitesAllowed ==
    \A a \in Conversations : ask[a].stage \in Shown =>
        \A c \in ToSet(ask[a].cites) :
            /\ BaseOf(c) \in ask[a].bases
            /\ LevelOf(c) <= ask[a].level \/ c[1] \in ask[a].moved

\* The slots of the gate are free or held by asks that generate, however an
\* ask ends: no slot is lost and none is given back twice.
Generating == {a \in Conversations : At(a, "generating")}
GateExact == free + Cardinality(Generating) = Slots

\* What the client is told is what was kept: done only with a committed turn,
\* an error or a refusal only without one.
OutcomeHonest ==
    \A a \in Conversations :
        /\ ask[a].outcome = "done" => ask[a].kept
        /\ ask[a].outcome \in {"error", "blocked", "denied"} => ~ask[a].kept

=============================================================================
