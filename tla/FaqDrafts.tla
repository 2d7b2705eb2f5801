------------------------------- MODULE FaqDrafts -------------------------------
(***************************************************************************)
(* What the generation of FAQs makes of a document before it writes rows:  *)
(* a target, batches of chunks, one or two model calls for each, items     *)
(* checked against the chunks they name, duplicates folded, and drafts     *)
(* that a person has to look at.                                           *)
(*                                                                         *)
(* A question is a sequence of characters: "w" is an interrogative word,   *)
(* "and" and "each" join two, "?" is a question mark, "secret" matches a   *)
(* sensitive pattern, others are ordinary.                                 *)
(***************************************************************************)
EXTENDS Integers, Sequences, FiniteSets, FiniteSetsExt, SequencesExt, Lists

CONSTANTS
    Documents,     \* [chunks, chars]: how many chunks, and characters in all
    Letters,       \* the ordinary characters
    Said,          \* what may be said
    ModelReplies,  \* sequences of [question, answer, refs], as the model may answer
    ActiveSets,    \* sets of questions that active rows may have
    ShortAnswers, SensitiveAnswers, \* of ten characters at most; with a sensitive pattern
    BatchOf,       \* FAQ_DOCUMENT_CHUNK_BATCH_SIZE
    DraftCap,      \* FAQ_PER_DOCUMENT_COUNT
    SimilarAbove,  \* FAQ_SIMILARITY_THRESHOLD in percent
    GoodEnough     \* FAQ_QUALITY_THRESHOLD in percent

Characters == {"w", "and", "each", "?", "secret"} \cup Letters

ASSUME DraftsAssumption ==
    /\ {BatchOf, DraftCap, SimilarAbove, GoodEnough} \subseteq Nat
    /\ \A doc \in Documents : doc.chunks \in Nat \ {0} /\ doc.chars \in Nat
    /\ ModelReplies \subseteq Seq([question : Seq(Characters), answer : Said, refs : Seq(Int)])
    /\ ActiveSets \subseteq SUBSET Seq(Characters)

VARIABLES
    drafting, \* the document, the questions of active rows, where the generation is
    drafts,   \* what it has, in order
    stated    \* history: what the model said that can be used

draft_vars == <<drafting, drafts, stated>>

-----------------------------------------------------------------------------
(* The document *)

\* _faq_target_for_document.
TargetOf(doc) ==
    LET scaled == CASE doc.chars < 200 -> 2
                    [] doc.chars < 600 \/ doc.chunks <= 1 -> 4
                    [] doc.chars < 1500 \/ doc.chunks <= 3 -> 8
                    [] doc.chunks <= 8 -> Max({10, doc.chunks * 2})
                    [] OTHER -> DraftCap
    IN  Min({Max({1, DraftCap}), scaled})

\* _chunk_batches
BatchSize_ == Max({1, BatchOf})
ChunksOfBatch(doc, k) == ((k - 1) * BatchSize_ + 1)..Min({k * BatchSize_, doc.chunks})

-----------------------------------------------------------------------------
(* Questions *)

Count(q, characters) == Cardinality({i \in DOMAIN q : q[i] \in characters})

\* normalize_cache_question: marks at the end are left out.
Normal(q) == LET kept == {i \in DOMAIN q : q[i] # "?"} IN
             IF kept = {} THEN <<>> ELSE SubSeq(q, 1, Max(kept))

\* (Mutant: characters that differ cost nothing.)
NextRowCheap(s, t, i, previous) ==
    LET row[j \in 0..Len(t)] ==
            IF j = 0 THEN i ELSE Min({previous[j + 1] + 1, row[j - 1] + 1, previous[j]})
    IN  [j \in 1..(Len(t) + 1) |-> row[j - 1]]

\* The next row of _levenshtein: each entry from its neighbours; place j is at
\* j + 1 of a row.
NextRow(s, t, i, previous) ==
    LET row[j \in 0..Len(t)] ==
            IF j = 0 THEN i
            ELSE Min({previous[j + 1] + 1, row[j - 1] + 1, previous[j] + IF s[i] = t[j] THEN 0 ELSE 1})
    IN  [j \in 1..(Len(t) + 1) |-> row[j - 1]]

\* _levenshtein: row by row, the shorter of the two along the row.
RowByRow(s, t) ==
    LET rows[i \in 0..Len(s)] ==
            IF i = 0 THEN [j \in 1..(Len(t) + 1) |-> j - 1] ELSE NextRow(s, t, i, rows[i - 1])
    IN  rows[Len(s)][Len(t) + 1]
Levenshtein(s, t) == IF Len(s) < Len(t) THEN RowByRow(t, s) ELSE RowByRow(s, t)

\* _similarity, compared with the threshold: 40 parts for the distance, 60 for
\* the characters in common.
Similar(p, q) ==
    LET s == Normal(p)
        t == Normal(q)
        longer == Max({Len(s), Len(t)})
        all == Cardinality(ToSet(s) \cup ToSet(t))
        common == Cardinality(ToSet(s) \cap ToSet(t))
    IN  IF s = t THEN 100 > SimilarAbove
        ELSE 40 * (longer - Levenshtein(s, t)) * all + 60 * common * longer > SimilarAbove * longer * all

\* classify_compound_question: several questions in one; plainly so.
Strong(q) == Count(q, {"?"}) >= 2 \/ (Count(q, {"each"}) > 0 /\ Count(q, {"w"}) >= 2)
Compound(q) == Strong(q) \/ \E i, j \in DOMAIN q : i < j /\ q[i] \in {"each", "and"} /\ q[j] = "w"

-----------------------------------------------------------------------------
(* Answers of the model *)

\* _parse_and_validate: refs count from 1 within the batch; at most three are
\* kept, but all that are right count for the quality.
ValidRefs(item, batch) == Sift(item.refs, {i \in DOMAIN item.refs : item.refs[i] \in 1..Cardinality(batch)})
Usable(item, batch) == item.question # <<>> /\ item.answer \notin ShortAnswers /\ ValidRefs(item, batch) # <<>>

DraftOf(item, batch) ==
    LET refs == ValidRefs(item, batch) IN
    [question |-> item.question, answer |-> item.answer,
     chunk_ids |-> [i \in 1..Min({3, Len(refs)}) |-> Min(batch) + refs[i] - 1],
     quality |-> IF Len(refs) >= 2 THEN 78 ELSE 72, status |-> "active"]

Parsed(reply, batch) ==
    LET items == Sift(reply, {i \in DOMAIN reply : Usable(reply[i], batch)})
    IN  [i \in DOMAIN items |-> DraftOf(items[i], batch)]

-----------------------------------------------------------------------------
(* Duplicates *)

\* (Mutant: the chunks stay those of the first.)
ReplacedAnswer(kept, new) == [kept EXCEPT !.answer = new.answer, !.quality = new.quality, !.status = new.status]

\* A later draft of a question gives its answer to the draft that is kept, with
\* all that belongs to the answer.
Replaced(kept, new) == [new EXCEPT !.question = kept.question]

\* _deduplicate
Folded(unique, new, active) ==
    LET alike == {i \in DOMAIN unique : Similar(new.question, unique[i].question)} IN
    IF \E q \in active : Similar(new.question, q) THEN unique
    ELSE IF alike = {} THEN Append(unique, new)
    ELSE [unique EXCEPT ![Min(alike)] = Replaced(@, new)]
Unique(generated, active) ==
    LET unique[k \in 0..Len(generated)] ==
            IF k = 0 THEN <<>> ELSE Folded(unique[k - 1], generated[k], active)
    IN  unique[Len(generated)]

-----------------------------------------------------------------------------
(* What is saved *)

\* A sensitive draft waits for a person; a poor one is left out unless it
\* waits; a compound one waits too (apply_compound_flags).
Sensitive(d) == d.answer \in SensitiveAnswers \/ Count(d.question, {"secret"}) > 0
Reviewed(d) ==
    LET status == IF Sensitive(d) THEN "pending_review" ELSE d.status IN
    [question |-> d.question, answer |-> d.answer, chunk_ids |-> d.chunk_ids, quality |-> d.quality,
     is_compound |-> Compound(d.question),
     status |-> IF Strong(d.question) /\ status = "active" THEN "pending_review" ELSE status]
Passes(d) == d.quality >= GoodEnough \/ Sensitive(d)

Saved(unique) ==
    LET passed == Sift(unique, {i \in DOMAIN unique : Passes(unique[i])}) IN [i \in DOMAIN passed |-> Reviewed(passed[i])]

-----------------------------------------------------------------------------
(* Specification *)

DraftsInit ==
    /\ \E doc \in Documents, active \in ActiveSets :
          drafting = [document |-> doc, active |-> active, stage |-> "calling", batch |-> 1, tries |-> 0]
    /\ drafts = <<>> /\ stated = {}

Document_ == drafting.document
Calling == /\ drafting.stage = "calling" /\ Len(drafts) < TargetOf(Document_)
           /\ ChunksOfBatch(Document_, drafting.batch) # {}
NextBatch == drafting' = [drafting EXCEPT !.batch = @ + 1, !.tries = 0]

\* model_concurrency_gate.acquire fails: the batch is given up.
GateBusy == Calling /\ NextBatch /\ UNCHANGED <<drafts, stated>>

\* _generate_batch_with_retry: a call that fails, or brings nothing that can be
\* used, is made once more.
NothingUsed ==
    /\ Calling
    /\ IF drafting.tries = 1 THEN NextBatch ELSE drafting' = [drafting EXCEPT !.tries = 1]
    /\ UNCHANGED <<drafts, stated>>

ModelAnswers(reply) ==
    LET batch == ChunksOfBatch(Document_, drafting.batch)
        found == Parsed(reply, batch) IN
    /\ Calling /\ found # <<>> /\ NextBatch
    /\ drafts' = drafts \o found
    /\ stated' = stated \cup {[item |-> reply[i], batch |-> batch] :
                                 i \in {j \in DOMAIN reply : Usable(reply[j], batch)}}

FoldDuplicates ==
    /\ drafting.stage = "calling" /\ ~Calling
    /\ drafts' = Unique(drafts, drafting.active)
    /\ drafting' = [drafting EXCEPT !.stage = "unique"]
    /\ UNCHANGED stated

SaveDrafts ==
    /\ drafting.stage = "unique"
    /\ drafts' = Saved(drafts)
    /\ drafting' = [drafting EXCEPT !.stage = "saved"]
    /\ UNCHANGED stated

DraftsNext ==
    \/ GateBusy \/ NothingUsed
    \/ \E reply \in ModelReplies : ModelAnswers(reply)
    \/ FoldDuplicates \/ SaveDrafts
DraftsSpec == DraftsInit /\ [][DraftsNext]_draft_vars

-----------------------------------------------------------------------------
(* Properties *)

\* An edit distance is the least cost of an alignment: as many places of one
\* as of the other are paired in their order; what has no partner and each pair
\* that differs costs one.
Cost(s, t, A, B) ==
    LET here == InOrder(A)
        there == InOrder(B)
    IN  Len(s) + Len(t) - 2 * Cardinality(A) + Cardinality({i \in DOMAIN here : s[here[i]] # t[there[i]]})
Distance(s, t) ==
    Min(UNION {{Cost(s, t, A, B) : A \in kSubset(n, DOMAIN s), B \in kSubset(n, DOMAIN t)} :
                 n \in 0..Min({Len(s), Len(t)})})

\* The answer of a draft, and the chunks it cites, are of one item of the model
\* and within the batch the model was shown, also after later drafts took the
\* place of earlier ones (_parse_and_validate, _deduplicate).
DraftsCite == \A i \in DOMAIN drafts : \E s \in stated :
    LET refs == ValidRefs(s.item, s.batch) IN
    /\ s.item.answer = drafts[i].answer
    /\ drafts[i].chunk_ids # <<>> /\ ToSet(drafts[i].chunk_ids) \subseteq s.batch
    /\ \A k \in DOMAIN drafts[i].chunk_ids : drafts[i].chunk_ids[k] = Min(s.batch) + refs[k] - 1

\* No two drafts, and no draft and active row, ask the same; a question the
\* model was asked for is kept in one or the other (_deduplicate).
DraftsApart ==
    drafting.stage = "unique" =>
        LET questions == {drafts[i].question : i \in DOMAIN drafts} IN
        /\ \A i, j \in DOMAIN drafts : i # j => ~Similar(drafts[j].question, drafts[i].question)
        /\ \A i \in DOMAIN drafts, q \in drafting.active : ~Similar(drafts[i].question, q)
        /\ \A s \in stated : \E q \in questions \cup drafting.active :
              q = s.item.question \/ Similar(s.item.question, q)

\* Nothing sensitive, and no question that is plainly two, is answered with
\* before a person has looked (generate_from_document).
DraftsWait ==
    drafting.stage = "saved" =>
        \A i \in DOMAIN drafts :
            \/ drafts[i].status = "pending_review"
            \/ ~Sensitive(drafts[i]) /\ ~Strong(drafts[i].question)

\* The distance computed row by row is the edit distance, for the questions at
\* hand (_levenshtein).
DistanceRight ==
    drafting.stage = "unique" =>
        \A s \in stated, q \in drafting.active \cup {x.item.question : x \in stated} :
            LET p == Normal(s.item.question) IN Levenshtein(p, Normal(q)) = Distance(p, Normal(q))

\* What generation drafts from a document.
DraftsKept == DraftsCite /\ DraftsApart /\ DraftsWait /\ DistanceRight
=============================================================================
