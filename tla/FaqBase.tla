------------------------------- MODULE FaqBase -------------------------------
(***************************************************************************)
(* The FAQs of one knowledge base: their rows, the generation from         *)
(* documents, splits and their revocation, snapshots, and what people and  *)
(* writers of documents change.                                            *)
(*                                                                         *)
(* Code that waits for a model is two actions; a transaction is one, at    *)
(* its commit: a row that another one writes between its statements and    *)
(* its commit is a row written after it.  Redis only leads to rows, which  *)
(* are read again, and is left out.                                        *)
(* Every FAQ quotes one document, as _upsert_faq is only called with one.  *)
(***************************************************************************)
EXTENDS Naturals, FiniteSets

CONSTANTS
    Docs, Questions,
    Compound,  \* questions that ask for several things
    MaxRows,   \* rows that are ever made (a bound of the model)
    None,
    MaxLevel,  \* sensitivity levels are 0..MaxLevel, normal is 0
    MaxChanges \* requests that write (a bound of the model)

Level == 0..MaxLevel
\* Ids are never used again; the model numbers the rows as they are made.
Ids == 1..MaxRows

ASSUME FaqBaseAssumption ==
    /\ Compound \subseteq Questions /\ MaxRows \in Nat
    /\ None \notin Ids \cup Docs \cup Questions
    /\ MaxLevel \in Nat /\ MaxChanges \in Nat

VARIABLES
    doc,       \* rows of the documents
    row,       \* rows of the FAQs; an id that was deleted is Gone
    audited,   \* the status in the last audit record of a split of the row
    snap,      \* the snapshot
    draft,     \* the generation that holds the lock of the base
    split,     \* a split that waits for the model
    changes

vars == <<doc, row, audited, snap, draft, split, changes>>

-----------------------------------------------------------------------------
(* State *)

Status == {"active", "pending_review", "disabled"}
Reasons == {"none", "split_parent", "other"}

\* history: where the level of a row is from: the document it quotes, a person,
\* a snapshot, or a document that changed while the row was made.
Bases == {"source", "hand", "snapshot", "race"}

Faq == [question : Questions, source : Docs, level : Level, status : Status,
        reason : Reasons, parent : Ids \cup {None}, basis : Bases]
NoRow == [question |-> None]
Gone == [question |-> None, source |-> None]
DocState == [exists : BOOLEAN, level : Level]
RowStates == Faq \cup {NoRow, Gone}

Present(r) == r.question # None
Rows == {i \in Ids : Present(row[i])}
\* is_active agrees with the status in every writer modelled here.
Live(r) == r.status # "disabled"
RowsOf(d) == {i \in Rows : row[i].source = d}
Made == Cardinality({i \in Ids : row[i] # NoRow})

Drafts == [doc : Docs, question : Questions \cup {None}, status : Status, level : Level, crossed : BOOLEAN]
Splits == [id : Ids, read : Faq, crossed : BOOLEAN]
Nothing == [none |-> TRUE]
Snapshots == [doc : [Docs -> DocState], row : [Ids -> RowStates]]

TypeOK ==
    /\ doc \in [Docs -> DocState]
    /\ row \in [Ids -> RowStates]
    /\ audited \in [Ids -> Status \cup {None}]
    /\ snap \in Snapshots \cup {Nothing}
    /\ draft \in Drafts \cup {Nothing}
    /\ split \in Splits \cup {Nothing}
    /\ changes \in 0..MaxChanges

Init ==
    /\ doc = [d \in Docs |-> [exists |-> TRUE, level |-> 0]]
    /\ row = [i \in Ids |-> NoRow]
    /\ audited = [i \in Ids |-> None]
    /\ snap = Nothing
    /\ draft = Nothing /\ split = Nothing
    /\ changes = 0

work == <<draft, split>>
Count == changes < MaxChanges /\ changes' = changes + 1

-----------------------------------------------------------------------------
(* Generation *)

\* generate_from_document, which found its document ready.
BeginDraft(d) ==
    /\ draft = Nothing /\ doc[d].exists
    /\ draft' = [doc |-> d, question |-> None, status |-> "active", level |-> 0, crossed |-> FALSE]
    /\ UNCHANGED <<doc, row, audited, snap, split, changes>>

\* A question that no live row asks; what is sensitive or asks for much waits
\* for a review.  _upsert_faq reads the level of the document, and takes the one
\* of the base if it is gone; then it waits for the embedding.
ReadLevel(q, status) ==
    /\ draft # Nothing /\ draft.question = None
    /\ ~\E i \in Rows : Live(row[i]) /\ row[i].question = q
    /\ \E level \in IF doc[draft.doc].exists THEN {doc[draft.doc].level} ELSE Level :
          draft' = [draft EXCEPT !.question = q, !.status = status, !.level = level,
                                 !.crossed = ~doc[draft.doc].exists]
    /\ UNCHANGED <<doc, row, audited, snap, split, changes>>

\* INSERT ... ON CONFLICT (kb_id, normalized_question) DO UPDATE.
Written(i, old) ==
    row' = [row EXCEPT ![i] =
        [question |-> draft.question, source |-> draft.doc, level |-> draft.level,
         status |-> draft.status, reason |-> "none", parent |-> old,
         basis |-> IF draft.crossed THEN "race" ELSE "source"]]

Upsert ==
    /\ draft # Nothing /\ draft.question # None
    /\ \/ \E i \in Rows : row[i].question = draft.question /\ Written(i, row[i].parent)
       \/ /\ ~\E i \in Rows : row[i].question = draft.question
          /\ Made < MaxRows /\ Written(Made + 1, None)
    /\ draft' = Nothing
    /\ UNCHANGED <<doc, audited, snap, split, changes>>

\* The model fails, the process stops, or nothing new was found.
AbandonDraft ==
    /\ draft # Nothing /\ draft' = Nothing
    /\ UNCHANGED <<doc, row, audited, snap, split, changes>>

-----------------------------------------------------------------------------
(* Writers of documents.  They cross the work that uses what they change. *)

CrossDraft(docs) ==
    draft' = IF draft # Nothing /\ draft.question # None /\ draft.doc \in docs
             THEN [draft EXCEPT !.crossed = TRUE] ELSE draft
CrossSplit(docs) ==
    split' = IF split # Nothing /\ split.read.source \in docs
             THEN [split EXCEPT !.crossed = TRUE] ELSE split
Cross(docs) == CrossDraft(docs) /\ CrossSplit(docs)

\* Mutant: only rows that are answered follow their document.
SetLevelOfLive(d, level) ==
    /\ Count /\ doc[d].exists
    /\ doc' = [doc EXCEPT ![d].level = level]
    /\ row' = [i \in Ids |-> IF i \in RowsOf(d) /\ Live(row[i])
                             THEN [row[i] EXCEPT !.level = level, !.basis = "source"] ELSE row[i]]
    /\ Cross({d})
    /\ UNCHANGED <<audited, snap>>

\* update_document_sensitivity: the document, and the FAQs that quote it.
SetLevel(d, level) ==
    /\ Count /\ doc[d].exists
    /\ doc' = [doc EXCEPT ![d].level = level]
    /\ row' = [i \in Ids |-> IF i \in RowsOf(d)
                             THEN [row[i] EXCEPT !.level = level, !.basis = "source"] ELSE row[i]]
    /\ Cross({d})
    /\ UNCHANGED <<audited, snap>>

\* sync_kb_sensitivity to the level of the base: all rows of both tables, or
\* those that are normal.
SyncLevels(target, force) ==
    LET Synced(level) == IF force \/ level = 0 THEN target ELSE level
    IN  /\ Count
        /\ doc' = [d \in Docs |-> [doc[d] EXCEPT !.level = Synced(@)]]
        /\ row' = [i \in Ids |-> IF i \in Rows
                                 THEN [row[i] EXCEPT !.level = Synced(@)] ELSE row[i]]
        /\ Cross(Docs)
        /\ UNCHANGED <<audited, snap>>

\* delete_document and prune_by_document.
DeleteDocument(d) ==
    /\ Count /\ doc[d].exists
    /\ doc' = [doc EXCEPT ![d].exists = FALSE]
    /\ row' = [i \in Ids |-> IF i \in RowsOf(d) THEN Gone ELSE row[i]]
    /\ Cross({d})
    /\ UNCHANGED <<audited, snap>>

-----------------------------------------------------------------------------
(* Splits *)

\* Mutant: a disabled row can be split as well.
BeginSplitOfAny(i) ==
    /\ split = Nothing /\ i \in Rows
    /\ row[i].parent = None /\ row[i].question \in Compound
    /\ split' = [id |-> i, read |-> row[i], crossed |-> FALSE]
    /\ UNCHANGED <<doc, row, audited, snap, draft, changes>>

\* The checks of the request; afterwards the loaded row is not read again.
BeginSplit(i) ==
    /\ split = Nothing /\ i \in Rows
    /\ row[i].status # "disabled" /\ row[i].parent = None /\ row[i].question \in Compound
    /\ split' = [id |-> i, read |-> row[i], crossed |-> FALSE]
    /\ UNCHANGED <<doc, row, audited, snap, draft, changes>>

\* split_compound_faq: two new questions; the parent is retired.  If the parent
\* is gone its update finds no row, and everything is rolled back.
CommitSplit(q1, q2) ==
    /\ split # Nothing /\ split.id \in Rows
    /\ q1 # q2 /\ Made + 2 <= MaxRows
    /\ \A i \in Rows : row[i].question \notin {q1, q2}
    /\ \E status \in [{q1, q2} -> {"active", "pending_review"}] :
          LET Child(q) == [question |-> q, source |-> split.read.source,
                           level |-> split.read.level, status |-> status[q],
                           reason |-> "none", parent |-> split.id,
                           basis |-> IF split.crossed THEN "race" ELSE split.read.basis]
          IN  row' = [row EXCEPT ![Made + 1] = Child(q1), ![Made + 2] = Child(q2),
                         ![split.id] = [@ EXCEPT !.status = "disabled",
                                                 !.reason = "split_parent"]]
    /\ audited' = [audited EXCEPT ![split.id] = split.read.status]
    /\ split' = Nothing
    /\ UNCHANGED <<doc, snap, draft, changes>>

\* Fewer than two usable questions, or an error.
AbandonSplit ==
    /\ split # Nothing /\ split' = Nothing
    /\ UNCHANGED <<doc, row, audited, snap, draft, changes>>

\* revoke_split_faq: the parent as it was, the chosen children disabled.
RevokeSplit(i, children) ==
    /\ Count /\ i \in Rows
    /\ row[i].status = "disabled" /\ row[i].reason = "split_parent"
    /\ \A c \in children : c \in Rows /\ row[c].parent = i
    /\ LET restored == IF audited[i] = None THEN "active" ELSE audited[i]
       IN  row' = [j \in Ids |->
              IF j = i THEN [row[i] EXCEPT !.status = restored, !.reason = "none"]
              ELSE IF j \in children
              THEN [row[j] EXCEPT !.status = "disabled", !.reason = "other"]
              ELSE row[j]]
    /\ UNCHANGED <<doc, audited, snap, work>>

-----------------------------------------------------------------------------
(* People *)

Amend(i, r) ==
    /\ Count /\ row' = [row EXCEPT ![i] = r]
    /\ UNCHANGED <<doc, audited, snap, work>>

\* batch_faq and record_reject, at its threshold.
Enable(i) == Amend(i, [row[i] EXCEPT !.status = "active"])
Disable(i) == Amend(i, [row[i] EXCEPT !.status = "disabled"])
Retire(i) == Amend(i, [row[i] EXCEPT !.status = "disabled", !.reason = "other"])
Override(i, level) == Amend(i, [row[i] EXCEPT !.level = level, !.basis = "hand"])
DeleteRow(i) == Amend(i, Gone)

\* update_faq: a new question, which no other row has.
EditQuestion(i, q) ==
    /\ Count /\ ~\E j \in Rows : row[j].question = q
    /\ row' = [row EXCEPT ![i] = [@ EXCEPT !.question = q]]
    /\ UNCHANGED <<doc, audited, snap, work>>

\* mark_stale_by_version
MarkStale ==
    /\ Count
    /\ row' = [i \in Ids |-> IF i \in Rows /\ Live(row[i])
                 THEN [row[i] EXCEPT !.status = "disabled", !.reason = "other"]
                 ELSE row[i]]
    /\ UNCHANGED <<doc, audited, snap, work>>

Administer(i) ==
    \/ Enable(i) \/ Disable(i) \/ Retire(i) \/ DeleteRow(i)
    \/ \E level \in Level : Override(i, level)
    \/ \E q \in Questions : EditQuestion(i, q)

-----------------------------------------------------------------------------
(* Snapshots *)

TakeSnapshot ==
    /\ Count
    /\ snap' = [doc |-> doc, row |-> row]
    /\ UNCHANGED <<doc, row, audited, work>>

\* A document that still exists keeps its level; one that is made again gets the
\* default of the column, normal.  The chosen rows of the snapshot come back as
\* they were, with their ids, which no row that stays may have.
Restore(docs, Chosen(_), Replaced(_)) ==
    LET back == {i \in Ids : Present(snap.row[i]) /\ Chosen(snap.row[i])}
        lost == {i \in Rows : Replaced(row[i])}
    IN  /\ Count
        /\ back \cap Rows \subseteq lost
        /\ doc' = [d \in Docs |-> IF d \in docs /\ ~doc[d].exists
                                  THEN [exists |-> TRUE, level |-> 0] ELSE doc[d]]
        /\ row' = [i \in Ids |->
              IF i \in back
              THEN [snap.row[i] EXCEPT !.basis = IF @ = "source" THEN "snapshot" ELSE @]
              ELSE IF i \in lost THEN Gone ELSE row[i]]
        /\ Cross(Docs)
        /\ UNCHANGED <<audited, snap>>

SnapshotDocs == {d \in Docs : snap.doc[d].exists}
SnapshotQuestions(docs) ==
    {snap.row[i].question : i \in {j \in Ids : Present(snap.row[j]) /\ snap.row[j].source \in docs}}

RollbackAll ==
    /\ snap # Nothing
    /\ LET All(r) == TRUE IN Restore(SnapshotDocs, All, All)

RollbackSome(docs) ==
    /\ snap # Nothing /\ docs \subseteq SnapshotDocs
    /\ LET OfDocs(r) == r.source \in docs
           Replaced(r) == OfDocs(r) \/ r.question \in SnapshotQuestions(docs)
       IN  Restore(docs, OfDocs, Replaced)

-----------------------------------------------------------------------------
Next ==
    \/ \E d \in Docs : BeginDraft(d) \/ DeleteDocument(d) \/ \E level \in Level : SetLevel(d, level)
    \/ \E q \in Questions, status \in {"active", "pending_review"} : ReadLevel(q, status)
    \/ Upsert \/ AbandonDraft
    \/ \E target \in Level, force \in BOOLEAN : SyncLevels(target, force)
    \/ \E i \in Ids : BeginSplit(i)
    \/ \E q1, q2 \in Questions : CommitSplit(q1, q2)
    \/ AbandonSplit
    \/ \E i \in Ids, children \in SUBSET Ids : RevokeSplit(i, children)
    \/ \E i \in Rows : Administer(i)
    \/ MarkStale
    \/ TakeSnapshot \/ RollbackAll \/ \E docs \in SUBSET Docs : RollbackSome(docs)

Spec == Init /\ [][Next]_vars

-----------------------------------------------------------------------------
(* Properties *)

\* The row refers to a document that is there, and only who may read it gets it.
Covered(r) == doc[r.source].exists /\ r.level >= doc[r.source].level

\* "The linked FAQs take the highest level of their documents" (KB_FAQ.md): who
\* may not read a document gets no FAQ that quotes it, and no FAQ outlives it.
\* Excepted are rows whose level a person chose, and those made while the
\* document changed under them.
SourceCovered == \A i \in Rows : row[i].basis = "source" => Covered(row[i])
RowsSound == TypeOK /\ SourceCovered

\* A split can be taken back: a retired parent that is restored answers, or waits
\* for its review as it did before.
RevokeRevives ==
    [][\A i \in Ids, children \in SUBSET Ids : RevokeSplit(i, children) =>
            Live(row'[i])]_vars
=============================================================================
