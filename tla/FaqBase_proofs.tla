----------------------------- MODULE FaqBase_proofs -----------------------------
(***************************************************************************)
(* Proofs about the FAQs of a base, for any documents, questions, levels,  *)
(* rows and requests.                                                      *)
(*                                                                         *)
(* Who may not read a document gets no FAQ that quotes it (SourceCovered)  *)
(* because a row whose level is from its document has exactly that level   *)
(* (LevelFollows): a level at least as high would not do, as the levels of *)
(* a base are synchronized by raising those that are normal, which could   *)
(* take a document past its FAQs.  Between their two steps a generation    *)
(* and a split that no writer of documents has crossed know the level of   *)
(* the document as it is (DraftKnows, SplitKnows).                         *)
(***************************************************************************)
EXTENDS FaqBase, FiniteSetTheorems, TLAPS

Follows(r) == doc[r.source].exists /\ r.level = doc[r.source].level
LevelFollows == \A i \in Rows : row[i].basis = "source" => Follows(row[i])
DraftKnows == draft # Nothing /\ draft.question # None /\ ~draft.crossed =>
    doc[draft.doc].exists /\ draft.level = doc[draft.doc].level
SplitKnows == split # Nothing /\ ~split.crossed /\ split.read.basis = "source" => Follows(split.read)

\* What a revocation goes back to was not disabled.
AuditsLive == /\ \A i \in Ids : audited[i] = None \/ audited[i] # "disabled"
              /\ split # Nothing => split.read.status # "disabled"

FaqInv == TypeOK /\ LevelFollows /\ DraftKnows /\ SplitKnows /\ AuditsLive

-----------------------------------------------------------------------------
(* The rows *)

LEMMA RowForms ==
    /\ \A r \in RowStates : Present(r) => r \in Faq
    /\ \A r \in Faq : Present(r) /\ r # Gone
    /\ ~Present(NoRow) /\ ~Present(Gone) /\ NoRow \in RowStates /\ Gone \in RowStates
    /\ 0 \in Level
  BY FaqBaseAssumption DEF RowStates, Faq, Present, NoRow, Gone, Level

LEMMA RowsTyped ==
    ASSUME TypeOK
    PROVE  /\ \A i \in Rows : i \in Ids /\ row[i] \in Faq
           /\ \A i \in Ids : Present(row[i]) <=> i \in Rows
           /\ Made \in Nat
<1>1. Made \in Nat
  <2>1. IsFiniteSet(Ids)
    BY FaqBaseAssumption, FS_Interval DEF Ids
  <2> QED BY <2>1, FS_Subset, FS_CardinalityType DEF Made
<1> QED BY <1>1, RowForms DEF TypeOK, Rows

LEMMA WorkForms ==
    ASSUME TypeOK
    PROVE  /\ draft # Nothing => draft \in Drafts
           /\ split # Nothing => split \in Splits
           /\ \A d \in Drafts : d # Nothing
           /\ \A x \in Splits : x # Nothing
  BY DEF TypeOK, Drafts, Splits, Nothing

LEMMA FaqStarts == Init => FaqInv
<1> SUFFICES ASSUME Init PROVE FaqInv
  OBVIOUS
<1>1. TypeOK
  BY RowForms, FaqBaseAssumption DEF Init, TypeOK, DocState
<1>2. Rows = {}
  BY RowForms DEF Init, Rows
<1> QED BY <1>1, <1>2 DEF Init, FaqInv, LevelFollows, DraftKnows, SplitKnows, AuditsLive

\* A step that leaves the documents alone, and whose rows are the old ones, are
\* not from a document, or have its level.
LEMMA RowsChange ==
    ASSUME FaqInv, row' \in [Ids -> RowStates], UNCHANGED <<doc, snap>>,
           \A i \in Ids : Present(row'[i]) =>
               \/ row'[i].basis # "source"
               \/ Follows(row'[i])
               \/ i \in Rows /\ row'[i].basis = row[i].basis /\ row'[i].level = row[i].level
                             /\ row'[i].source = row[i].source
    PROVE  LevelFollows'
<1> SUFFICES ASSUME NEW i \in Ids, Present(row'[i]), row'[i].basis = "source"
             PROVE  doc[row'[i].source].exists /\ row'[i].level = doc[row'[i].source].level
  BY DEF LevelFollows, Rows, Follows
<1> QED BY DEF FaqInv, LevelFollows, Follows

-----------------------------------------------------------------------------
(* Generation *)

LEMMA DraftGoes ==
    ASSUME FaqInv,
           \/ \E d \in Docs : BeginDraft(d)
           \/ \E q \in Questions, status \in {"active", "pending_review"} : ReadLevel(q, status)
           \/ AbandonDraft
    PROVE  FaqInv'
<1>1. UNCHANGED <<doc, row, audited, snap, split, changes>> /\ TypeOK
  BY DEF BeginDraft, ReadLevel, AbandonDraft, FaqInv
<1>2. LevelFollows' /\ SplitKnows' /\ AuditsLive'
  BY <1>1 DEF FaqInv, LevelFollows, SplitKnows, AuditsLive, Follows, Rows
<1>3. draft' \in Drafts \cup {Nothing} /\ DraftKnows'
  <2>1. ASSUME NEW d \in Docs, BeginDraft(d) PROVE draft' \in Drafts \cup {Nothing} /\ DraftKnows'
    BY <2>1, RowForms DEF BeginDraft, Drafts, DraftKnows, Status
  <2>2. CASE AbandonDraft
    BY <2>2 DEF AbandonDraft, DraftKnows
  <2>3. ASSUME NEW q \in Questions, NEW status \in {"active", "pending_review"}, ReadLevel(q, status)
        PROVE  draft' \in Drafts \cup {Nothing} /\ DraftKnows'
    <3>1. draft \in Drafts /\ doc[draft.doc] \in DocState
      BY <1>1, <2>3, WorkForms DEF ReadLevel, TypeOK, Drafts
    <3>2. PICK level \in IF doc[draft.doc].exists THEN {doc[draft.doc].level} ELSE Level :
            draft' = [draft EXCEPT !.question = q, !.status = status, !.level = level,
                                   !.crossed = ~doc[draft.doc].exists]
      BY <2>3 DEF ReadLevel
    <3>3. level \in Level /\ doc[draft.doc].exists \in BOOLEAN
      BY <3>1 DEF DocState
    <3>4. draft' \in Drafts
      BY <3>1, <3>2, <3>3 DEF Drafts, Status
    <3>5. draft'.doc = draft.doc /\ draft'.level = level /\ draft'.crossed = ~doc[draft.doc].exists
      BY <3>1, <3>2 DEF Drafts
    <3>6. ~draft'.crossed => doc'[draft'.doc].exists /\ draft'.level = doc'[draft'.doc].level
      BY <1>1, <3>2, <3>5
    <3> QED BY <3>4, <3>6 DEF DraftKnows
  <2> QED BY <2>1, <2>2, <2>3
<1> QED BY <1>1, <1>2, <1>3 DEF FaqInv, TypeOK

\* What a generation writes has the level it read, which is that of the document
\* unless a writer crossed it.
LEMMA DraftWritten ==
    ASSUME FaqInv, Upsert PROVE FaqInv'
<1>1. /\ TypeOK /\ draft # Nothing /\ draft \in Drafts /\ draft.question # None /\ draft' = Nothing
      /\ UNCHANGED <<doc, audited, snap, split, changes>>
  BY WorkForms DEF Upsert, FaqInv
<1> DEFINE new(old) == [question |-> draft.question, source |-> draft.doc, level |-> draft.level,
                        status |-> draft.status, reason |-> "none", parent |-> old,
                        basis |-> IF draft.crossed THEN "race" ELSE "source"]
<1>2. PICK i \in Ids, old \in Ids \cup {None} : row' = [row EXCEPT ![i] = new(old)]
  <2>1. CASE \E i \in Rows : row[i].question = draft.question /\ Written(i, row[i].parent)
    <3>1. PICK i \in Rows : Written(i, row[i].parent)
      BY <2>1
    <3>2. i \in Ids /\ row[i].parent \in Ids \cup {None}
      BY <1>1, RowsTyped DEF Faq
    <3> QED BY <3>1, <3>2 DEF Written
  <2>2. CASE Made < MaxRows /\ Written(Made + 1, None)
    <3>1. Made + 1 \in Ids
      BY <1>1, <2>2, RowsTyped, FaqBaseAssumption DEF Ids
    <3> QED BY <2>2, <3>1 DEF Written
  <2> QED BY <2>1, <2>2 DEF Upsert
<1>3. new(old) \in Faq
  BY <1>1 DEF Drafts, Faq, Reasons, Bases
<1>4. new(old).basis = "source" => Follows(new(old))
  BY <1>1 DEF FaqInv, DraftKnows, Follows
<1> HIDE DEF new
<1>5. row' \in [Ids -> RowStates]
  BY <1>1, <1>2, <1>3 DEF TypeOK, RowStates
<1>6. \A j \in Ids : row'[j] = row[j] \/ row'[j] = new(old)
  BY <1>1, <1>2 DEF TypeOK
<1>7. LevelFollows'
  BY <1>1, <1>4, <1>5, <1>6, RowsChange, RowsTyped
<1>8. DraftKnows' /\ SplitKnows' /\ AuditsLive'
  BY <1>1 DEF FaqInv, SplitKnows, DraftKnows, AuditsLive, Follows
<1> QED BY <1>1, <1>5, <1>7, <1>8 DEF FaqInv, TypeOK

-----------------------------------------------------------------------------
(* Writers of documents *)

\* They cross what uses their documents.
LEMMA Crossed ==
    ASSUME FaqInv, NEW docs \in SUBSET Docs, Cross(docs),
           \A d \in Docs \ docs : doc'[d] = doc[d]
    PROVE  /\ draft' \in Drafts \cup {Nothing} /\ split' \in Splits \cup {Nothing}
           /\ DraftKnows' /\ SplitKnows'
           /\ split' # Nothing => split' \in Splits /\ split # Nothing /\ split'.read = split.read
<1>1. TypeOK
  BY DEF FaqInv
<1>2. /\ draft' \in Drafts \cup {Nothing} /\ DraftKnows'
  <2>1. CASE draft' = draft /\ ~(draft # Nothing /\ draft.question # None /\ draft.doc \in docs)
    BY <1>1, <2>1, WorkForms DEF FaqInv, DraftKnows, TypeOK, Drafts
  <2>2. CASE draft' = [draft EXCEPT !.crossed = TRUE] /\ draft # Nothing
    BY <1>1, <2>2, WorkForms DEF Drafts, DraftKnows
  <2> QED BY <2>1, <2>2 DEF Cross, CrossDraft
<1>3. /\ split' \in Splits \cup {Nothing} /\ SplitKnows'
      /\ split' # Nothing => split' \in Splits /\ split # Nothing /\ split'.read = split.read
  <2>1. CASE split' = split /\ ~(split # Nothing /\ split.read.source \in docs)
    BY <1>1, <2>1, WorkForms DEF FaqInv, SplitKnows, TypeOK, Splits, Faq, Follows
  <2>2. CASE split' = [split EXCEPT !.crossed = TRUE] /\ split # Nothing
    BY <1>1, <2>2, WorkForms DEF Splits, SplitKnows
  <2> QED BY <2>1, <2>2 DEF Cross, CrossSplit
<1> QED BY <1>2, <1>3

\* What the writers keep besides the levels.
LEMMA WriterKeeps ==
    ASSUME FaqInv, NEW docs \in SUBSET Docs, Cross(docs),
           \A d \in Docs \ docs : doc'[d] = doc[d],
           doc' \in [Docs -> DocState], row' \in [Ids -> RowStates], changes' \in 0..MaxChanges,
           UNCHANGED <<audited, snap>>, LevelFollows'
    PROVE  FaqInv'
<1>1. /\ draft' \in Drafts \cup {Nothing} /\ split' \in Splits \cup {Nothing}
      /\ DraftKnows' /\ SplitKnows'
      /\ split' # Nothing => split' \in Splits /\ split # Nothing /\ split'.read = split.read
  BY Crossed
<1>2. AuditsLive'
  BY <1>1 DEF FaqInv, AuditsLive
<1> QED BY <1>1, <1>2 DEF FaqInv, TypeOK

LEMMA CountTyped == ASSUME TypeOK, Count PROVE changes' \in 0..MaxChanges
  BY FaqBaseAssumption DEF TypeOK, Count

LEMMA LevelSet ==
    ASSUME FaqInv, NEW d \in Docs, NEW level \in Level, SetLevel(d, level) PROVE FaqInv'
<1>1. /\ TypeOK /\ doc[d] \in DocState /\ doc[d].exists /\ Count /\ Cross({d}) /\ UNCHANGED <<audited, snap>>
      /\ doc' = [doc EXCEPT ![d].level = level]
      /\ row' = [i \in Ids |-> IF i \in RowsOf(d)
                               THEN [row[i] EXCEPT !.level = level, !.basis = "source"] ELSE row[i]]
  BY DEF FaqInv, TypeOK, SetLevel
<1>2. /\ doc' \in [Docs -> DocState] /\ (\A e \in Docs \ {d} : doc'[e] = doc[e])
      /\ doc'[d].exists /\ doc'[d].level = level
  BY <1>1 DEF TypeOK, DocState
<1>3. \A i \in Ids : i \in RowsOf(d) => /\ row'[i] \in Faq /\ row'[i].source = d
                                         /\ row'[i].level = level /\ i \in Rows
  BY <1>1, RowsTyped DEF RowsOf, Faq, Bases
<1>4. \A i \in Ids : i \notin RowsOf(d) => row'[i] = row[i]
  BY <1>1
<1>5. row' \in [Ids -> RowStates]
  BY <1>1, <1>3, <1>4 DEF TypeOK, RowStates
<1>6. ASSUME NEW i \in Rows', row'[i].basis = "source"
      PROVE  doc'[row'[i].source].exists /\ row'[i].level = doc'[row'[i].source].level
  <2>1. i \in Ids
    BY DEF Rows
  <2>2. CASE i \in RowsOf(d)
    BY <1>2, <1>3, <2>1, <2>2
  <2>3. CASE i \notin RowsOf(d)
    <3>1. row'[i] = row[i] /\ i \in Rows /\ row[i].source # d /\ row[i].source \in Docs
      BY <1>1, <1>4, <2>1, <2>3, RowsTyped DEF Rows, RowsOf, Faq
    <3> QED BY <1>2, <1>6, <3>1 DEF FaqInv, LevelFollows, Follows
  <2> QED BY <2>2, <2>3
<1>7. LevelFollows'
  BY <1>6 DEF LevelFollows, Follows
<1> QED BY <1>1, <1>2, <1>5, <1>7, CountTyped, WriterKeeps

LEMMA LevelsSynced ==
    ASSUME FaqInv, NEW target \in Level, NEW force \in BOOLEAN, SyncLevels(target, force) PROVE FaqInv'
<1> DEFINE Synced(level) == IF force \/ level = 0 THEN target ELSE level
<1>1. /\ TypeOK /\ Count /\ Cross(Docs) /\ UNCHANGED <<audited, snap>>
      /\ doc' = [d \in Docs |-> [doc[d] EXCEPT !.level = Synced(doc[d].level)]]
      /\ row' = [i \in Ids |-> IF i \in Rows THEN [row[i] EXCEPT !.level = Synced(row[i].level)] ELSE row[i]]
  BY DEF FaqInv, SyncLevels
<1>2. \A level \in Level : Synced(level) \in Level
  OBVIOUS
<1>3. \A d \in Docs : doc'[d] \in DocState /\ doc'[d].exists = doc[d].exists /\ doc'[d].level = Synced(doc[d].level)
  BY <1>1, <1>2 DEF TypeOK, DocState
<1>4. \A i \in Rows : /\ row'[i] \in Faq /\ row'[i].source = row[i].source /\ row'[i].basis = row[i].basis
                      /\ row'[i].level = Synced(row[i].level) /\ row[i].source \in Docs
  BY <1>1, <1>2, RowsTyped DEF Faq
<1> HIDE DEF Synced
<1>5. doc' \in [Docs -> DocState] /\ row' \in [Ids -> RowStates]
  BY <1>1, <1>3, <1>4 DEF TypeOK, RowStates
<1>6. Rows' \subseteq Rows
  BY <1>1, RowsTyped DEF Rows
<1>7. LevelFollows'
  BY <1>3, <1>4, <1>6 DEF FaqInv, LevelFollows, Follows
<1> QED BY <1>1, <1>5, <1>7, CountTyped, WriterKeeps

LEMMA DocumentGoes ==
    ASSUME FaqInv, NEW d \in Docs, DeleteDocument(d) PROVE FaqInv'
<1>1. /\ TypeOK /\ Count /\ Cross({d}) /\ UNCHANGED <<audited, snap>> /\ doc[d] \in DocState
      /\ doc' = [doc EXCEPT ![d].exists = FALSE]
      /\ row' = [i \in Ids |-> IF i \in RowsOf(d) THEN Gone ELSE row[i]]
  BY DEF FaqInv, DeleteDocument, TypeOK
<1>2. doc' \in [Docs -> DocState] /\ (\A e \in Docs \ {d} : doc'[e] = doc[e])
  BY <1>1 DEF TypeOK, DocState
<1>3. row' \in [Ids -> RowStates]
  BY <1>1, RowForms DEF TypeOK
<1>4. \A i \in Rows' : i \in Rows /\ row'[i] = row[i] /\ row[i].source # d /\ row[i].source \in Docs
  BY <1>1, RowForms, RowsTyped DEF Rows, RowsOf, Faq
<1>5. LevelFollows'
  BY <1>2, <1>4 DEF FaqInv, LevelFollows, Follows
<1> QED BY <1>1, <1>2, <1>3, <1>5, CountTyped, WriterKeeps

-----------------------------------------------------------------------------
(* Splits and people *)

\* Requests that change rows alone.
LEMMA RowsOnly ==
    ASSUME FaqInv, UNCHANGED <<doc, audited, snap, draft, split>>, changes' \in 0..MaxChanges,
           row' \in [Ids -> RowStates],
           \A i \in Ids : Present(row'[i]) =>
               \/ row'[i].basis # "source"
               \/ i \in Rows /\ row'[i].basis = row[i].basis /\ row'[i].level = row[i].level
                             /\ row'[i].source = row[i].source
    PROVE  FaqInv'
<1>1. LevelFollows'
  BY RowsChange
<1>2. DraftKnows' /\ SplitKnows' /\ AuditsLive'
  BY DEF FaqInv, DraftKnows, SplitKnows, AuditsLive, Follows
<1> QED BY <1>1, <1>2 DEF FaqInv, TypeOK

LEMMA SplitGoes ==
    ASSUME FaqInv, (\E i \in Ids : BeginSplit(i)) \/ AbandonSplit PROVE FaqInv'
<1>1. UNCHANGED <<doc, row, audited, snap, draft, changes>> /\ TypeOK
  BY DEF BeginSplit, AbandonSplit, FaqInv
<1>2. /\ split' \in Splits \cup {Nothing} /\ SplitKnows'
      /\ split' # Nothing => split'.read.status # "disabled"
  <2>1. CASE AbandonSplit
    BY <2>1 DEF AbandonSplit, SplitKnows
  <2>2. ASSUME NEW i \in Ids, BeginSplit(i)
        PROVE  /\ split' \in Splits \cup {Nothing} /\ SplitKnows'
               /\ split' # Nothing => split'.read.status # "disabled"
    <3>1. /\ i \in Rows /\ row[i] \in Faq /\ split' = [id |-> i, read |-> row[i], crossed |-> FALSE]
          /\ row[i].status # "disabled"
      BY <1>1, <2>2, RowsTyped DEF BeginSplit
    <3>2. row[i].basis = "source" => Follows(row[i])
      BY <3>1 DEF FaqInv, LevelFollows
    <3> QED BY <1>1, <3>1, <3>2 DEF Splits, SplitKnows, Follows
  <2> QED BY <2>1, <2>2
<1>3. LevelFollows' /\ DraftKnows' /\ AuditsLive'
  BY <1>1, <1>2 DEF FaqInv, LevelFollows, DraftKnows, AuditsLive, Follows, Rows
<1> QED BY <1>1, <1>2, <1>3 DEF FaqInv, TypeOK

\* The questions of a split have the level the split has read.
LEMMA SplitCommits ==
    ASSUME FaqInv, NEW q1 \in Questions, NEW q2 \in Questions, CommitSplit(q1, q2) PROVE FaqInv'
<1> DEFINE id == split.id
           Child(q, status) == [question |-> q, source |-> split.read.source, level |-> split.read.level,
                                status |-> status, reason |-> "none", parent |-> id,
                                basis |-> IF split.crossed THEN "race" ELSE split.read.basis]
           Retired(r) == [[r EXCEPT !.status = "disabled"] EXCEPT !.reason = "split_parent"]
<1>1. /\ TypeOK /\ split # Nothing /\ split \in Splits /\ id \in Rows /\ id \in Ids /\ row[id] \in Faq
      /\ audited' = [audited EXCEPT ![id] = split.read.status] /\ split' = Nothing
      /\ UNCHANGED <<doc, snap, draft, changes>>
  BY WorkForms, RowsTyped DEF CommitSplit, FaqInv
<1>2. PICK c1, c2 : /\ \E s \in {"active", "pending_review"} : c1 = Child(q1, s)
                    /\ \E s \in {"active", "pending_review"} : c2 = Child(q2, s)
                    /\ row' = [row EXCEPT ![Made + 1] = c1, ![Made + 2] = c2,
                                          ![id] = [@ EXCEPT !.status = "disabled", !.reason = "split_parent"]]
  <2>1. PICK status \in [{q1, q2} -> {"active", "pending_review"}] :
          row' = [row EXCEPT ![Made + 1] = Child(q1, status[q1]), ![Made + 2] = Child(q2, status[q2]),
                             ![id] = [@ EXCEPT !.status = "disabled", !.reason = "split_parent"]]
    BY DEF CommitSplit
  <2>2. status[q1] \in {"active", "pending_review"} /\ status[q2] \in {"active", "pending_review"}
    OBVIOUS
  <2> HIDE DEF Child
  <2> QED BY <2>1, <2>2
<1>3. \A j \in Ids : \/ row'[j] = row[j] /\ j # id
                     \/ row'[j] \in {c1, c2, Retired(row[id]), Retired(c1), Retired(c2)}
  <2>1. DOMAIN row = Ids
    BY <1>1 DEF TypeOK
  <2> QED BY <1>1, <1>2, <2>1
\* All of them are rows that follow their document if what the split read does.
<1>4. \A r \in {c1, c2, row[id]} : r \in Faq /\ (r.basis = "source" => Follows(r))
  <2>1. \A q \in Questions, s \in {"active", "pending_review"} :
          Child(q, s) \in Faq /\ (Child(q, s).basis = "source" => Follows(Child(q, s)))
    <3>1. split.read \in Faq /\ id \in Ids /\ split.crossed \in BOOLEAN
      BY <1>1 DEF Splits
    <3>2. \A q \in Questions, s \in {"active", "pending_review"} : Child(q, s) \in Faq
      BY <3>1 DEF Faq, Status, Reasons, Bases
    <3>3. ~split.crossed /\ split.read.basis = "source" => Follows(split.read)
      BY <1>1 DEF FaqInv, SplitKnows
    <3> QED BY <3>2, <3>3 DEF Follows
  <2>2. row[id].basis = "source" => Follows(row[id])
    BY <1>1 DEF FaqInv, LevelFollows
  <2> HIDE DEF Child
  <2> QED BY <1>1, <1>2, <2>1, <2>2
<1>5. \A r \in Faq : /\ Retired(r) \in Faq /\ Retired(r).basis = r.basis /\ Retired(r).source = r.source
                     /\ Retired(r).level = r.level
  BY DEF Faq, Status, Reasons
<1> HIDE DEF Retired
<1>6. \A j \in Ids : \/ row'[j] = row[j]
                     \/ row'[j] \in Faq /\ (row'[j].basis = "source" => Follows(row'[j]))
  BY <1>3, <1>4, <1>5 DEF Follows
<1>7. row' \in [Ids -> RowStates]
  <2>1. row' = [j \in Ids |-> row'[j]]
    BY <1>1, <1>2 DEF TypeOK
  <2>2. \A j \in Ids : row'[j] \in RowStates
    BY <1>1, <1>6 DEF TypeOK, RowStates
  <2> QED BY <2>1, <2>2
<1>8. LevelFollows'
  <2>1. \A j \in Ids : row'[j] = row[j] /\ Present(row'[j]) => j \in Rows
    BY DEF Rows
  <2> QED BY <1>1, <1>6, <1>7, <2>1, RowsChange
<1>9. DraftKnows' /\ SplitKnows' /\ AuditsLive' /\ audited' \in [Ids -> Status \cup {None}]
  <2>1. split.read.status \in Status /\ split.read.status # "disabled"
    BY <1>1 DEF FaqInv, AuditsLive, Splits, Faq
  <2> QED BY <1>1, <2>1 DEF FaqInv, DraftKnows, SplitKnows, AuditsLive, TypeOK
<1> QED BY <1>1, <1>7, <1>8, <1>9 DEF FaqInv, TypeOK

LEMMA SplitRevoked ==
    ASSUME FaqInv, NEW i \in Ids, NEW children \in SUBSET Ids, RevokeSplit(i, children)
    PROVE  FaqInv' /\ Live(row'[i])
<1> DEFINE restored == IF audited[i] = None THEN "active" ELSE audited[i]
<1>1. /\ TypeOK /\ Count /\ i \in Rows /\ row[i] \in Faq /\ UNCHANGED <<doc, audited, snap, draft, split>>
      /\ \A c \in children : c \in Rows
      /\ row' = [j \in Ids |->
              IF j = i THEN [row[i] EXCEPT !.status = restored, !.reason = "none"]
              ELSE IF j \in children THEN [row[j] EXCEPT !.status = "disabled", !.reason = "other"]
              ELSE row[j]]
  BY RowsTyped DEF RevokeSplit, FaqInv, work
<1>2. restored \in Status /\ restored # "disabled"
  BY <1>1 DEF FaqInv, AuditsLive, TypeOK, Status
<1> HIDE DEF restored
<1>3. \A j \in children : row[j] \in Faq
  BY <1>1, RowsTyped
<1>4. \A j \in Ids : \/ row'[j] = row[j]
                     \/ /\ row'[j] \in Faq /\ j \in Rows /\ row'[j].basis = row[j].basis
                        /\ row'[j].level = row[j].level /\ row'[j].source = row[j].source
  BY <1>1, <1>2, <1>3 DEF Faq, Status, Reasons
<1>5. row' \in [Ids -> RowStates]
  BY <1>1, <1>4 DEF TypeOK, RowStates
<1>6. Live(row'[i])
  BY <1>1, <1>2 DEF Live, Faq
<1> QED BY <1>1, <1>4, <1>5, <1>6, CountTyped, RowsOnly, RowsTyped

LEMMA RowsAmended ==
    ASSUME FaqInv, (\E i \in Rows : Administer(i)) \/ MarkStale PROVE FaqInv'
<1>1. TypeOK
  BY DEF FaqInv
<1>2. ASSUME NEW i \in Rows, NEW r \in Faq \cup {Gone}, Amend(i, r),
             \/ r = Gone
             \/ r.basis # "source"
             \/ r.basis = row[i].basis /\ r.level = row[i].level /\ r.source = row[i].source
      PROVE  FaqInv'
  <2>1. /\ Count /\ row' = [row EXCEPT ![i] = r] /\ UNCHANGED <<doc, audited, snap, draft, split>>
    BY <1>2 DEF Amend, work
  <2>2. row' \in [Ids -> RowStates] /\ \A j \in Ids : row'[j] = row[j] \/ (j = i /\ row'[j] = r)
    BY <1>1, <2>1 DEF TypeOK, RowStates
  <2>3. \A j \in Ids : Present(row[j]) => j \in Rows
    BY DEF Rows
  <2> QED BY <1>1, <1>2, <2>1, <2>2, <2>3, CountTyped, RowsOnly, RowForms
<1>3. ASSUME NEW i \in Rows, Enable(i) \/ Disable(i) \/ Retire(i) PROVE FaqInv'
  <2>1. row[i] \in Faq
    BY <1>1, RowsTyped
  <2>2. PICK s \in Status, why \in Reasons : Amend(i, [[row[i] EXCEPT !.status = s] EXCEPT !.reason = why])
    <3>1. \A s \in Status : [row[i] EXCEPT !.status = s] = [[row[i] EXCEPT !.status = s] EXCEPT !.reason = row[i].reason]
      BY <2>1 DEF Faq
    <3>2. row[i].reason \in Reasons /\ "active" \in Status /\ "disabled" \in Status /\ "other" \in Reasons
      BY <2>1 DEF Faq, Status, Reasons
    <3> QED BY <1>3, <3>1, <3>2 DEF Enable, Disable, Retire
  <2> QED BY <1>2, <2>1, <2>2 DEF Faq
<1>4. ASSUME NEW i \in Rows, DeleteRow(i) PROVE FaqInv'
  <2>1. Amend(i, Gone)
    BY <1>4 DEF DeleteRow
  <2> QED BY <1>2, <2>1
<1>5. ASSUME NEW i \in Rows, NEW level \in Level, Override(i, level) PROVE FaqInv'
  <2>1. row[i] \in Faq
    BY <1>1, RowsTyped
  <2>2. /\ [row[i] EXCEPT !.level = level, !.basis = "hand"] \in Faq
        /\ [row[i] EXCEPT !.level = level, !.basis = "hand"].basis = "hand"
    BY <2>1 DEF Faq, Bases
  <2>3. Amend(i, [row[i] EXCEPT !.level = level, !.basis = "hand"])
    BY <1>5 DEF Override
  <2> DEFINE r == [row[i] EXCEPT !.level = level, !.basis = "hand"]
  <2>4. r \in Faq \cup {Gone} /\ r.basis # "source" /\ Amend(i, r)
    BY <2>2, <2>3
  <2> HIDE DEF r
  <2> QED BY <1>2, <2>4
<1>6. ASSUME NEW i \in Rows, NEW q \in Questions, EditQuestion(i, q) PROVE FaqInv'
  <2>1. row[i] \in Faq /\ i \in Ids
    BY <1>1, RowsTyped
  <2>2. /\ Count /\ UNCHANGED <<doc, audited, snap, draft, split>>
        /\ row' = [row EXCEPT ![i] = [row[i] EXCEPT !.question = q]]
    BY <1>6 DEF EditQuestion, work
  <2> DEFINE r == [row[i] EXCEPT !.question = q]
  <2>3. r \in Faq /\ r.basis = row[i].basis /\ r.level = row[i].level /\ r.source = row[i].source
    BY <2>1 DEF Faq
  <2> HIDE DEF r
  <2>4. row' \in [Ids -> RowStates] /\ \A j \in Ids : row'[j] = row[j] \/ (j = i /\ row'[j] = r)
    BY <1>1, <2>2, <2>3 DEF TypeOK, RowStates, r
  <2>5. \A j \in Ids : Present(row[j]) => j \in Rows
    BY DEF Rows
  <2> QED BY <1>1, <2>2, <2>3, <2>4, <2>5, CountTyped, RowsOnly
<1>7. ASSUME MarkStale PROVE FaqInv'
  <2>1. /\ Count /\ UNCHANGED <<doc, audited, snap, draft, split>>
        /\ row' = [i \in Ids |-> IF i \in Rows /\ Live(row[i])
                                 THEN [row[i] EXCEPT !.status = "disabled", !.reason = "other"] ELSE row[i]]
    BY <1>7 DEF MarkStale, work
  <2>2. \A j \in Ids : \/ row'[j] = row[j]
                       \/ /\ row'[j] \in Faq /\ j \in Rows /\ row'[j].basis = row[j].basis
                          /\ row'[j].level = row[j].level /\ row'[j].source = row[j].source
    BY <1>1, <2>1, RowsTyped DEF Faq, Status, Reasons
  <2>3. \A j \in Ids : row'[j] \in RowStates
    BY <1>1, <2>2 DEF TypeOK, RowStates
  <2>4. row' \in [Ids -> RowStates]
    BY <2>1, <2>3
  <2> QED BY <1>1, <2>1, <2>2, <2>4, CountTyped, RowsOnly, RowsTyped
<1> QED BY <1>3, <1>4, <1>5, <1>6, <1>7 DEF Administer

-----------------------------------------------------------------------------
(* Snapshots *)

\* A document that comes back is normal; rows that quote it come back as rows of
\* the snapshot.
LEMMA SnapshotRestored ==
    ASSUME FaqInv, snap # Nothing, NEW docs \in SUBSET Docs, NEW back \in SUBSET Ids, NEW lost \in SUBSET Ids,
           \A i \in back : Present(snap.row[i]), Count, Cross(Docs), UNCHANGED <<audited, snap>>,
           doc' = [d \in Docs |-> IF d \in docs /\ ~doc[d].exists
                                  THEN [exists |-> TRUE, level |-> 0] ELSE doc[d]],
           row' = [i \in Ids |-> IF i \in back
                                 THEN [snap.row[i] EXCEPT !.basis = IF @ = "source" THEN "snapshot" ELSE @]
                                 ELSE IF i \in lost THEN Gone ELSE row[i]]
    PROVE  FaqInv'
<1>1. TypeOK /\ snap \in Snapshots
  BY DEF FaqInv, TypeOK
<1>2. doc' \in [Docs -> DocState]
  BY <1>1, RowForms DEF TypeOK, DocState
<1>3. \A i \in back : row'[i] \in Faq /\ row'[i].basis # "source"
  <2> SUFFICES ASSUME NEW i \in back PROVE row'[i] \in Faq /\ row'[i].basis # "source"
    OBVIOUS
  <2>1. snap.row[i] \in Faq
    BY <1>1, RowForms DEF Snapshots
  <2> QED BY <2>1 DEF Faq, Bases
<1>4. row' \in [Ids -> RowStates]
  BY <1>1, <1>3, RowForms DEF TypeOK, RowStates
<1>5. ASSUME NEW i \in Rows', row'[i].basis = "source"
      PROVE  doc'[row'[i].source].exists /\ row'[i].level = doc'[row'[i].source].level
  <2>1. i \in Ids /\ i \notin back /\ row'[i] = row[i] /\ i \in Rows
    BY <1>3, <1>5, RowForms DEF Rows
  <2>2. row[i].source \in Docs /\ Follows(row[i])
    BY <1>1, <1>5, <2>1, RowsTyped DEF FaqInv, LevelFollows, Faq
  <2> QED BY <2>1, <2>2 DEF Follows
<1>6. LevelFollows'
  BY <1>5 DEF LevelFollows, Follows
<1> QED BY <1>1, <1>2, <1>4, <1>6, CountTyped, WriterKeeps

LEMMA RolledBack ==
    ASSUME FaqInv, RollbackAll \/ \E docs \in SUBSET Docs : RollbackSome(docs) PROVE FaqInv'
<1>1. CASE RollbackAll
  <2> DEFINE back == {i \in Ids : Present(snap.row[i])}
  <2>1. SnapshotDocs \subseteq Docs /\ back \subseteq Ids /\ Rows \subseteq Ids /\ snap # Nothing
    BY <1>1 DEF SnapshotDocs, Rows, RollbackAll
  <2>2. /\ Count /\ Cross(Docs) /\ UNCHANGED <<audited, snap>>
        /\ doc' = [d \in Docs |-> IF d \in SnapshotDocs /\ ~doc[d].exists
                                  THEN [exists |-> TRUE, level |-> 0] ELSE doc[d]]
        /\ row' = [i \in Ids |-> IF i \in back
                                 THEN [snap.row[i] EXCEPT !.basis = IF @ = "source" THEN "snapshot" ELSE @]
                                 ELSE IF i \in Rows THEN Gone ELSE row[i]]
    BY <1>1 DEF RollbackAll, Restore
  <2>3. \A i \in back : Present(snap.row[i])
    OBVIOUS
  <2> HIDE DEF back
  <2> QED BY <2>1, <2>2, <2>3, SnapshotRestored
<1>2. ASSUME NEW docs \in SUBSET Docs, RollbackSome(docs) PROVE FaqInv'
  <2> DEFINE back == {i \in Ids : Present(snap.row[i]) /\ snap.row[i].source \in docs}
             lost == {i \in Rows : row[i].source \in docs \/ row[i].question \in SnapshotQuestions(docs)}
  <2>1. back \subseteq Ids /\ lost \subseteq Ids /\ snap # Nothing
    BY <1>2 DEF Rows, RollbackSome
  <2>2. /\ Count /\ Cross(Docs) /\ UNCHANGED <<audited, snap>>
        /\ doc' = [d \in Docs |-> IF d \in docs /\ ~doc[d].exists
                                  THEN [exists |-> TRUE, level |-> 0] ELSE doc[d]]
        /\ row' = [i \in Ids |-> IF i \in back
                                 THEN [snap.row[i] EXCEPT !.basis = IF @ = "source" THEN "snapshot" ELSE @]
                                 ELSE IF i \in lost THEN Gone ELSE row[i]]
    BY <1>2 DEF RollbackSome, Restore
  <2>3. \A i \in back : Present(snap.row[i])
    OBVIOUS
  <2> HIDE DEF back, lost
  <2> QED BY <2>1, <2>2, <2>3, SnapshotRestored
<1> QED BY <1>1, <1>2

LEMMA SnapshotTaken == ASSUME FaqInv, TakeSnapshot PROVE FaqInv'
<1>1. TypeOK /\ UNCHANGED <<doc, row, audited, draft, split>> /\ changes' \in 0..MaxChanges
  BY CountTyped DEF TakeSnapshot, FaqInv, work
<1>2. snap' \in Snapshots
  BY <1>1 DEF TakeSnapshot, Snapshots, TypeOK
<1> QED BY <1>1, <1>2 DEF FaqInv, TypeOK, LevelFollows, DraftKnows, SplitKnows, AuditsLive, Follows, Rows

-----------------------------------------------------------------------------
(* Theorems *)

LEMMA FaqStep == FaqInv /\ [Next]_vars => FaqInv'
<1> SUFFICES ASSUME FaqInv, [Next]_vars PROVE FaqInv'
  OBVIOUS
<1>1. CASE UNCHANGED vars
  BY <1>1 DEF vars, FaqInv, TypeOK, LevelFollows, DraftKnows, SplitKnows, AuditsLive, Follows, Rows
<1>2. CASE Next
  BY <1>2, DraftGoes, DraftWritten, LevelSet, LevelsSynced, DocumentGoes, SplitGoes, SplitCommits,
     SplitRevoked, RowsAmended, RolledBack, SnapshotTaken DEF Next
<1> QED BY <1>1, <1>2

LEMMA FaqAlways == Spec => []FaqInv
  BY FaqStarts, FaqStep, PTL DEF Spec

\* Who may not read a document gets no FAQ that quotes it and no FAQ outlives it,
\* whatever generations, splits, rollbacks and people do (_upsert_faq,
\* update_document_sensitivity, sync_kb_sensitivity, prune_by_document).
THEOREM RowsKeptSound == Spec => []RowsSound
<1>1. FaqInv => RowsSound
  <2> SUFFICES ASSUME FaqInv, NEW i \in Rows, row[i].basis = "source" PROVE Covered(row[i])
    BY DEF FaqInv, RowsSound, SourceCovered
  <2>1. row[i] \in Faq /\ Follows(row[i])
    BY RowsTyped DEF FaqInv, LevelFollows
  <2> QED BY <2>1 DEF Follows, Covered, Faq, Level
<1> QED BY <1>1, FaqAlways, PTL

\* A split that is taken back gives the parent the status it had, and that
\* answers or waits for its review (split_compound_faq, revoke_split_faq).
THEOREM RevokingRevives == Spec => RevokeRevives
<1>1. FaqInv /\ [Next]_vars =>
        [\A i \in Ids, children \in SUBSET Ids : RevokeSplit(i, children) => Live(row'[i])]_vars
  BY SplitRevoked
<1> QED BY <1>1, FaqAlways, PTL DEF Spec, RevokeRevives

================================================================================
