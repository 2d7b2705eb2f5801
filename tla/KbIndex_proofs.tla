--------------------------- MODULE KbIndex_proofs ---------------------------
(***************************************************************************)
(* Proofs about the index life cycle of a knowledge base, for any number   *)
(* of documents, requests, rebuilds and crashes: types, versions, that     *)
(* KbIndex implements IndexRegistry, and that the pointer of the base      *)
(* follows the registry.  The last two rest on IndexInv and on a short     *)
(* list of the actions that write the index_versions table.  Then: that    *)
(* what searches read is what the documents store, in the two settings in  *)
(* which the code keeps it: any number of document requests and pipelines  *)
(* that overlap while no version is built, and every operation, rebuilds   *)
(* included, one request at a time.                                        *)
(***************************************************************************)
EXTENDS KbIndex, TLAPS

\* Constants of the right type.
LEMMA Blanks ==
    /\ SomeRules \in Rules
    /\ BlankDoc \in DocState /\ BlankSnap \in SnapState /\ IdleJob \in JobState
<1> USE KbIndexAssumption
<1>1. SomeRules \in Rules BY DEF SomeRules
<1>2. BlankDoc \in DocState
  BY <1>1 DEF BlankDoc, NewRow, DocState, NoRow
<1>3. BlankSnap \in SnapState BY <1>1 DEF BlankSnap, SnapState
<1>4. IdleJob \in JobState
  BY <1>2, <1>3 DEF IdleJob, JobState, Pcs
<1> QED BY <1>1, <1>2, <1>3, <1>4

\* Version 0 stands for "none".
LEMMA NoVersion == 0 \in 0..MaxVersion
  BY KbIndexAssumption

\* Storing a well-typed row keeps the table well typed.
LEMMA RowUpdate ==
    ASSUME NEW d, NEW row, doc \in [Docs -> DocState], d \in Docs => row \in DocState
    PROVE  [doc EXCEPT ![d] = row] \in [Docs -> DocState]
  OBVIOUS

\* A row built from well-typed fields is a row.
LEMMA RowType ==
    ASSUME NEW status \in RowStatus \cup NoRow, NEW rules \in Rules,
           NEW text \in BOOLEAN, NEW chunks \in SUBSET Rules
    PROVE  NewRow(status, rules, text, chunks) \in DocState
  BY DEF NewRow, DocState

\* Changing one column of a row keeps it a row.
LEMMA SetStatus ==
    ASSUME NEW row \in DocState, NEW x \in RowStatus \cup NoRow PROVE [row EXCEPT !.status = x] \in DocState
  BY DEF DocState

\* ... segment_rules.
LEMMA SetRules ==
    ASSUME NEW row \in DocState, NEW x \in Rules PROVE [row EXCEPT !.rules = x] \in DocState
  BY DEF DocState

\* ... normalized_text.
LEMMA SetText ==
    ASSUME NEW row \in DocState PROVE [row EXCEPT !.text = TRUE] \in DocState
  BY DEF DocState

\* Setting one field of a job keeps it a job: the program point.
LEMMA SetPc ==
    ASSUME NEW r \in JobState, NEW x \in Pcs PROVE [r EXCEPT !.pc = x] \in JobState
  BY DEF JobState

\* ... the document it works on.
LEMMA SetDoc ==
    ASSUME NEW r \in JobState, NEW x \in Docs \cup {NoDoc} PROVE [r EXCEPT !.doc = x] \in JobState
  BY DEF JobState

\* ... the row its session loaded.
LEMMA SetSeen ==
    ASSUME NEW r \in JobState, NEW x \in DocState PROVE [r EXCEPT !.seen = x] \in JobState
  BY DEF JobState

\* ... the version it writes.
LEMMA SetVer ==
    ASSUME NEW r \in JobState, NEW x \in 0..MaxVersion PROVE [r EXCEPT !.ver = x] \in JobState
  BY DEF JobState

\* ... the published version it read.
LEMMA SetActive ==
    ASSUME NEW r \in JobState, NEW x \in 0..MaxVersion PROVE [r EXCEPT !.active = x] \in JobState
  BY DEF JobState

\* ... the documents left to rebuild.
LEMMA SetTodo ==
    ASSUME NEW r \in JobState, NEW x \in SUBSET Docs PROVE [r EXCEPT !.todo = x] \in JobState
  BY DEF JobState

\* ... the failures its loop counted.
LEMMA SetErrors ==
    ASSUME NEW r \in JobState, NEW x \in SUBSET Docs PROVE [r EXCEPT !.errors = x] \in JobState
  BY DEF JobState

\* ... its kind.
LEMMA SetKind ==
    ASSUME NEW r \in JobState, NEW x \in DocKinds \cup KbKinds PROVE [r EXCEPT !.kind = x] \in JobState
  BY DEF JobState

\* ... the rules it applies to every document.
LEMMA SetPatch ==
    ASSUME NEW r \in JobState, NEW x \in Rules \cup {NoRules} PROVE [r EXCEPT !.patch = x] \in JobState
  BY DEF JobState

\* ... its protection snapshot.
LEMMA SetProtect ==
    ASSUME NEW r \in JobState, NEW x \in [Docs -> SnapState] PROVE [r EXCEPT !.protect = x] \in JobState
  BY DEF JobState

\* Replacing one job by a job.
LEMMA JobUpdate ==
    ASSUME NEW j \in Jobs, job \in [Jobs -> JobState], NEW new \in JobState
    PROVE  [job EXCEPT ![j] = new] \in [Jobs -> JobState]
  OBVIOUS

\* Moving a job to another program point keeps the jobs well typed.
LEMMA PcUpdate ==
    ASSUME NEW j \in Jobs, job \in [Jobs -> JobState], NEW pc \in Pcs
    PROVE  [job EXCEPT ![j].pc = pc] \in [Jobs -> JobState]
<1>1. [job[j] EXCEPT !.pc = pc] \in JobState BY SetPc
<1> QED BY <1>1, JobUpdate

\* A pipeline that is done leaves a well-typed job, in the loop of its
\* rebuild or idle.
LEMMA DoneType ==
    ASSUME NEW j \in Jobs, job \in [Jobs -> JobState], NEW failed \in SUBSET Docs
    PROVE  DoneWithDoc(j, failed) \in JobState
<1>1. job[j] \in JobState /\ job[j].errors \cup failed \in SUBSET Docs
  BY DEF JobState
<1>2. [job[j] EXCEPT !.pc = "looping"] \in JobState
  BY <1>1, SetPc DEF Pcs
<1>3. [job[j] EXCEPT !.pc = "looping", !.doc = NoDoc] \in JobState
  BY <1>2, SetDoc
<1>4. [job[j] EXCEPT !.pc = "looping", !.doc = NoDoc, !.seen = BlankDoc] \in JobState
  BY <1>3, SetSeen, Blanks
<1>5. [job[j] EXCEPT !.pc = "looping", !.doc = NoDoc, !.seen = BlankDoc, !.active = 0] \in JobState
  BY <1>4, SetActive, NoVersion
<1>6. [job[j] EXCEPT !.pc = "looping", !.doc = NoDoc, !.seen = BlankDoc, !.active = 0,
                     !.errors = @ \cup failed] \in JobState
  BY <1>1, <1>5, SetErrors
<1>7. CASE IsKbJob(j)
  BY <1>6, <1>7 DEF DoneWithDoc
<1>8. CASE ~IsKbJob(j)
  BY <1>8, Blanks DEF DoneWithDoc
<1> QED BY <1>7, <1>8

\* Scheduling a background pipeline leaves well-typed jobs.
LEMMA QueueType ==
    ASSUME NEW j \in Jobs, NEW kind \in DocKinds, job \in [Jobs -> JobState], Queue(j, kind)
    PROVE  job' \in [Jobs -> JobState]
<1>1. [job[j] EXCEPT !.kind = kind] \in JobState BY SetKind
<1>2. [job EXCEPT ![j].kind = kind] \in [Jobs -> JobState] BY <1>1, JobUpdate
<1>3. [[job EXCEPT ![j].kind = kind] EXCEPT ![j].pc = "queued"] \in [Jobs -> JobState]
  <2>1. [[job EXCEPT ![j].kind = kind][j] EXCEPT !.pc = "queued"] \in JobState
    BY <1>2, SetPc DEF Pcs
  <2> QED BY <1>2, <2>1
<1> QED BY <1>3 DEF Queue

\* A snapshot of well-typed documents is a snapshot.
LEMMA CaptureType == TypeOK => Capture \in [Docs -> SnapState]
<1> SUFFICES ASSUME TypeOK PROVE Capture \in [Docs -> SnapState] OBVIOUS
<1>1. ASSUME NEW d \in Docs
      PROVE  [in |-> TRUE, rules |-> doc[d].rules, text |-> doc[d].text] \in SnapState
  BY DEF TypeOK, DocState, SnapState
<1> QED BY <1>1, Blanks DEF Capture

\* Patching the rules of a set of documents keeps the table well typed.
LEMMA WithRulesType ==
    ASSUME TypeOK, NEW ds \in SUBSET Docs, NEW patch \in Rules \cup {NoRules}
    PROVE  WithRules(ds, patch) \in [Docs -> DocState]
<1>1. ASSUME NEW d \in Docs, patch # NoRules PROVE [doc[d] EXCEPT !.rules = patch] \in DocState
  BY <1>1, SetRules DEF TypeOK
<1> QED BY <1>1 DEF WithRules, TypeOK

\* What a pipeline stores and embeds are segmentations.
LEMMA RowsType ==
    ASSUME TypeOK, NEW j \in Jobs, job[j].doc \in Docs
    PROVE  Rows(j) \in SUBSET Rules /\ Embedded(j) \in SUBSET Rules
<1>1. job[j].seen \in DocState /\ doc[job[j].doc] \in DocState BY DEF TypeOK, JobState
<1>2. Rows(j) \in SUBSET Rules BY <1>1 DEF Rows, DocState
<1> QED BY <1>1, <1>2 DEF Embedded, DocState

\* Embedding a document leaves well-typed collections.
LEMMA RevectorizedType ==
    ASSUME TypeOK, NEW j \in Jobs, NEW v, NEW embedded \in SUBSET Rules
    PROVE  Revectorized(j, v, embedded) \in [Version -> [Docs -> SUBSET Rules]]
  BY DEF Revectorized, TypeOK

\* Type correctness is preserved by every action.
THEOREM TypeStep == IndexInv /\ [Next]_vars => TypeOK'
<1> SUFFICES ASSUME TypeOK, AtDocument, RebuildOwnsVersion, [Next]_vars PROVE TypeOK'
  BY DEF IndexInv
<1> USE DEF kbVars, registry
<1>1. ASSUME NEW j \in Jobs, NEW op \in Operations, NEW d \in Docs, AdmitDocRequest(j, op, d)
      PROVE  TypeOK'
  <2> DEFINE pc == IF op = "resegment" THEN "queued" ELSE "admitted"
  <2>1. [IdleJob EXCEPT !.kind = op] \in JobState
    BY <1>1, Blanks, SetKind DEF AdmitDocRequest
  <2>2. [IdleJob EXCEPT !.kind = op, !.doc = d] \in JobState
    BY <2>1, SetDoc
  <2>3. pc \in Pcs BY DEF Pcs
  <2>4. [IdleJob EXCEPT !.kind = op, !.doc = d, !.pc = pc] \in JobState
    BY <2>2, <2>3, SetPc
  <2> QED BY <1>1, <2>4, JobUpdate DEF AdmitDocRequest, TypeOK
<1>2. ASSUME NEW j \in Jobs, NEW rules \in Rules, CommitUpload(j, rules) PROVE TypeOK'
  <2>1. NewRow("uploaded", rules, FALSE, {}) \in DocState BY RowType DEF RowStatus
  <2>2. job' \in [Jobs -> JobState] BY <1>2, QueueType DEF CommitUpload, TypeOK, DocKinds
  <2> QED BY <1>2, <2>1, <2>2, RowUpdate DEF CommitUpload, TypeOK
<1>3. ASSUME NEW j \in Jobs, NEW rules \in Rules, CommitRules(j, rules) PROVE TypeOK'
  <2>1. job[j].doc \in Docs => [doc[job[j].doc] EXCEPT !.rules = rules] \in DocState
    BY SetRules DEF TypeOK
  <2> QED BY <1>3, <2>1, RowUpdate, Blanks, JobUpdate DEF CommitRules, EndJob, TypeOK
<1>4. ASSUME NEW j \in Jobs, CommitRetry(j) PROVE TypeOK'
  <2>1. job[j].doc \in Docs => [doc[job[j].doc] EXCEPT !.status = "parsing"] \in DocState
    BY SetStatus DEF TypeOK, RowStatus
  <2>2. job' \in [Jobs -> JobState] BY <1>4, QueueType DEF CommitRetry, TypeOK, DocKinds
  <2> QED BY <1>4, <2>1, <2>2, RowUpdate DEF CommitRetry, TypeOK
<1>5. ASSUME NEW j \in Jobs, CommitNormalize(j) PROVE TypeOK'
  <2>1. job[j].doc \in Docs => [doc[job[j].doc] EXCEPT !.text = TRUE] \in DocState
    BY SetText DEF TypeOK
  <2>2. job' \in [Jobs -> JobState]
    BY <1>5, QueueType, Blanks, JobUpdate DEF CommitNormalize, EndJob, TypeOK, DocKinds
  <2> QED BY <1>5, <2>1, <2>2, RowUpdate DEF CommitNormalize, TypeOK
<1>6. ASSUME NEW j \in Jobs, CommitDelete(j) PROVE TypeOK'
  <2>1. NewRow("gone", SomeRules, FALSE, {}) \in DocState BY RowType, Blanks DEF NoRow
  <2> QED BY <1>6, <2>1, RowUpdate, Blanks, JobUpdate DEF CommitDelete, EndJob, TypeOK
<1>7. ASSUME NEW j \in Jobs, LoadDoc(j) PROVE TypeOK'
  <2>1. job[j].doc \in Docs BY <1>7 DEF LoadDoc, AtDocument, WorksOnDoc
  <2>2. [job[j] EXCEPT !.pc = "loaded"] \in JobState BY SetPc DEF TypeOK, Pcs
  <2>3. [job[j] EXCEPT !.pc = "loaded", !.seen = doc[job[j].doc]] \in JobState
    BY <2>1, <2>2, SetSeen DEF TypeOK
  <2> QED BY <1>7, <2>3, Blanks, JobUpdate DEF LoadDoc, TypeOK
<1>8. ASSUME NEW j \in Jobs, NEW d \in Docs, LoadNext(j, d) PROVE TypeOK'
  <2> DEFINE rest == [job[j] EXCEPT !.todo = @ \ {d}]
             late == IF job[j].kind = "rollback" THEN {d} ELSE {}
  <2>1. job[j].todo \ {d} \in SUBSET Docs /\ job[j].errors \cup late \in SUBSET Docs
    BY DEF TypeOK, JobState
  <2>2. rest \in JobState BY <2>1, SetTodo DEF TypeOK
  <2>3. rest.kind = job[j].kind /\ rest.errors = job[j].errors BY DEF TypeOK, JobState
  <2>4. [rest EXCEPT !.errors = job[j].errors \cup late] \in JobState
    <3> HIDE DEF rest, late
    <3> QED BY <2>1, <2>2, SetErrors
  <2>5. [rest EXCEPT !.pc = "loaded", !.doc = d, !.seen = doc[d]] \in JobState
    <3> HIDE DEF rest
    <3>1. [rest EXCEPT !.pc = "loaded"] \in JobState BY <2>2, SetPc DEF Pcs
    <3>2. [rest EXCEPT !.pc = "loaded", !.doc = d] \in JobState BY <3>1, SetDoc
    <3> QED BY <3>2, SetSeen DEF TypeOK
  <2>6. job' \in [Jobs -> JobState]
    <3>1. job' = [job EXCEPT ![j] = IF Exists(d)
                      THEN [rest EXCEPT !.pc = "loaded", !.doc = d, !.seen = doc[d]]
                      ELSE [rest EXCEPT !.errors = job[j].errors \cup late]]
      BY <1>8, <2>3 DEF LoadNext
    <3> HIDE DEF rest, late
    <3> QED BY <2>4, <2>5, <3>1, JobUpdate DEF TypeOK
  <2> QED BY <1>8, <2>6 DEF LoadNext, TypeOK
<1>9. ASSUME NEW j \in Jobs, Vectorize(j) PROVE TypeOK'
  <2> DEFINE v == TargetVersion(j)
  <2>1. v \in 0..MaxVersion BY <1>9 DEF Vectorize, Version
  <2>2. vec' \in [Version -> [Docs -> SUBSET Rules]]
    BY <1>9, RowsType, RevectorizedType DEF Vectorize, AtDocument, WorksOnDoc, TypeOK
  <2>3. [job[j] EXCEPT !.pc = "written"] \in JobState BY SetPc DEF TypeOK, Pcs
  <2>4. [job[j] EXCEPT !.pc = "written", !.ver = v] \in JobState BY <2>1, <2>3, SetVer
  <2>5. [job[j] EXCEPT !.pc = "written", !.ver = v, !.active = current] \in JobState
    BY <2>4, SetActive DEF TypeOK
  <2>6. job' = [job EXCEPT ![j] = [job[j] EXCEPT !.pc = "written", !.ver = v, !.active = current]]
    BY <1>9 DEF Vectorize, TypeOK
  <2>7. job' \in [Jobs -> JobState] BY <2>5, <2>6, JobUpdate DEF TypeOK
  <2> QED BY <1>9, <2>1, <2>2, <2>7 DEF Vectorize, TypeOK
<1>10. ASSUME NEW j \in Jobs, EmbedFails(j) PROVE TypeOK'
  <2>1. vec' \in [Version -> [Docs -> SUBSET Rules]]
    BY <1>10, RevectorizedType DEF EmbedFails, AtDocument, WorksOnDoc, TypeOK
  <2> QED BY <1>10, <2>1, PcUpdate DEF EmbedFails, TypeOK, Pcs
<1>11. ASSUME NEW j \in Jobs, CommitPipeline(j) PROVE TypeOK'
  <2> DEFINE d == job[j].doc
  <2>1. d \in Docs BY <1>11 DEF CommitPipeline, AtDocument, WorksOnDoc
  <2>2. PICK rules \in {doc[d].rules} \cup (IF Resegments(j) THEN {job[j].seen.rules} ELSE {}) :
           doc' = [doc EXCEPT ![d] = NewRow("ready", rules,
                                   doc[d].text \/ (Resegments(j) /\ Parsed(j)), Rows(j))]
    BY <1>11 DEF CommitPipeline
  <2>3. rules \in Rules BY <2>1, <2>2 DEF TypeOK, JobState, DocState
  <2>4. Rows(j) \in SUBSET Rules BY <2>1, RowsType
  <2>5. (doc[d].text \/ (Resegments(j) /\ Parsed(j))) \in BOOLEAN OBVIOUS
  <2>6. doc' \in [Docs -> DocState]
    BY <2>2, <2>3, <2>4, <2>5, RowType, RowUpdate DEF TypeOK, RowStatus
  <2>7. current' \in 0..MaxVersion BY <1>11 DEF CommitPipeline, TypeOK, JobState
  <2> QED BY <1>11, <2>6, <2>7, DoneType, JobUpdate DEF CommitPipeline, TypeOK
<1>12. ASSUME NEW j \in Jobs, HandleFailure(j) PROVE TypeOK'
  <2>1. job[j].doc \in Docs BY <1>12 DEF HandleFailure, AtDocument, WorksOnDoc
  <2>2. [doc[job[j].doc] EXCEPT !.status = "error"] \in DocState
    BY <2>1, SetStatus DEF TypeOK, RowStatus
  <2> QED BY <1>12, <2>1, <2>2, RowUpdate, DoneType, JobUpdate DEF HandleFailure, TypeOK
<1>13. ASSUME NEW j \in Jobs, NEW s \in snaps, NEW chosen \in SUBSET Docs, NEW strays \in SUBSET Docs,
              Rollback(j, s, chosen, strays)
       PROVE  TypeOK'
  <2> DEFINE rows == [d \in Docs |-> IF d \in chosen THEN Restored(s, d)
                          ELSE IF d \in strays THEN [doc[d] EXCEPT !.status = "archived"]
                          ELSE doc[d]]
             v == lastVersion + 1
  <2>1. v \in Version /\ v \in 0..MaxVersion
    BY <1>13, KbIndexAssumption DEF Rollback, MayRollback, TypeOK, Version
  <2>2. ASSUME NEW d \in Docs
        PROVE  Restored(s, d) \in DocState /\ [doc[d] EXCEPT !.status = "archived"] \in DocState
    <3>1. s[d] \in SnapState BY DEF TypeOK
    <3>2. Restored(s, d) \in DocState BY <3>1, RowType DEF Restored, SnapState, RowStatus
    <3> QED BY <3>2, SetStatus DEF TypeOK, RowStatus
  <2>3. rows \in [Docs -> DocState] BY <2>2 DEF TypeOK
  <2>4. vec' \in [Version -> [Docs -> SUBSET Rules]]
    BY <1>13 DEF Rollback, WithoutVectors, TypeOK
  <2>5. [IdleJob EXCEPT !.kind = "rollback"] \in JobState BY Blanks, SetKind DEF KbKinds
  <2>6. [IdleJob EXCEPT !.kind = "rollback", !.pc = "committed"] \in JobState
    BY <2>5, SetPc DEF Pcs
  <2>7. [IdleJob EXCEPT !.kind = "rollback", !.pc = "committed", !.ver = v] \in JobState
    BY <2>1, <2>6, SetVer
  <2>8. [IdleJob EXCEPT !.kind = "rollback", !.pc = "committed", !.ver = v,
                        !.todo = Live(rows)] \in JobState
    BY <2>7, SetTodo DEF Live
  <2>9. [IdleJob EXCEPT !.kind = "rollback", !.pc = "committed", !.ver = v,
                        !.todo = Live(rows), !.protect = Capture] \in JobState
    BY <2>8, SetProtect, CaptureType
  <2>10. job' \in [Jobs -> JobState]
    BY <1>13, <2>9, JobUpdate DEF Rollback, TypeOK
  <2> QED BY <1>13, <2>1, <2>3, <2>4, <2>10 DEF Rollback, TypeOK
<1>14. ASSUME NEW j \in Jobs, NEW s \in snaps, AbortRollback(j, s) PROVE TypeOK'
  BY <1>14 DEF AbortRollback, WithoutVectors, TypeOK
<1>15. ASSUME NEW j \in Jobs, FinishRollback(j) PROVE TypeOK'
  <2>1. job[j].ver \in Version /\ job[j].ver \in 0..MaxVersion
    BY <1>15 DEF FinishRollback, LoopDone, RebuildOwnsVersion, Rebuilding, IsKbJob, KbKinds, TypeOK, JobState
  <2> QED BY <1>15, <2>1, Blanks, JobUpdate DEF FinishRollback, EndJob, TypeOK
<1>16. ASSUME NEW j \in Jobs, FailRollback(j) PROVE TypeOK'
  <2>1. job[j].protect \in [Docs -> SnapState] BY DEF TypeOK, JobState
  <2>2. ASSUME NEW s \in [Docs -> SnapState], NEW d \in Docs PROVE Compensated(s)[d] \in DocState
    <3>1. s[d] \in SnapState OBVIOUS
    <3>2. /\ NewRow("ready", s[d].rules, TRUE, {s[d].rules}) \in DocState
          /\ NewRow("uploaded", s[d].rules, FALSE, {}) \in DocState
      BY <3>1, RowType DEF SnapState, RowStatus
    <3>3. [doc[d] EXCEPT !.status = "archived"] \in DocState BY SetStatus DEF TypeOK, RowStatus
    <3> QED BY <3>2, <3>3 DEF Compensated, TypeOK
  <2>3. doc' \in [Docs -> DocState] BY <1>16, <2>1, <2>2 DEF FailRollback, Compensated
  <2> QED BY <1>16, <2>3, Blanks, JobUpdate DEF FailRollback, EndJob, TypeOK
<1>17. ASSUME NEW j \in Jobs, AdmitRevectorize(j) PROVE TypeOK'
  <2>1. [IdleJob EXCEPT !.kind = "revectorize"] \in JobState BY Blanks, SetKind DEF KbKinds
  <2>2. [IdleJob EXCEPT !.kind = "revectorize", !.pc = "admitted"] \in JobState
    BY <2>1, SetPc DEF Pcs
  <2> QED BY <1>17, <2>2, JobUpdate DEF AdmitRevectorize, TypeOK
<1>18. ASSUME NEW j \in Jobs, NEW patch \in Rules \cup {NoRules}, NEW force \in BOOLEAN,
              EnqueueRevectorize(j, patch, force)
       PROVE  TypeOK'
  <2> DEFINE ds == {d \in Docs : Exists(d) /\ (force \/ doc[d].status \in {"ready", "error", "pending_segment"})}
             v == lastVersion + 1
  <2>1. v \in Version /\ v \in 0..MaxVersion
    BY <1>18, KbIndexAssumption DEF EnqueueRevectorize, TypeOK, Version
  <2>2. doc' \in [Docs -> DocState] BY <1>18, WithRulesType DEF EnqueueRevectorize
  <2>3. [job[j] EXCEPT !.pc = "enqueued"] \in JobState BY SetPc DEF TypeOK, Pcs
  <2>4. [job[j] EXCEPT !.pc = "enqueued", !.ver = v] \in JobState BY <2>1, <2>3, SetVer
  <2>5. [job[j] EXCEPT !.pc = "enqueued", !.ver = v, !.todo = ds] \in JobState
    BY <2>4, SetTodo
  <2>6. [job[j] EXCEPT !.pc = "enqueued", !.ver = v, !.todo = ds, !.patch = patch] \in JobState
    BY <2>5, SetPatch
  <2>7. job' \in [Jobs -> JobState] BY <1>18, <2>6, JobUpdate DEF EnqueueRevectorize, TypeOK
  <2> QED BY <1>18, <2>1, <2>2, <2>7 DEF EnqueueRevectorize, TypeOK
<1>19. ASSUME NEW j \in Jobs, ReapplyRules(j) PROVE TypeOK'
  <2>1. job[j].todo \in SUBSET Docs /\ job[j].patch \in Rules \cup {NoRules} BY DEF TypeOK, JobState
  <2>2. doc' \in [Docs -> DocState] BY <1>19, <2>1, WithRulesType DEF ReapplyRules
  <2> QED BY <1>19, <2>2, PcUpdate DEF ReapplyRules, TypeOK, Pcs
<1>20. ASSUME NEW j \in Jobs, SwitchRevectorize(j) PROVE TypeOK'
  <2>1. job[j].ver \in Version /\ job[j].ver \in 0..MaxVersion
    BY <1>20 DEF SwitchRevectorize, LoopDone, RebuildOwnsVersion, Rebuilding, IsKbJob, KbKinds, TypeOK, JobState
  <2> QED BY <1>20, <2>1, PcUpdate DEF SwitchRevectorize, TypeOK, Pcs
<1>21. ASSUME NEW j \in Jobs, CommitDisable(j) PROVE TypeOK'
  BY <1>21, Blanks, JobUpdate, PcUpdate DEF CommitDisable, EndJob, TypeOK, Pcs
<1>22. ASSUME NEW j \in Jobs, PurgeForDelete(j) PROVE TypeOK'
  BY <1>22, Blanks, JobUpdate, PcUpdate DEF PurgeForDelete, EndJob, TypeOK, Pcs
<1>23. ASSUME NEW j \in Jobs, Refuse(j) PROVE TypeOK'
  BY <1>23, Blanks, JobUpdate, PcUpdate DEF Refuse, EndJob, TypeOK, Pcs
<1>24. ASSUME NEW j \in Jobs, AbortRequest(j) PROVE TypeOK'
  BY <1>24, Blanks, JobUpdate, PcUpdate DEF AbortRequest, EndJob, TypeOK, Pcs
<1>25. ASSUME NEW j \in Jobs, TakeRow(j) PROVE TypeOK'
  BY <1>25, Blanks, JobUpdate, PcUpdate DEF TakeRow, EndJob, TypeOK, Pcs
<1>26. ASSUME NEW j \in Jobs, RejectTransition(j) PROVE TypeOK'
  BY <1>26, Blanks, JobUpdate, PcUpdate DEF RejectTransition, EndJob, TypeOK, Pcs
<1>27. ASSUME NEW j \in Jobs, PipelineFails(j) PROVE TypeOK'
  BY <1>27, Blanks, JobUpdate, PcUpdate DEF PipelineFails, EndJob, TypeOK, Pcs
<1>28. ASSUME NEW j \in Jobs, StartRebuild(j) PROVE TypeOK'
  BY <1>28, Blanks, JobUpdate, PcUpdate DEF StartRebuild, EndJob, TypeOK, Pcs
<1>29. ASSUME NEW j \in Jobs, StartRevectorize(j) PROVE TypeOK'
  BY <1>29, Blanks, JobUpdate, PcUpdate DEF StartRevectorize, EndJob, TypeOK, Pcs
<1>30. ASSUME NEW j \in Jobs, SwitchFails(j) PROVE TypeOK'
  BY <1>30, Blanks, JobUpdate, PcUpdate DEF SwitchFails, EndJob, TypeOK, Pcs
<1>31. ASSUME NEW j \in Jobs, FinishRevectorize(j) PROVE TypeOK'
  BY <1>31, Blanks, JobUpdate, PcUpdate DEF FinishRevectorize, EndJob, TypeOK, Pcs
<1>32. ASSUME NEW j \in Jobs, RevectorizeCrash(j) PROVE TypeOK'
  BY <1>32, Blanks, JobUpdate, PcUpdate DEF RevectorizeCrash, EndJob, TypeOK, Pcs
<1>33. ASSUME NEW j \in Jobs, LoseRebuild(j) PROVE TypeOK'
  BY <1>33, Blanks, JobUpdate, PcUpdate DEF LoseRebuild, EndJob, TypeOK, Pcs
<1>34. ASSUME TakeSnapshot PROVE TypeOK'
  BY <1>34, CaptureType DEF TakeSnapshot, TypeOK
<1>35. ASSUME NEW s \in snaps, DeleteSnapshot(s) PROVE TypeOK'
  BY <1>35 DEF DeleteSnapshot, TypeOK
<1>36. ASSUME NEW lost \in SUBSET Jobs, Crash(lost) PROVE TypeOK'
  BY <1>36, Blanks DEF Crash, TypeOK
<1>37. CASE UNCHANGED vars
  BY <1>37 DEF vars, TypeOK
<1>38. ASSUME NEW j \in Jobs, Client(j) PROVE TypeOK'
  <2>1. ASSUME NEW s \in snaps, RollbackAll(j, s) PROVE TypeOK'
    BY <2>1, <1>13 DEF RollbackAll, Captured, Strays
  <2>2. ASSUME NEW s \in snaps, NEW ds \in SUBSET Docs, RollbackSome(j, s, ds) PROVE TypeOK'
    BY <2>2, <1>13 DEF RollbackSome
  <2> QED BY <1>38, <1>1, <1>17, <2>1, <2>2 DEF Client
<1>39. ASSUME NEW j \in Jobs, Request(j) PROVE TypeOK'
  BY <1>39, <1>2, <1>3, <1>4, <1>5, <1>6, <1>18, <1>21, <1>22, <1>23 DEF Request
<1>40. ASSUME NEW j \in Jobs, Background(j) PROVE TypeOK'
  BY <1>40, <1>7, <1>8, <1>26, <1>9, <1>11, <1>12, <1>28, <1>15, <1>16, <1>29, <1>19, <1>20, <1>31 DEF Background
<1>41. ASSUME NEW j \in Jobs, Fault(j) PROVE TypeOK'
  BY <1>41, <1>24, <1>10, <1>27, <1>14, <1>30, <1>32, <1>33 DEF Fault
<1> QED BY <1>25, <1>34, <1>35, <1>36, <1>37, <1>38, <1>39, <1>40, <1>41 DEF Next, JobNext

\* What the proofs use of an idle job.
LEMMA IdleFacts ==
    IdleJob.kind = "none" /\ IdleJob.pc = "idle" /\ IdleJob.doc = NoDoc
  BY DEF IdleJob

\* A pipeline that ends idles its request, or returns to the loop of its rebuild.
LEMMA DoneFacts ==
    ASSUME NEW j \in Jobs, job \in [Jobs -> JobState], NEW failed
    PROVE  \/ DoneWithDoc(j, failed) = IdleJob /\ ~IsKbJob(j)
           \/ /\ IsKbJob(j)
              /\ DoneWithDoc(j, failed).kind = job[j].kind
              /\ DoneWithDoc(j, failed).pc = "looping"
              /\ DoneWithDoc(j, failed).ver = job[j].ver
              /\ DoneWithDoc(j, failed).active = 0
  BY DEF DoneWithDoc, JobState

\* Every action leaves jobs that work on a document pointing at one.
THEOREM AtDocumentStep == IndexInv /\ [Next]_vars => AtDocument'
<1> SUFFICES ASSUME TypeOK, AtDocument, [Next]_vars PROVE AtDocument'
  BY DEF IndexInv
<1> USE DEF AtDocument, WorksOnDoc, DocKinds, KbKinds
<1>1. ASSUME NEW j \in Jobs, NEW op \in Operations, NEW d \in Docs, AdmitDocRequest(j, op, d)
      PROVE  AtDocument'
  BY <1>1, IdleFacts DEF AdmitDocRequest, TypeOK, JobState
<1>2. ASSUME NEW j \in Jobs, NEW rules \in Rules, CommitUpload(j, rules) PROVE AtDocument'
  BY <1>2 DEF CommitUpload, Queue, Admitted, TypeOK, JobState
<1>3. ASSUME NEW j \in Jobs, NEW rules \in Rules, CommitRules(j, rules) PROVE AtDocument'
  BY <1>3, IdleFacts DEF CommitRules, EndJob, TypeOK, JobState
<1>4. ASSUME NEW j \in Jobs, CommitRetry(j) PROVE AtDocument'
  BY <1>4 DEF CommitRetry, Queue, Admitted, TypeOK, JobState
<1>5. ASSUME NEW j \in Jobs, CommitNormalize(j) PROVE AtDocument'
  <2>1. CASE EndJob(j) BY <1>5, <2>1, IdleFacts DEF CommitNormalize, EndJob, TypeOK
  <2>2. CASE Queue(j, "resegment")
    BY <1>5, <2>2 DEF CommitNormalize, Queue, Admitted, TypeOK, JobState
  <2> QED BY <1>5, <2>1, <2>2 DEF CommitNormalize
<1>6. ASSUME NEW j \in Jobs, CommitDelete(j) PROVE AtDocument'
  BY <1>6, IdleFacts DEF CommitDelete, EndJob, TypeOK, JobState
<1>7. ASSUME NEW j \in Jobs, LoadDoc(j) PROVE AtDocument'
  BY <1>7, IdleFacts DEF LoadDoc, TypeOK, JobState
<1>8. ASSUME NEW j \in Jobs, NEW d \in Docs, LoadNext(j, d) PROVE AtDocument'
  BY <1>8 DEF LoadNext, TypeOK, JobState
<1>9. ASSUME NEW j \in Jobs, Vectorize(j) PROVE AtDocument'
  BY <1>9 DEF Vectorize, TypeOK, JobState
<1>10. ASSUME NEW j \in Jobs, EmbedFails(j) PROVE AtDocument'
  BY <1>10 DEF EmbedFails, TypeOK, JobState
<1>11. ASSUME NEW j \in Jobs, CommitPipeline(j) PROVE AtDocument'
  <2>1. job' = [job EXCEPT ![j] = DoneWithDoc(j, {})] BY <1>11 DEF CommitPipeline
  <2> QED BY <2>1, DoneFacts, IdleFacts DEF TypeOK
<1>12. ASSUME NEW j \in Jobs, HandleFailure(j) PROVE AtDocument'
  <2>1. PICK failed : job' = [job EXCEPT ![j] = DoneWithDoc(j, failed)]
    BY <1>12 DEF HandleFailure
  <2> QED BY <2>1, DoneFacts, IdleFacts DEF TypeOK
<1>13. ASSUME NEW j \in Jobs, NEW s \in snaps, NEW chosen \in SUBSET Docs, NEW strays \in SUBSET Docs, Rollback(j, s, chosen, strays)
      PROVE  AtDocument'
  BY <1>13, IdleFacts DEF Rollback, TypeOK, JobState
<1>14. ASSUME NEW j \in Jobs, NEW s \in snaps, AbortRollback(j, s) PROVE AtDocument'
  BY <1>14 DEF AbortRollback, TypeOK, JobState
<1>15. ASSUME NEW j \in Jobs, FinishRollback(j) PROVE AtDocument'
  BY <1>15, IdleFacts DEF FinishRollback, EndJob, TypeOK, JobState
<1>16. ASSUME NEW j \in Jobs, FailRollback(j) PROVE AtDocument'
  BY <1>16, IdleFacts DEF FailRollback, EndJob, TypeOK, JobState
<1>17. ASSUME NEW j \in Jobs, AdmitRevectorize(j) PROVE AtDocument'
  BY <1>17, IdleFacts DEF AdmitRevectorize, TypeOK, JobState
<1>18. ASSUME NEW j \in Jobs, NEW patch \in Rules \cup {NoRules}, NEW force \in BOOLEAN, EnqueueRevectorize(j, patch, force)
      PROVE  AtDocument'
  BY <1>18 DEF EnqueueRevectorize, Admitted, TypeOK, JobState
<1>19. ASSUME NEW j \in Jobs, ReapplyRules(j) PROVE AtDocument'
  BY <1>19 DEF ReapplyRules, TypeOK, JobState
<1>20. ASSUME NEW j \in Jobs, SwitchRevectorize(j) PROVE AtDocument'
  BY <1>20 DEF SwitchRevectorize, LoopDone, TypeOK, JobState
<1>21. ASSUME NEW j \in Jobs, CommitDisable(j) PROVE AtDocument'
  BY <1>21, IdleFacts DEF CommitDisable, EndJob, TypeOK, JobState
<1>22. ASSUME NEW j \in Jobs, PurgeForDelete(j) PROVE AtDocument'
  BY <1>22 DEF PurgeForDelete, Admitted, TypeOK, JobState
<1>23. ASSUME NEW j \in Jobs, Refuse(j) PROVE AtDocument'
  BY <1>23, IdleFacts DEF Refuse, EndJob, TypeOK, JobState
<1>24. ASSUME NEW j \in Jobs, AbortRequest(j) PROVE AtDocument'
  BY <1>24, IdleFacts DEF AbortRequest, EndJob, TypeOK, JobState
<1>25. ASSUME NEW j \in Jobs, TakeRow(j) PROVE AtDocument'
  BY <1>25 DEF TakeRow, TypeOK, JobState
<1>26. ASSUME NEW j \in Jobs, RejectTransition(j) PROVE AtDocument'
  BY <1>26 DEF RejectTransition, TypeOK, JobState
<1>27. ASSUME NEW j \in Jobs, PipelineFails(j) PROVE AtDocument'
  BY <1>27 DEF PipelineFails, TypeOK, JobState
<1>28. ASSUME NEW j \in Jobs, StartRebuild(j) PROVE AtDocument'
  BY <1>28 DEF StartRebuild, TypeOK, JobState
<1>29. ASSUME NEW j \in Jobs, StartRevectorize(j) PROVE AtDocument'
  BY <1>29 DEF StartRevectorize, TypeOK, JobState
<1>30. ASSUME NEW j \in Jobs, SwitchFails(j) PROVE AtDocument'
  BY <1>30 DEF SwitchFails, LoopDone, TypeOK, JobState
<1>31. ASSUME NEW j \in Jobs, FinishRevectorize(j) PROVE AtDocument'
  BY <1>31, IdleFacts DEF FinishRevectorize, EndJob, TypeOK, JobState
<1>32. ASSUME NEW j \in Jobs, RevectorizeCrash(j) PROVE AtDocument'
  BY <1>32, IdleFacts DEF RevectorizeCrash, EndJob, TypeOK, JobState
<1>33. ASSUME NEW j \in Jobs, LoseRebuild(j) PROVE AtDocument'
  BY <1>33, IdleFacts DEF LoseRebuild, EndJob, TypeOK, JobState
<1>34. ASSUME TakeSnapshot PROVE AtDocument'
  BY <1>34 DEF TakeSnapshot
<1>35. ASSUME NEW s \in snaps, DeleteSnapshot(s) PROVE AtDocument'
  BY <1>35 DEF DeleteSnapshot
<1>36. ASSUME NEW lost \in SUBSET Jobs, Crash(lost) PROVE AtDocument'
  BY <1>36, IdleFacts DEF Crash
<1>37. CASE UNCHANGED vars
  BY <1>37 DEF vars
<1>38. ASSUME NEW j \in Jobs, Client(j) PROVE AtDocument'
  <2>1. ASSUME NEW s \in snaps, RollbackAll(j, s) PROVE AtDocument'
    BY <2>1, <1>13 DEF RollbackAll, Captured, Strays
  <2>2. ASSUME NEW s \in snaps, NEW ds \in SUBSET Docs, RollbackSome(j, s, ds) PROVE AtDocument'
    BY <2>2, <1>13 DEF RollbackSome
  <2> QED BY <1>38, <1>1, <1>17, <2>1, <2>2 DEF Client
<1>39. ASSUME NEW j \in Jobs, Request(j) PROVE AtDocument'
  BY <1>39, <1>2, <1>3, <1>4, <1>5, <1>6, <1>18, <1>21, <1>22, <1>23 DEF Request
<1>40. ASSUME NEW j \in Jobs, Background(j) PROVE AtDocument'
  BY <1>40, <1>7, <1>8, <1>26, <1>9, <1>11, <1>12, <1>28, <1>15, <1>16, <1>29, <1>19, <1>20, <1>31 DEF Background
<1>41. ASSUME NEW j \in Jobs, Fault(j) PROVE AtDocument'
  BY <1>41, <1>24, <1>10, <1>27, <1>14, <1>30, <1>32, <1>33 DEF Fault
<1> QED BY <1>25, <1>34, <1>35, <1>36, <1>37, <1>38, <1>39, <1>40, <1>41 DEF Next, JobNext

\* What IndexInv says of versions.
Versions == FreshVersions /\ RebuildOwnsVersion /\ SingleCurrent

\* Every action keeps versions fresh, owned by one rebuild, and at most one
\* of them current.
THEOREM VersionStep == IndexInv /\ [Next]_vars => Versions'
<1> SUFFICES ASSUME TypeOK, AtDocument, Versions, [Next]_vars PROVE Versions'
  BY DEF IndexInv, Versions
<1> USE DEF Versions, FreshVersions, RebuildOwnsVersion, Rebuilding, SingleCurrent, kbVars, registry
<1>1. ASSUME NEW j \in Jobs, NEW op \in Operations, NEW d \in Docs, AdmitDocRequest(j, op, d)
      PROVE  Versions'
  BY <1>1, IdleFacts DEF AdmitDocRequest, TypeOK, JobState, IsKbJob, KbKinds, DocKinds
<1>2. ASSUME NEW j \in Jobs, NEW rules \in Rules, CommitUpload(j, rules) PROVE Versions'
  BY <1>2 DEF CommitUpload, Queue, Admitted, TypeOK, JobState, IsKbJob, KbKinds, DocKinds
<1>3. ASSUME NEW j \in Jobs, NEW rules \in Rules, CommitRules(j, rules) PROVE Versions'
  BY <1>3, IdleFacts DEF CommitRules, EndJob, TypeOK, JobState, IsKbJob, KbKinds
<1>4. ASSUME NEW j \in Jobs, CommitRetry(j) PROVE Versions'
  BY <1>4 DEF CommitRetry, Queue, Admitted, TypeOK, JobState, IsKbJob, KbKinds, DocKinds
<1>5. ASSUME NEW j \in Jobs, CommitNormalize(j) PROVE Versions'
  <2>1. CASE EndJob(j)
    BY <1>5, <2>1, IdleFacts DEF CommitNormalize, EndJob, IsKbJob, KbKinds, TypeOK
  <2>2. CASE Queue(j, "resegment")
    BY <1>5, <2>2 DEF CommitNormalize, Queue, IsKbJob, KbKinds, TypeOK, JobState
  <2> QED BY <1>5, <2>1, <2>2 DEF CommitNormalize
<1>6. ASSUME NEW j \in Jobs, CommitDelete(j) PROVE Versions'
  BY <1>6, IdleFacts DEF CommitDelete, EndJob, TypeOK, JobState, IsKbJob, KbKinds
<1>7. ASSUME NEW j \in Jobs, LoadDoc(j) PROVE Versions'
  BY <1>7, IdleFacts DEF LoadDoc, TypeOK, JobState, IsKbJob, KbKinds
<1>8. ASSUME NEW j \in Jobs, NEW d \in Docs, LoadNext(j, d) PROVE Versions'
  BY <1>8 DEF LoadNext, TypeOK, JobState, IsKbJob, KbKinds
<1>9. ASSUME NEW j \in Jobs, Vectorize(j) PROVE Versions'
  <2>1. /\ lastVersion' >= lastVersion /\ lastVersion' \in Nat
        /\ \A v \in Version : v > lastVersion' => v > lastVersion
    BY <1>9 DEF Vectorize, TypeOK, Version
  <2>2. Rebuilding(j) => job[j].ver # 0 /\ Rebuilding(j)
    BY DEF Version
  <2>3. /\ job'[j].kind = job[j].kind /\ job'[j].pc = "written"
        /\ Rebuilding(j) => job'[j].ver = job[j].ver
        /\ \A k \in Jobs \ {j} : job'[k] = job[k]
    BY <1>9, <2>2 DEF Vectorize, TargetVersion, TypeOK, JobState
  <2>4. \A k \in Jobs : Rebuilding(k)' => Rebuilding(k) /\ job'[k].ver = job[k].ver
    BY <1>9, <2>3 DEF Vectorize, IsKbJob
  <2> QED BY <1>9, <2>1, <2>4 DEF Vectorize, TypeOK, JobState, Version
<1>10. ASSUME NEW j \in Jobs, EmbedFails(j) PROVE Versions'
  BY <1>10 DEF EmbedFails, TypeOK, JobState, IsKbJob, KbKinds
<1>11. ASSUME NEW j \in Jobs, CommitPipeline(j) PROVE Versions'
  <2>1. job' = [job EXCEPT ![j] = DoneWithDoc(j, {})] BY <1>11 DEF CommitPipeline
  <2>2. \A k \in Jobs : Rebuilding(k)' => Rebuilding(k) /\ job'[k].ver = job[k].ver
    BY <1>11, <2>1, DoneFacts, IdleFacts DEF CommitPipeline, IsKbJob, KbKinds, TypeOK
  <2> QED BY <1>11, <2>2 DEF CommitPipeline
<1>12. ASSUME NEW j \in Jobs, HandleFailure(j) PROVE Versions'
  <2>1. PICK failed : job' = [job EXCEPT ![j] = DoneWithDoc(j, failed)]
    BY <1>12 DEF HandleFailure
  <2>2. \A k \in Jobs : Rebuilding(k)' => Rebuilding(k) /\ job'[k].ver = job[k].ver
    BY <1>12, <2>1, DoneFacts, IdleFacts DEF HandleFailure, IsKbJob, KbKinds, TypeOK
  <2> QED BY <1>12, <2>2 DEF HandleFailure
<1>13. ASSUME NEW j \in Jobs, NEW s \in snaps, NEW chosen \in SUBSET Docs, NEW strays \in SUBSET Docs, Rollback(j, s, chosen, strays)
      PROVE  Versions'
  <2> DEFINE v == lastVersion + 1
  <2>1. v \in Version /\ ivStatus[v] = "none" /\ v \notin ivCurrent
    BY <1>13, KbIndexAssumption DEF Rollback, MayRollback, TypeOK, Version
  <2>2. /\ job'[j].kind = "rollback" /\ job'[j].pc = "committed" /\ job'[j].ver = v
        /\ \A k \in Jobs \ {j} : job'[k] = job[k]
    BY <1>13 DEF Rollback, TypeOK, IdleJob
  <2>3. \A k \in Jobs : Rebuilding(k)' => k = j \/ (Rebuilding(k) /\ job'[k].ver = job[k].ver)
    BY <2>2 DEF IsKbJob
  <2>4. \A k \in Jobs \ {j} : Rebuilding(k) => job[k].ver # v
    BY <2>1
  <2> QED BY <1>13, <2>1, <2>2, <2>3, <2>4 DEF Rollback, TypeOK, Version
<1>14. ASSUME NEW j \in Jobs, NEW s \in snaps, AbortRollback(j, s) PROVE Versions'
  BY <1>14 DEF AbortRollback, TypeOK, JobState, IsKbJob, KbKinds
<1>15. ASSUME NEW j \in Jobs, FinishRollback(j) PROVE Versions'
  <2> DEFINE v == job[j].ver
  <2>1. Rebuilding(j) /\ v \in Version /\ ivStatus[v] = "building"
    BY <1>15 DEF FinishRollback, LoopDone, IsKbJob, KbKinds
  <2>2. \A k \in Jobs : Rebuilding(k)' => k # j /\ Rebuilding(k) /\ job'[k].ver = job[k].ver
    BY <1>15, IdleFacts DEF FinishRollback, EndJob, IsKbJob, KbKinds, TypeOK
  <2>3. \A k \in Jobs : Rebuilding(k)' => job[k].ver # v
    BY <2>1, <2>2
  <2>4. /\ ivCurrent' = {v} /\ ivStatus'[v] = "active"
        /\ \A w \in Version : ivStatus[w] \in {"none", "building"} /\ w # v => ivStatus'[w] = ivStatus[w]
    BY <1>15, <2>1 DEF FinishRollback
  <2> QED BY <1>15, <2>1, <2>2, <2>3, <2>4 DEF FinishRollback
<1>16. ASSUME NEW j \in Jobs, FailRollback(j) PROVE Versions'
  BY <1>16, IdleFacts DEF FailRollback, LoopDone, EndJob, TypeOK, JobState, IsKbJob, KbKinds
<1>17. ASSUME NEW j \in Jobs, AdmitRevectorize(j) PROVE Versions'
  BY <1>17, IdleFacts DEF AdmitRevectorize, TypeOK, JobState, IsKbJob, KbKinds
<1>18. ASSUME NEW j \in Jobs, NEW patch \in Rules \cup {NoRules}, NEW force \in BOOLEAN, EnqueueRevectorize(j, patch, force)
      PROVE  Versions'
  <2> DEFINE v == lastVersion + 1
  <2>1. v \in Version /\ ivStatus[v] = "none" /\ v \notin ivCurrent
    BY <1>18, KbIndexAssumption DEF EnqueueRevectorize, TypeOK, Version
  <2>2. /\ job'[j].ver = v
        /\ \A k \in Jobs \ {j} : job'[k] = job[k]
    BY <1>18 DEF EnqueueRevectorize, TypeOK, JobState
  <2>3. \A k \in Jobs : Rebuilding(k)' => k = j \/ (Rebuilding(k) /\ job'[k].ver = job[k].ver)
    BY <2>2 DEF IsKbJob
  <2>4. \A k \in Jobs \ {j} : Rebuilding(k) => job[k].ver # v
    BY <2>1
  <2> QED BY <1>18, <2>1, <2>2, <2>3, <2>4 DEF EnqueueRevectorize, TypeOK, Version
<1>19. ASSUME NEW j \in Jobs, ReapplyRules(j) PROVE Versions'
  BY <1>19 DEF ReapplyRules, TypeOK, JobState, IsKbJob, KbKinds
<1>20. ASSUME NEW j \in Jobs, SwitchRevectorize(j) PROVE Versions'
  BY <1>20 DEF SwitchRevectorize, LoopDone, TypeOK, JobState, IsKbJob, KbKinds
<1>21. ASSUME NEW j \in Jobs, CommitDisable(j) PROVE Versions'
  BY <1>21, IdleFacts DEF CommitDisable, EndJob, TypeOK, JobState, IsKbJob, KbKinds
<1>22. ASSUME NEW j \in Jobs, PurgeForDelete(j) PROVE Versions'
  BY <1>22 DEF PurgeForDelete, Admitted, TypeOK, JobState, IsKbJob, KbKinds
<1>23. ASSUME NEW j \in Jobs, Refuse(j) PROVE Versions'
  BY <1>23, IdleFacts DEF Refuse, EndJob, TypeOK, JobState, IsKbJob, KbKinds
<1>24. ASSUME NEW j \in Jobs, AbortRequest(j) PROVE Versions'
  BY <1>24, IdleFacts DEF AbortRequest, EndJob, TypeOK, JobState, IsKbJob, KbKinds
<1>25. ASSUME NEW j \in Jobs, TakeRow(j) PROVE Versions'
  BY <1>25 DEF TakeRow, TypeOK, JobState, IsKbJob, KbKinds
<1>26. ASSUME NEW j \in Jobs, RejectTransition(j) PROVE Versions'
  BY <1>26 DEF RejectTransition, TypeOK, JobState, IsKbJob, KbKinds
<1>27. ASSUME NEW j \in Jobs, PipelineFails(j) PROVE Versions'
  BY <1>27 DEF PipelineFails, TypeOK, JobState, IsKbJob, KbKinds
<1>28. ASSUME NEW j \in Jobs, StartRebuild(j) PROVE Versions'
  BY <1>28 DEF StartRebuild, TypeOK, JobState, IsKbJob, KbKinds
<1>29. ASSUME NEW j \in Jobs, StartRevectorize(j) PROVE Versions'
  BY <1>29 DEF StartRevectorize, TypeOK, JobState, IsKbJob, KbKinds
<1>30. ASSUME NEW j \in Jobs, SwitchFails(j) PROVE Versions'
  BY <1>30 DEF SwitchFails, LoopDone, TypeOK, JobState, IsKbJob, KbKinds
<1>31. ASSUME NEW j \in Jobs, FinishRevectorize(j) PROVE Versions'
  BY <1>31, IdleFacts DEF FinishRevectorize, EndJob, TypeOK, JobState, IsKbJob, KbKinds
<1>32. ASSUME NEW j \in Jobs, RevectorizeCrash(j) PROVE Versions'
  BY <1>32, IdleFacts DEF RevectorizeCrash, EndJob, TypeOK, JobState, IsKbJob, KbKinds
<1>33. ASSUME NEW j \in Jobs, LoseRebuild(j) PROVE Versions'
  BY <1>33, IdleFacts DEF LoseRebuild, EndJob, TypeOK, JobState, IsKbJob, KbKinds
<1>34. ASSUME TakeSnapshot PROVE Versions'
  BY <1>34 DEF TakeSnapshot, IsKbJob
<1>35. ASSUME NEW s \in snaps, DeleteSnapshot(s) PROVE Versions'
  BY <1>35 DEF DeleteSnapshot, IsKbJob
<1>36. ASSUME NEW lost \in SUBSET Jobs, Crash(lost) PROVE Versions'
  BY <1>36, IdleFacts DEF Crash, IsKbJob, KbKinds
<1>37. CASE UNCHANGED vars
  BY <1>37 DEF vars, IsKbJob
<1> HIDE DEF Versions
<1>38. ASSUME NEW j \in Jobs, Client(j) PROVE Versions'
  <2>1. ASSUME NEW s \in snaps, RollbackAll(j, s) PROVE Versions'
    BY <2>1, <1>13 DEF RollbackAll, Captured, Strays
  <2>2. ASSUME NEW s \in snaps, NEW ds \in SUBSET Docs, RollbackSome(j, s, ds) PROVE Versions'
    BY <2>2, <1>13 DEF RollbackSome
  <2> QED BY <1>38, <1>1, <1>17, <2>1, <2>2 DEF Client
<1>39. ASSUME NEW j \in Jobs, Request(j) PROVE Versions'
  BY <1>39, <1>2, <1>3, <1>4, <1>5, <1>6, <1>18, <1>21, <1>22, <1>23 DEF Request
<1>40. ASSUME NEW j \in Jobs, Background(j) PROVE Versions'
  BY <1>40, <1>7, <1>8, <1>26, <1>9, <1>11, <1>12, <1>28, <1>15, <1>16, <1>29, <1>19, <1>20, <1>31 DEF Background
<1>41. ASSUME NEW j \in Jobs, Fault(j) PROVE Versions'
  BY <1>41, <1>24, <1>10, <1>27, <1>14, <1>30, <1>32, <1>33 DEF Fault
<1> QED BY <1>25, <1>34, <1>35, <1>36, <1>37, <1>38, <1>39, <1>40, <1>41 DEF Next, JobNext

\* The initial states satisfy the inductive invariant: one version or none is
\* published, and no job is in progress.
LEMMA InitInv == Init => IndexInv
<1> SUFFICES ASSUME Init PROVE IndexInv OBVIOUS
<1> USE KbIndexAssumption, Blanks DEF Init
<1>1. TypeOK
  <2>1. current \in 0..MaxVersion /\ lastVersion \in 0..MaxVersion OBVIOUS
  <2> QED BY <2>1 DEF TypeOK, Version
<1>2. AtDocument
  BY IdleFacts DEF AtDocument, WorksOnDoc
<1>3. FreshVersions
  BY DEF FreshVersions, Version
<1>4. RebuildOwnsVersion
  BY IdleFacts DEF RebuildOwnsVersion, Rebuilding, IsKbJob, KbKinds
<1>5. SingleCurrent
  BY DEF SingleCurrent
<1> QED BY <1>1, <1>2, <1>3, <1>4, <1>5 DEF IndexInv

\* IndexInv is an invariant: whatever requests, rebuilds, failures and crashes
\* overlap, rebuilds never share a version and the registry shows at most one
\* current version, which is active.
THEOREM IndexInvariant == Spec => []IndexInv
<1>1. IndexInv /\ [Next]_vars => IndexInv'
  BY TypeStep, AtDocumentStep, VersionStep DEF IndexInv, Versions
<1> QED BY InitInv, <1>1, PTL DEF Spec

\* Every variable keeps its type.
THEOREM Typing == Spec => []TypeOK
<1>1. IndexInv => TypeOK BY DEF IndexInv
<1> QED BY IndexInvariant, <1>1, PTL

\* At every commit at most one index version is marked current, and it is active.
THEOREM OneCurrentVersion == Spec => []SingleCurrent
<1>1. IndexInv => SingleCurrent BY DEF IndexInv
<1> QED BY IndexInvariant, <1>1, PTL

\* Overlapping rebuilds (a rollback does not look for open tasks, and
\* re_vectorize_kb looks without a lock) never write the same version.
THEOREM VersionsNotShared == Spec => []RebuildOwnsVersion
<1>1. IndexInv => RebuildOwnsVersion BY DEF IndexInv
<1> QED BY IndexInvariant, <1>1, PTL

\* A rebuild of a rollback writes into its own version only.
LEMMA OwnVersionOnly ==
    ASSUME IndexInv, NEW j \in Jobs, job[j].kind = "rollback", job[j].pc = "working",
           current \in Version, current # job[j].ver, NEW embedded
    PROVE  Revectorized(j, TargetVersion(j), embedded)[current] = vec[current]
<1>1. job[j].ver \in Version /\ TargetVersion(j) = job[j].ver
  BY DEF IndexInv, RebuildOwnsVersion, Rebuilding, IsKbJob, KbKinds, TargetVersion, Version
<1>2. vec[current] \in [Docs -> SUBSET Rules]
  BY DEF IndexInv, TypeOK
<1>3. Revectorized(j, TargetVersion(j), embedded)[current]
        = [vec[current] EXCEPT ![job[j].doc] = vec[current][job[j].doc]]
  BY <1>1 DEF Revectorized
<1> QED BY <1>2, <1>3

\* While a rollback rebuild embeds, whatever overlaps it, the version searches
\* read keeps its vectors (_vectorize with preserve_other_versions).
THEOREM SearchesKeepTheirs == Spec => RebuildLeavesPublished
<1>1. ASSUME IndexInv, [Next]_vars, NEW j \in Jobs, job[j].kind = "rollback", job[j].pc = "working",
             job'[j] # job[j], current \in Version \ {job[j].ver}
      PROVE  vec'[current] = vec[current]
  <2> SUFFICES ASSUME vec' # vec PROVE vec'[current] = vec[current]
    OBVIOUS
  <2>1. job \in [Jobs -> JobState]
    BY <1>1 DEF IndexInv, TypeOK
  <2>2. ASSUME NEW k \in Jobs, Vectorize(k) PROVE vec'[current] = vec[current]
    BY <1>1, <2>1, <2>2, OwnVersionOnly DEF Vectorize
  <2>3. ASSUME NEW k \in Jobs, EmbedFails(k) PROVE vec'[current] = vec[current]
    BY <1>1, <2>1, <2>3, OwnVersionOnly DEF EmbedFails
  <2>4. ASSUME NEW k \in Jobs, CommitDisable(k) \/ PurgeForDelete(k) PROVE FALSE
    BY <1>1, <2>1, <2>4 DEF CommitDisable, PurgeForDelete, Admitted, EndJob
  <2>5. ASSUME NEW k \in Jobs, NEW s, NEW chosen, NEW strays, Rollback(k, s, chosen, strays) PROVE FALSE
    BY <1>1, <2>1, <2>5 DEF Rollback, MayRollback, Idle
  <2>6. ASSUME NEW k \in Jobs, NEW s, AbortRollback(k, s) PROVE FALSE
    BY <1>1, <2>6 DEF AbortRollback
  <2>7. ASSUME NEW k \in Jobs, Client(k) PROVE FALSE
    BY <2>5, <2>7 DEF Client, AdmitDocRequest, AdmitRevectorize, RollbackAll, RollbackSome
  <2>8. ASSUME NEW k \in Jobs, Request(k) PROVE FALSE
    BY <2>4, <2>8 DEF Request, CommitUpload, CommitRules, CommitRetry, CommitNormalize, CommitDelete,
                      Refuse, EnqueueRevectorize
  <2>9. ASSUME NEW k \in Jobs, Background(k) PROVE vec'[current] = vec[current]
    BY <2>2, <2>9 DEF Background, LoadDoc, LoadNext, RejectTransition, CommitPipeline, HandleFailure,
                      StartRebuild, FinishRollback, FailRollback, StartRevectorize, ReapplyRules,
                      SwitchRevectorize, FinishRevectorize
  <2>10. ASSUME NEW k \in Jobs, Fault(k) PROVE vec'[current] = vec[current]
    BY <2>3, <2>6, <2>10 DEF Fault, AbortRequest, PipelineFails, SwitchFails, RevectorizeCrash, LoseRebuild
  <2> QED BY <1>1, <2>7, <2>8, <2>9, <2>10 DEF Next, JobNext, TakeRow, TakeSnapshot, DeleteSnapshot, Crash, vars
<1> DEFINE Keeps == \A j \in Jobs : job[j].kind = "rollback" /\ job[j].pc = "working" /\ job'[j] # job[j]
                        /\ current \in Version \ {job[j].ver} => vec'[current] = vec[current]
<1>2. IndexInv /\ [Next]_vars => [Keeps]_vars
  BY <1>1
<1>3. [][Keeps]_vars => RebuildLeavesPublished
  BY DEF RebuildLeavesPublished
<1> HIDE DEF Keeps
<1> QED BY IndexInvariant, <1>2, <1>3, PTL DEF Spec

-----------------------------------------------------------------------------
(* Who writes the index_versions table *)

\* The steps that open, publish or give up a version.
Opens(j) ==
    \/ \E s \in snaps, chosen, strays \in SUBSET Docs : Rollback(j, s, chosen, strays)
    \/ \E patch \in Rules \cup {NoRules}, force \in BOOLEAN : EnqueueRevectorize(j, patch, force)
Switches(j) == FinishRollback(j) \/ SwitchRevectorize(j)
GivesUp(j) == FailRollback(j) \/ SwitchFails(j)

\* Nothing else writes the index_versions table.
LEMMA RegistryWriters ==
    [Next]_vars => UNCHANGED registry \/ \E j \in Jobs : Opens(j) \/ Switches(j) \/ GivesUp(j)
<1> SUFFICES ASSUME [Next]_vars
             PROVE  UNCHANGED registry \/ \E j \in Jobs : Opens(j) \/ Switches(j) \/ GivesUp(j)
  OBVIOUS
<1>1. ASSUME NEW j \in Jobs, Client(j) PROVE UNCHANGED registry \/ Opens(j)
  <2>1. ASSUME NEW s \in snaps, RollbackAll(j, s) PROVE Opens(j)
    <3>1. Captured(s) \in SUBSET Docs /\ Strays(s) \in SUBSET Docs BY DEF Captured, Strays
    <3> QED BY <2>1, <3>1 DEF RollbackAll, Opens
  <2>2. ASSUME NEW s \in snaps, NEW ds \in SUBSET Docs, RollbackSome(j, s, ds) PROVE Opens(j)
    <3>1. {} \in SUBSET Docs OBVIOUS
    <3> QED BY <2>2, <3>1 DEF RollbackSome, Opens
  <2>3. ASSUME NEW op \in Operations, NEW d \in Docs, AdmitDocRequest(j, op, d)
        PROVE  UNCHANGED registry
    BY <2>3 DEF AdmitDocRequest
  <2>4. ASSUME AdmitRevectorize(j) PROVE UNCHANGED registry
    BY <2>4 DEF AdmitRevectorize
  <2> QED BY <1>1, <2>1, <2>2, <2>3, <2>4 DEF Client
<1>2. ASSUME NEW j \in Jobs, Request(j) PROVE UNCHANGED registry \/ Opens(j)
  BY <1>2 DEF Request, Opens, CommitUpload, CommitRules, CommitRetry, CommitNormalize,
              CommitDisable, PurgeForDelete, CommitDelete, Refuse
<1>3. ASSUME NEW j \in Jobs, Background(j) PROVE UNCHANGED registry \/ Switches(j) \/ GivesUp(j)
  BY <1>3 DEF Background, Switches, GivesUp, LoadDoc, LoadNext, RejectTransition, Vectorize,
              CommitPipeline, HandleFailure, StartRebuild, StartRevectorize, ReapplyRules,
              FinishRevectorize
<1>4. ASSUME NEW j \in Jobs, Fault(j) PROVE UNCHANGED registry \/ GivesUp(j)
  BY <1>4 DEF Fault, GivesUp, AbortRequest, EmbedFails, PipelineFails, AbortRollback,
              RevectorizeCrash, LoseRebuild
<1>5. ASSUME NEW j \in Jobs, TakeRow(j) PROVE UNCHANGED registry
  BY <1>5 DEF TakeRow
<1>6. ASSUME TakeSnapshot \/ (\E s \in snaps : DeleteSnapshot(s))
      PROVE  UNCHANGED registry
  BY <1>6 DEF TakeSnapshot, DeleteSnapshot
<1>7. ASSUME NEW lost \in SUBSET Jobs, Crash(lost) PROVE UNCHANGED registry
  BY <1>7 DEF Crash
<1>8. CASE UNCHANGED vars
  BY <1>8 DEF vars, registry
<1> QED BY <1>1, <1>2, <1>3, <1>4, <1>5, <1>6, <1>7, <1>8 DEF Next, JobNext

-----------------------------------------------------------------------------
(* The registry *)

\* The four shapes a row of the table takes in the abstract registry.
LEMMA PhaseOf ==
    ASSUME IndexInv, NEW v \in Version
    PROVE  /\ ivStatus[v] = "none" => Phase[v] = "unused"
           /\ ivStatus[v] = "building" => Phase[v] = "building"
           /\ ivStatus[v] \in {"active", "obsolete", "failed"} =>
                 Phase[v] = IF v \in ivCurrent THEN "published" ELSE "retired"
           /\ v \in ivCurrent <=> Phase[v] = "published"
  BY DEF Phase, IndexInv, TypeOK, SingleCurrent

\* A rebuild opens a version that never had a row.
LEMMA OpenImplemented ==
    ASSUME IndexInv, NEW j \in Jobs, Opens(j)
    PROVE  \E v \in Version : Registry!Open(v)
<1> DEFINE v == lastVersion + 1
<1>1. /\ lastVersion < MaxVersion
      /\ ivStatus' = [ivStatus EXCEPT ![v] = "building"]
      /\ ivCurrent' = ivCurrent
  BY DEF Opens, Rollback, MayRollback, EnqueueRevectorize
<1>2. v \in Version /\ v > lastVersion
  BY <1>1, KbIndexAssumption DEF IndexInv, TypeOK, Version
<1>3. ivStatus[v] = "none"
  BY <1>2 DEF IndexInv, FreshVersions
<1>4. ivStatus'[v] = "building" /\ \A w \in Version \ {v} : ivStatus'[w] = ivStatus[w]
  BY <1>1, <1>2 DEF IndexInv, TypeOK
<1> HIDE DEF v
<1>5. Phase' = [Phase EXCEPT ![v] = "building"]
  BY <1>1, <1>2, <1>4 DEF Phase
<1> QED BY <1>2, <1>3, <1>5, PhaseOf DEF Registry!Open

\* A switch publishes the version of its rebuild and retires the current one,
\* in the same commit.
LEMMA PublishImplemented ==
    ASSUME IndexInv, NEW j \in Jobs, Switches(j)
    PROVE  Registry!Publish(job[j].ver)
<1> DEFINE v == job[j].ver
<1>1. Rebuilding(j)
  BY DEF Switches, FinishRollback, SwitchRevectorize, LoopDone, Rebuilding, IsKbJob, KbKinds
<1>2. v \in Version /\ ivStatus[v] = "building"
  BY <1>1 DEF IndexInv, RebuildOwnsVersion
<1>3. /\ ivCurrent' = {v}
      /\ ivStatus'[v] = "active"
      /\ \A w \in Version \ {v} : \/ ivStatus'[w] = ivStatus[w] /\ w \notin ivCurrent
                                  \/ ivStatus'[w] = "obsolete" /\ ivStatus[w] = "active"
  BY <1>2 DEF Switches, FinishRollback, SwitchRevectorize, IndexInv, SingleCurrent
<1>4. ivStatus' \in [Version -> {"none", "building", "active", "obsolete", "failed"}]
  BY DEF Switches, FinishRollback, SwitchRevectorize, IndexInv, TypeOK
<1> HIDE DEF v
<1>5. Phase'[v] = "published" BY <1>2, <1>3 DEF Phase
<1>6. ASSUME NEW w \in Version \ {v}
      PROVE  Phase'[w] = IF Phase[w] = "published" THEN "retired" ELSE Phase[w]
  <2>1. CASE ivStatus'[w] = "obsolete" /\ ivStatus[w] = "active"
    BY <2>1, <1>3, <1>6, PhaseOf DEF Phase
  <2>2. CASE ivStatus'[w] = ivStatus[w] /\ w \notin ivCurrent
    BY <2>2, <1>3, <1>6, PhaseOf DEF Phase
  <2> QED BY <1>3, <1>6, <2>1, <2>2
<1>7. Phase' = [w \in Version |-> IF w = v THEN "published"
                                  ELSE IF Phase[w] = "published" THEN "retired" ELSE Phase[w]]
  BY <1>5, <1>6 DEF Phase
<1> QED BY <1>2, <1>7, PhaseOf DEF Registry!Publish, v

\* A failed rollback or a failed switch gives its version up, or leaves its row
\* as it was.
LEMMA GiveUpImplemented ==
    ASSUME IndexInv, NEW j \in Jobs, GivesUp(j)
    PROVE  Registry!GiveUp(job[j].ver) \/ UNCHANGED Phase
<1> DEFINE v == job[j].ver
<1>1. Rebuilding(j)
  BY DEF GivesUp, FailRollback, SwitchFails, LoopDone, Rebuilding, IsKbJob, KbKinds
<1>2. v \in Version /\ ivStatus[v] = "building" /\ v \notin ivCurrent
  BY <1>1 DEF IndexInv, RebuildOwnsVersion, SingleCurrent
<1>3. PICK left \in {"building", "active", "failed"} :
          ivStatus' = [ivStatus EXCEPT ![v] = left] /\ ivCurrent' = ivCurrent
  BY DEF GivesUp, FailRollback, SwitchFails
<1>4. ivStatus'[v] = left /\ \A w \in Version \ {v} : ivStatus'[w] = ivStatus[w]
  BY <1>2, <1>3 DEF IndexInv, TypeOK
<1> HIDE DEF v
<1>5. CASE left = "building"
  BY <1>2, <1>3, <1>4, <1>5 DEF Phase
<1>6. CASE left \in {"active", "failed"}
  <2>1. Phase' = [Phase EXCEPT ![v] = "retired"]
    BY <1>2, <1>3, <1>4, <1>6 DEF Phase
  <2> QED BY <1>2, <2>1, PhaseOf DEF Registry!GiveUp, v
<1> QED BY <1>5, <1>6, <1>3

\* Every step of the program is a step of the registry or leaves it alone.
LEMMA RegistryStep == IndexInv /\ [Next]_vars => [Registry!RegistryNext]_Phase
<1> SUFFICES ASSUME IndexInv, [Next]_vars PROVE [Registry!RegistryNext]_Phase
  OBVIOUS
<1>1. CASE UNCHANGED registry
  BY <1>1 DEF Phase, registry
<1>2. ASSUME NEW j \in Jobs, Opens(j) PROVE Registry!RegistryNext
  BY <1>2, OpenImplemented DEF Registry!RegistryNext
<1>3. ASSUME NEW j \in Jobs, Switches(j) \/ GivesUp(j) PROVE job[j].ver \in Version
  BY <1>3 DEF Switches, FinishRollback, SwitchRevectorize, GivesUp, FailRollback, SwitchFails,
              LoopDone, IndexInv, RebuildOwnsVersion, Rebuilding, IsKbJob, KbKinds
<1>4. ASSUME NEW j \in Jobs, Switches(j) PROVE Registry!RegistryNext
  BY <1>3, <1>4, PublishImplemented DEF Registry!RegistryNext
<1>5. ASSUME NEW j \in Jobs, GivesUp(j) PROVE [Registry!RegistryNext]_Phase
  BY <1>3, <1>5, GiveUpImplemented DEF Registry!RegistryNext
<1> QED BY <1>1, <1>2, <1>4, <1>5, RegistryWriters

\* A base that was published starts with its version published, another with
\* none.
LEMMA RegistryStart == Init => Registry!RegistryInit
<1> SUFFICES ASSUME Init PROVE Registry!RegistryInit OBVIOUS
<1>1. ivCurrent \in {{}} \cup {{v} : v \in Version}
  BY KbIndexAssumption DEF Init, Version
<1>2. Phase = [v \in Version |-> IF v \in ivCurrent THEN "published" ELSE "unused"]
  BY DEF Init, Phase
<1> QED BY <1>1, <1>2 DEF Registry!RegistryInit

\* The index_versions table implements IndexRegistry: a version is opened once,
\* published or given up once, never comes back, and a switch is atomic, under
\* every interleaving of requests, rebuilds, failures and crashes.
THEOREM RegistryRefinement == Spec => RegistryRefined
<1> QED BY RegistryStart, RegistryStep, IndexInvariant, PTL
        DEF Spec, RegistryRefined, Registry!RegistrySpec

\* Seen through the registry, no commit shows two published versions.
THEOREM AtMostOnePublished == Spec => []Registry!OnePublished
<1>1. IndexInv => Registry!OnePublished
  BY PhaseOf DEF Registry!OnePublished, Registry!Published, IndexInv, SingleCurrent
<1> QED BY <1>1, IndexInvariant, PTL

\* A version that was given up, or replaced by a later one, is never written to
\* the registry as current again: rollback always builds a fresh one.
THEOREM RetiredForGood == Spec => [][Registry!NoComeback]_Phase
<1>1. IndexInv /\ [Next]_vars => [Registry!NoComeback]_Phase
  <2> SUFFICES ASSUME IndexInv, [Next]_vars, Phase' # Phase PROVE Registry!NoComeback
    OBVIOUS
  <2>1. PICK v \in Version : Registry!Open(v) \/ Registry!Publish(v) \/ Registry!GiveUp(v)
    BY RegistryStep DEF Registry!RegistryNext
  <2>2. \A w \in Version : Phase[w] \in {"unused", "building", "published", "retired"}
    BY DEF Phase
  <2>3. Phase = [w \in Version |-> Phase[w]]
    BY DEF Phase
  <2> HIDE DEF Phase
  <2> QED BY <2>1, <2>2, <2>3 DEF Registry!NoComeback, Registry!Open, Registry!Publish, Registry!GiveUp
<1> QED BY <1>1, IndexInvariant, PTL DEF Spec

-----------------------------------------------------------------------------
(* The pointer of the base *)

\* In a base that was published, the pointer follows the registry, and a
\* pipeline about to commit has read a published version and will not move it.
PointerInv == StartVersion = 1 =>
    /\ ivCurrent = {current}
    /\ \A j \in Jobs : job[j].pc = "written" => job[j].active # 0

\* Outside a switch, a publishing commit and the two ways a pipeline reaches
\* its commit, a step neither moves the pointer nor readies a pipeline to.
LEMMA PointerWriters ==
    ASSUME IndexInv, [Next]_vars
    PROVE  \/ current' = current /\ \A j \in Jobs : job'[j].pc = "written" => job'[j] = job[j]
           \/ \E j \in Jobs : Switches(j) \/ CommitPipeline(j) \/ Vectorize(j)
<1> DEFINE Still == current' = current /\ \A j \in Jobs : job'[j].pc = "written" => job'[j] = job[j]
<1> USE DEF IndexInv, TypeOK, JobState, kbVars
<1>1. ASSUME NEW j \in Jobs, Client(j) PROVE Still
  <2>1. ASSUME NEW op \in Operations, NEW d \in Docs, AdmitDocRequest(j, op, d) PROVE Still
    BY <2>1 DEF AdmitDocRequest
  <2>2. ASSUME NEW s, NEW chosen, NEW strays, Rollback(j, s, chosen, strays) PROVE Still
    BY <2>2 DEF Rollback, IdleJob
  <2>3. ASSUME AdmitRevectorize(j) PROVE Still
    BY <2>3 DEF AdmitRevectorize, IdleJob
  <2> QED BY <1>1, <2>1, <2>2, <2>3 DEF Client, RollbackAll, RollbackSome
<1>2. ASSUME NEW j \in Jobs, Request(j) PROVE Still
  <2>1. ASSUME NEW rules \in Rules, CommitUpload(j, rules) PROVE Still
    BY <2>1 DEF CommitUpload, Queue
  <2>2. ASSUME NEW rules \in Rules, CommitRules(j, rules) PROVE Still
    BY <2>2, IdleFacts DEF CommitRules, EndJob
  <2>3. ASSUME CommitRetry(j) \/ CommitNormalize(j) PROVE Still
    BY <2>3, IdleFacts DEF CommitRetry, CommitNormalize, Queue, EndJob
  <2>4. ASSUME CommitDisable(j) \/ PurgeForDelete(j) \/ CommitDelete(j) \/ Refuse(j) PROVE Still
    BY <2>4, IdleFacts DEF CommitDisable, PurgeForDelete, CommitDelete, Refuse, EndJob
  <2>5. ASSUME NEW patch, NEW force, EnqueueRevectorize(j, patch, force) PROVE Still
    BY <2>5 DEF EnqueueRevectorize
  <2> QED BY <1>2, <2>1, <2>2, <2>3, <2>4, <2>5 DEF Request
<1>3. ASSUME NEW j \in Jobs, Background(j)
      PROVE  Still \/ Switches(j) \/ CommitPipeline(j) \/ Vectorize(j)
  <2>1. ASSUME LoadDoc(j) PROVE Still
    BY <2>1, IdleFacts DEF LoadDoc
  <2>2. ASSUME NEW d \in Docs, LoadNext(j, d) PROVE Still
    BY <2>2 DEF LoadNext
  <2>3. ASSUME HandleFailure(j) PROVE Still
    <3>1. PICK failed : job' = [job EXCEPT ![j] = DoneWithDoc(j, failed)]
      BY <2>3 DEF HandleFailure
    <3>2. current' = current BY <2>3 DEF HandleFailure
    <3> QED BY <3>1, <3>2, DoneFacts, IdleFacts
  <2>4. ASSUME \/ RejectTransition(j) \/ StartRebuild(j) \/ StartRevectorize(j)
               \/ ReapplyRules(j) \/ FinishRevectorize(j) \/ FailRollback(j)
        PROVE  Still
    BY <2>4, IdleFacts DEF RejectTransition, StartRebuild, StartRevectorize, ReapplyRules,
       FinishRevectorize, FailRollback, EndJob
  <2> QED BY <1>3, <2>1, <2>2, <2>3, <2>4 DEF Background, Switches
<1>4. ASSUME NEW j \in Jobs, Fault(j) PROVE Still
  <2>1. ASSUME AbortRequest(j) \/ RevectorizeCrash(j) \/ LoseRebuild(j) PROVE Still
    BY <2>1, IdleFacts DEF AbortRequest, RevectorizeCrash, LoseRebuild, EndJob
  <2>2. ASSUME EmbedFails(j) \/ PipelineFails(j) \/ SwitchFails(j) PROVE Still
    BY <2>2 DEF EmbedFails, PipelineFails, SwitchFails
  <2>3. ASSUME NEW s \in snaps, AbortRollback(j, s) PROVE Still
    BY <2>3 DEF AbortRollback
  <2> QED BY <1>4, <2>1, <2>2, <2>3 DEF Fault
<1>5. ASSUME NEW j \in Jobs, TakeRow(j) PROVE Still
  BY <1>5 DEF TakeRow
<1>6. ASSUME TakeSnapshot \/ (\E s \in snaps : DeleteSnapshot(s)) PROVE Still
  BY <1>6 DEF TakeSnapshot, DeleteSnapshot
<1>7. ASSUME NEW lost \in SUBSET Jobs, Crash(lost) PROVE Still
  BY <1>7, IdleFacts DEF Crash
<1>8. CASE UNCHANGED vars
  BY <1>8 DEF vars
<1> QED BY <1>1, <1>2, <1>3, <1>4, <1>5, <1>6, <1>7, <1>8 DEF Next, JobNext

\* Every step keeps the pointer and the registry together.
LEMMA PointerStep == IndexInv /\ PointerInv /\ [Next]_vars => PointerInv'
<1> SUFFICES ASSUME IndexInv, PointerInv, [Next]_vars, StartVersion = 1
             PROVE  /\ ivCurrent' = {current'}
                    /\ \A j \in Jobs : job'[j].pc = "written" => job'[j].active # 0
  BY DEF PointerInv
<1> USE DEF PointerInv
<1>1. current # 0
  BY DEF IndexInv, TypeOK, Version
<1>2. ASSUME NEW j \in Jobs, Switches(j)
      PROVE  /\ ivCurrent' = {current'}
             /\ \A k \in Jobs : job'[k].pc = "written" => job'[k] = job[k]
  BY <1>2, IdleFacts DEF Switches, FinishRollback, SwitchRevectorize, EndJob, IndexInv, TypeOK, JobState
<1>3. ASSUME NEW j \in Jobs, CommitPipeline(j)
      PROVE  /\ ivCurrent' = ivCurrent /\ current' = current
             /\ \A k \in Jobs : job'[k].pc = "written" => job'[k] = job[k]
  BY <1>3, DoneFacts, IdleFacts DEF CommitPipeline, registry, IndexInv, TypeOK
<1>4. ASSUME NEW j \in Jobs, Vectorize(j)
      PROVE  /\ ivCurrent' = ivCurrent /\ current' = current
             /\ \A k \in Jobs : job'[k].pc = "written" => job'[k] = job[k] \/ job'[k].active = current
  BY <1>4 DEF Vectorize, registry, IndexInv, TypeOK, JobState
<1>5. current' = current => ivCurrent' = ivCurrent \/ \E j \in Jobs : Switches(j)
  BY RegistryWriters DEF registry, Opens, Rollback, EnqueueRevectorize, GivesUp, FailRollback,
     SwitchFails
<1> QED BY <1>1, <1>2, <1>3, <1>4, <1>5, PointerWriters

\* In a base that was ever published, the version that searches read is the one
\* the registry marks current, at every commit and whatever fails.
THEOREM PointerFollowsRegistry == Spec => []PointerMatchesRegistry
<1>1. Init => PointerInv
  BY IdleFacts, KbIndexAssumption DEF Init, PointerInv, Version
<1>2. PointerInv => PointerMatchesRegistry BY DEF PointerInv, PointerMatchesRegistry
<1> QED BY <1>1, <1>2, PointerStep, IndexInvariant, PTL DEF Spec

-----------------------------------------------------------------------------
(* What searches read *)

AtWork == {"loaded", "working", "written", "failing"}
DocumentWork == {"idle", "admitted", "purged", "queued"} \cup AtWork

\* The version holds what is stored for a ready document.
Fits(v, d) == doc[d].status = "ready" => vec[v][d] = doc[d].chunks

\* A request whose vectors are not, or will not be, those of the stored rows.
Touches(j, d) == job[j].doc = d /\ job[j].pc \in {"purged", "written", "failing"}

-----------------------------------------------------------------------------
(* Requests that overlap *)

\* The clients change documents, of a base that is published; embedding and
\* parsing may fail.
DocumentBase ==
    /\ StartVersion = 1
    /\ Operations \subseteq DocKinds \ {"disable"}
    /\ "db" \notin Faults /\ MaxCrashes = 0

\* No version is built, and pipelines write the published one.
OnlyDocuments ==
    /\ current \in Version
    /\ \A j \in Jobs :
         /\ job[j].kind \notin KbKinds \cup {"disable"} /\ job[j].pc \in DocumentWork
         /\ job[j].ver \in {0, current}
         /\ job[j].pc = "written" => job[j].ver = current /\ job[j].active = current

\* One pipeline at a time writes a document, and none before it has a row.
Exclusive ==
    /\ \A j, k \in Jobs, d \in Docs : Holds(j, d) /\ Holds(k, d) => j = k
    /\ \A j \in Jobs, d \in Docs : Holds(j, d) => Exists(d)
    /\ \A j \in Jobs : Admitted(j, "upload") =>
         ~Exists(job[j].doc) /\ \A k \in Jobs \ {j} : job[k].doc # job[j].doc

\* A pipeline has embedded what it will commit, unless a deletion that will
\* take the row has purged it.
Purging(d) == \E j \in Jobs : job[j].doc = d /\ job[j].pc = "purged"
WrittenFit == \A j \in Jobs : job[j].pc = "written" /\ ~Purging(job[j].doc) =>
                 vec[current][job[j].doc] = Rows(j)

RowsFit == \A d \in Docs : (\E j \in Jobs : Touches(j, d)) \/ Fits(current, d)

DocumentsInv == OnlyDocuments /\ Exclusive /\ WrittenFit /\ RowsFit

\* The steps that are left in this setting.
DocumentStep(j) ==
    \/ \E d \in Docs, op \in Operations : AdmitDocRequest(j, op, d)
    \/ \E rules \in Rules : CommitUpload(j, rules) \/ CommitRules(j, rules)
    \/ CommitRetry(j) \/ CommitNormalize(j) \/ PurgeForDelete(j) \/ CommitDelete(j)
    \/ Refuse(j) \/ AbortRequest(j)
    \/ LoadDoc(j) \/ TakeRow(j) \/ RejectTransition(j) \/ Vectorize(j) \/ EmbedFails(j)
    \/ PipelineFails(j) \/ CommitPipeline(j) \/ HandleFailure(j)

LEMMA DocumentStepsOnly ==
    ASSUME DocumentBase, IndexInv, DocumentsInv, [Next]_vars
    PROVE  UNCHANGED <<current, doc, vec, job>> \/ \E j \in Jobs : DocumentStep(j)
<1> USE DEF DocumentBase, OnlyDocuments, DocumentWork, AtWork, DocKinds, KbKinds
<1> SUFFICES ASSUME \A j \in Jobs : ~DocumentStep(j) PROVE UNCHANGED <<current, doc, vec, job>>
  OBVIOUS
<1>1. \A j \in Jobs : job[j].kind \notin KbKinds \cup {"disable"} /\ job[j].pc \in DocumentWork
  BY DEF DocumentsInv
<1>2. ASSUME NEW j \in Jobs, Client(j) PROVE FALSE
  BY <1>2 DEF DocumentStep, Client, RollbackAll, RollbackSome, AdmitRevectorize
<1>3. ASSUME NEW j \in Jobs, Request(j) PROVE FALSE
  BY <1>1, <1>3 DEF DocumentStep, Request, CommitDisable, Admitted, EnqueueRevectorize
<1>4. ASSUME NEW j \in Jobs, Background(j) PROVE FALSE
  BY <1>1, <1>4 DEF DocumentStep, Background, LoadNext, StartRebuild, FinishRollback, FailRollback, LoopDone,
                    StartRevectorize, ReapplyRules, SwitchRevectorize, FinishRevectorize
<1>5. ASSUME NEW j \in Jobs, Fault(j) PROVE FALSE
  BY <1>1, <1>5 DEF DocumentStep, Fault, AbortRollback, SwitchFails, RevectorizeCrash, LoseRebuild
<1>6. ASSUME NEW j \in Jobs, TakeRow(j) PROVE FALSE
  BY <1>6 DEF DocumentStep
<1>7. ASSUME NEW lost \in SUBSET Jobs, Crash(lost) PROVE FALSE
  BY <1>7 DEF Crash, IndexInv, TypeOK
<1> QED BY <1>2, <1>3, <1>4, <1>5, <1>6, <1>7 DEF Next, JobNext, TakeSnapshot, DeleteSnapshot, vars, kbVars

\* How a step of a request moves the requests: the others stay.
LEMMA OneMoves ==
    ASSUME IndexInv, NEW j \in Jobs, DocumentStep(j)
    PROVE  \A k \in Jobs \ {j} : job'[k] = job[k]
  BY DEF DocumentStep, AdmitDocRequest, CommitUpload, CommitRules, CommitRetry, CommitNormalize, PurgeForDelete,
         CommitDelete, Refuse, AbortRequest, LoadDoc, TakeRow, RejectTransition, Vectorize, EmbedFails,
         PipelineFails, CommitPipeline, HandleFailure, Queue, EndJob, IndexInv, TypeOK
\* What those steps do to the request they belong to.
LEMMA JobRow ==
    ASSUME IndexInv, NEW j \in Jobs
    PROVE  job[j] \in JobState /\ job \in [Jobs -> JobState] /\ (WorksOnDoc(j) => job[j].doc \in Docs)
  BY DEF IndexInv, TypeOK, AtDocument

\* Requests that only move: nothing is written.
LEMMA MovesKeep ==
    ASSUME IndexInv, DocumentsInv, NEW j \in Jobs, \A k \in Jobs \ {j} : job'[k] = job[k],
           UNCHANGED <<current, doc, vec>>,
           job'[j].kind \notin KbKinds \cup {"disable"}, job'[j].pc \in DocumentWork \ {"written", "purged"},
           job'[j].ver \in {0, current},
           job'[j].pc = "working" =>
             /\ Exists(job'[j].doc)
             /\ \A k \in Jobs \ {j} : ~Holds(k, job'[j].doc),
           job'[j].pc = "admitted" /\ job'[j].kind = "upload" =>
             ~Exists(job'[j].doc) /\ \A k \in Jobs \ {j} : job[k].doc # job'[j].doc,
           \A k \in Jobs \ {j} : Admitted(k, "upload") => job'[j].doc # job[k].doc,
           job[j].pc \in {"written", "failing", "purged"} => ~Exists(job[j].doc)
    PROVE  DocumentsInv'
<1>1. OnlyDocuments'
  BY DEF OnlyDocuments, DocumentsInv
<1>2. Exclusive'
  <2>1. \A k \in Jobs \ {j}, d \in Docs : (Holds(k, d)' <=> Holds(k, d)) /\ (Exists(d)' <=> Exists(d))
    BY DEF Holds, Exists
  <2>2. \A d \in Docs : Holds(j, d)' => job'[j].pc = "working" /\ job'[j].doc = d
    BY DEF Holds, DocumentWork
  <2>3. \A k, l \in Jobs, d \in Docs : Holds(k, d)' /\ Holds(l, d)' => k = l
    BY <2>1, <2>2 DEF DocumentsInv, Exclusive
  <2>4. ASSUME NEW k \in Jobs, NEW d \in Docs, Holds(k, d)' PROVE Exists(d)'
    <3>1. CASE k = j
      BY <2>2, <2>4, <3>1 DEF Exists
    <3>2. CASE k # j
      BY <2>1, <2>4, <3>2 DEF DocumentsInv, Exclusive
    <3> QED BY <3>1, <3>2
  <2>5. ASSUME NEW k \in Jobs, Admitted(k, "upload")'
        PROVE  ~Exists(job[k].doc)' /\ \A l \in Jobs \ {k} : job'[l].doc # job'[k].doc
    <3>1. CASE k = j
      BY <2>5, <3>1 DEF Admitted, Exists
    <3>2. CASE k # j
      BY <2>5, <3>2 DEF Admitted, Exists, DocumentsInv, Exclusive
    <3> QED BY <3>1, <3>2
  <2> QED BY <2>3, <2>4, <2>5 DEF Exclusive
<1>3. WrittenFit'
  <2> SUFFICES ASSUME NEW k \in Jobs, job'[k].pc = "written", ~Purging(job[k].doc)' PROVE vec'[current'][job'[k].doc] = Rows(k)'
    BY DEF WrittenFit
  <2>1. k # j /\ job'[k] = job[k]
    BY DEF DocumentWork
  <2>2. Rows(k)' = Rows(k)
    BY <2>1 DEF Rows, Resegments, Parsed
  <2>3. ASSUME NEW l \in Jobs, job[l].doc = job[k].doc, job[l].pc = "purged", Exists(job[k].doc)
        PROVE  Purging(job[k].doc)'
    <3>1. l # j
      BY <2>3
    <3> QED BY <2>1, <2>3, <3>1 DEF Purging
  <2>4. job[k].doc \in Docs /\ Exists(job[k].doc)
    BY <2>1, JobRow DEF WorksOnDoc, DocumentsInv, Exclusive, Holds
  <2>5. ~Purging(job[k].doc)
    BY <2>1, <2>3, <2>4 DEF Purging
  <2> QED BY <2>1, <2>2, <2>4, <2>5 DEF DocumentsInv, WrittenFit
<1>4. RowsFit'
  <2> SUFFICES ASSUME NEW d \in Docs, \A k \in Jobs : ~Touches(k, d)' PROVE Fits(current, d)'
    BY DEF RowsFit
  <2>1. \A k \in Jobs \ {j} : ~Touches(k, d)
    BY DEF Touches
  <2>2. Touches(j, d) => ~Exists(d)
    BY DEF Touches
  <2> QED BY <2>1, <2>2 DEF DocumentsInv, RowsFit, Fits, Exists, NoRow
<1> QED BY <1>1, <1>2, <1>3, <1>4 DEF DocumentsInv

\* Requests that only move, one by one.
LEMMA DocumentMoves ==
    ASSUME DocumentBase, IndexInv, DocumentsInv, NEW j \in Jobs,
           \/ \E d \in Docs, op \in Operations : AdmitDocRequest(j, op, d)
           \/ Refuse(j) \/ AbortRequest(j) \/ LoadDoc(j) \/ TakeRow(j) \/ RejectTransition(j) \/ PipelineFails(j)
    PROVE  DocumentsInv'
<1>1. /\ job[j].kind \notin KbKinds \cup {"disable"} /\ job[j].pc \in DocumentWork
      /\ job[j].ver \in {0, current} /\ job[j] \in JobState
  BY JobRow DEF DocumentsInv, OnlyDocuments
<1>2. \A k \in Jobs \ {j} : Admitted(k, "upload") => job[j].doc # job[k].doc
  BY DEF DocumentsInv, Exclusive
<1>3. IdleJob.kind = "none" /\ IdleJob.pc = "idle" /\ IdleJob.doc = NoDoc /\ IdleJob.ver = 0
  BY DEF IdleJob
<1>4. \A k \in Jobs : job[k].pc = "admitted" /\ job[k].kind = "upload" => job[k].doc # NoDoc
  BY JobRow, KbIndexAssumption DEF WorksOnDoc, DocKinds
<1> USE DEF DocumentWork, AtWork, kbVars
<1>5. ASSUME UNCHANGED <<current, doc, vec>>, job' = [job EXCEPT ![j] = IdleJob],
             job[j].pc \in {"written", "failing", "purged"} => ~Exists(job[j].doc)
      PROVE  DocumentsInv'
  <2>1. job'[j] = IdleJob /\ \A k \in Jobs \ {j} : job'[k] = job[k]
    BY <1>5, JobRow
  <2> QED BY <1>3, <1>4, <1>5, <2>1, MovesKeep DEF KbKinds, Admitted
<1>6. ASSUME NEW d \in Docs, NEW op \in Operations, AdmitDocRequest(j, op, d) PROVE DocumentsInv'
  <2>1. /\ job'[j].kind = op /\ job'[j].doc = d /\ job'[j].ver = 0 /\ job[j].pc = "idle"
        /\ job'[j].pc \in {"admitted", "queued"}
        /\ \A k \in Jobs \ {j} : job'[k] = job[k]
    BY <1>6, JobRow DEF AdmitDocRequest, IdleJob, Idle
  <2>2. op = "upload" => ~Exists(d) /\ \A k \in Jobs : job[k].doc # d
    BY <1>6 DEF AdmitDocRequest, Exists, NoRow
  <2>3. \A k \in Jobs \ {j} : Admitted(k, "upload") => d # job[k].doc
    BY <1>6, <2>2 DEF AdmitDocRequest, DocumentsInv, Exclusive
  <2>4. UNCHANGED <<current, doc, vec>> /\ op \in DocKinds \ {"disable"}
    BY <1>6 DEF AdmitDocRequest, DocumentBase
  <2> QED BY <2>1, <2>2, <2>3, <2>4, MovesKeep DEF KbKinds, DocKinds
<1>7. ASSUME Refuse(j) PROVE DocumentsInv'
  BY <1>5, <1>7 DEF Refuse, EndJob, Admitted
<1>8. ASSUME AbortRequest(j) PROVE DocumentsInv'
  BY <1>5, <1>8 DEF AbortRequest, EndJob, Admitted, DocumentBase
<1>9. ASSUME LoadDoc(j) PROVE DocumentsInv'
  <2>1. CASE Exists(job[j].doc)
    <3>1. /\ job'[j].kind = job[j].kind /\ job'[j].doc = job[j].doc /\ job'[j].ver = job[j].ver
          /\ job[j].pc = "queued" /\ job'[j].pc = "loaded" /\ \A k \in Jobs \ {j} : job'[k] = job[k]
      BY <1>1, <1>9, <2>1, JobRow DEF LoadDoc, JobState
    <3> QED BY <1>1, <1>2, <1>9, <3>1, MovesKeep DEF LoadDoc
  <2>2. CASE ~Exists(job[j].doc)
    BY <1>5, <1>9, <2>2 DEF LoadDoc
  <2> QED BY <2>1, <2>2
<1>10. ASSUME TakeRow(j) \/ RejectTransition(j) \/ PipelineFails(j) PROVE DocumentsInv'
  <2>1. /\ job'[j].kind = job[j].kind /\ job'[j].doc = job[j].doc /\ job'[j].ver = job[j].ver
        /\ job[j].pc \in {"loaded", "working"} /\ job'[j].pc \in {"working", "failing"}
        /\ \A k \in Jobs \ {j} : job'[k] = job[k]
    BY <1>1, <1>10, JobRow DEF TakeRow, RejectTransition, PipelineFails, JobState, DocumentBase
  <2>2. job'[j].pc = "working" => Exists(job[j].doc) /\ \A k \in Jobs \ {j} : ~Holds(k, job[j].doc)
    BY <1>1, <1>10, JobRow DEF TakeRow, RejectTransition, PipelineFails, JobState, Unlocked
  <2>3. UNCHANGED <<current, doc, vec>>
    BY <1>10 DEF TakeRow, RejectTransition, PipelineFails
  <2> QED BY <1>1, <1>2, <2>1, <2>2, <2>3, MovesKeep
<1> QED BY <1>6, <1>7, <1>8, <1>9, <1>10

\* A request that writes the row of its document, which no pipeline holds.
LEMMA RowsKeep ==
    ASSUME IndexInv, DocumentsInv, NEW j \in Jobs, \A k \in Jobs \ {j} : job'[k] = job[k],
           UNCHANGED <<current, vec>>, NEW d \in Docs, d = job[j].doc,
           \A e \in Docs \ {d} : doc'[e] = doc[e],
           \A k \in Jobs \ {j} : ~Holds(k, d) /\ (Admitted(k, "upload") => d # job[k].doc),
           job'[j].kind \notin KbKinds \cup {"disable"}, job'[j].pc \in {"idle", "queued"},
           job'[j].ver \in {0, current}, job'[j].doc \in {d, NoDoc},
           (\A k \in Jobs \ {j} : ~Touches(k, d)) => Fits(current, d)'
    PROVE  DocumentsInv'
<1>1. OnlyDocuments'
  BY DEF OnlyDocuments, DocumentsInv, DocumentWork
<1>2. Exclusive'
  <2>1. ASSUME NEW k \in Jobs, NEW e \in Docs, Holds(k, e)' PROVE k # j /\ Holds(k, e) /\ e # d
    BY <2>1 DEF Holds
  <2>2. \A e \in Docs \ {d} : Exists(e)' <=> Exists(e)
    BY DEF Exists
  <2>3. \A k, l \in Jobs, e \in Docs : Holds(k, e)' /\ Holds(l, e)' => k = l
    BY <2>1 DEF DocumentsInv, Exclusive
  <2>4. \A k \in Jobs, e \in Docs : Holds(k, e)' => Exists(e)'
    BY <2>1, <2>2 DEF DocumentsInv, Exclusive
  <2>5. ASSUME NEW k \in Jobs, Admitted(k, "upload")'
        PROVE  ~Exists(job[k].doc)' /\ \A l \in Jobs \ {k} : job'[l].doc # job'[k].doc
    <3>1. k # j /\ job'[k] = job[k] /\ Admitted(k, "upload")
      BY <2>5 DEF Admitted
    <3>2. job[k].doc \in Docs \ {d} /\ job[k].doc # NoDoc
      BY <3>1, JobRow, KbIndexAssumption DEF Admitted, WorksOnDoc, DocKinds
    <3>3. ~Exists(job[k].doc) /\ \A l \in Jobs \ {k} : job[l].doc # job[k].doc
      BY <3>1 DEF DocumentsInv, Exclusive
    <3> QED BY <3>1, <3>2, <3>3 DEF Exists
  <2> QED BY <2>3, <2>4, <2>5 DEF Exclusive
<1>3. WrittenFit'
  <2> SUFFICES ASSUME NEW k \in Jobs, job'[k].pc = "written", ~Purging(job[k].doc)'
               PROVE  vec'[current'][job'[k].doc] = Rows(k)'
    BY DEF WrittenFit
  <2>1. k # j /\ job'[k] = job[k] /\ job[k].doc \in Docs \ {d}
    BY JobRow DEF WorksOnDoc, Holds
  <2>2. Rows(k)' = Rows(k)
    BY <2>1 DEF Rows, Resegments, Parsed
  <2>3. ~Purging(job[k].doc)
    BY <2>1 DEF Purging
  <2> QED BY <2>1, <2>2, <2>3 DEF DocumentsInv, WrittenFit
<1>4. RowsFit'
  <2> SUFFICES ASSUME NEW e \in Docs, \A k \in Jobs : ~Touches(k, e)' PROVE Fits(current, e)'
    BY DEF RowsFit
  <2>1. \A k \in Jobs \ {j} : ~Touches(k, e)
    BY DEF Touches
  <2>2. CASE e = d
    BY <2>1, <2>2
  <2>3. CASE e # d
    BY <2>1, <2>3 DEF DocumentsInv, RowsFit, Fits, Touches
  <2> QED BY <2>2, <2>3
<1> QED BY <1>1, <1>2, <1>3, <1>4 DEF DocumentsInv

\* A request that writes the vectors of its document.
LEMMA VectorsKeep ==
    ASSUME IndexInv, DocumentsInv, NEW j \in Jobs, \A k \in Jobs \ {j} : job'[k] = job[k],
           UNCHANGED <<current, doc>>, NEW d \in Docs, d = job[j].doc,
           \A e \in Docs \ {d} : vec'[current][e] = vec[current][e],
           job'[j].kind = job[j].kind, job'[j].ver \in {0, current}, job'[j].doc = d,
           \/ Admitted(j, "delete") /\ job'[j].pc = "purged"
           \/ job[j].pc = "working" /\ job'[j].pc = "failing"
           \/ job[j].pc = "working" /\ job'[j].pc = "written"
              /\ job'[j].ver = current /\ job'[j].active = current /\ vec'[current][d] = Rows(j)'
    PROVE  DocumentsInv'
<1>1. OnlyDocuments'
  BY DEF OnlyDocuments, DocumentsInv, DocumentWork, AtWork
<1>2. Exclusive'
  <2>1. \A k \in Jobs, e \in Docs : (Holds(k, e)' => Holds(k, e)) /\ (Exists(e)' <=> Exists(e))
    BY DEF Holds, Exists
  <2>2. \A k \in Jobs : job'[k].doc = job[k].doc
    OBVIOUS
  <2>3. \A k \in Jobs : Admitted(k, "upload")' => Admitted(k, "upload")
    BY DEF Admitted
  <2>4. \A k, l \in Jobs, e \in Docs : Holds(k, e)' /\ Holds(l, e)' => k = l
    BY <2>1 DEF DocumentsInv, Exclusive
  <2>5. \A k \in Jobs, e \in Docs : Holds(k, e)' => Exists(e)'
    BY <2>1 DEF DocumentsInv, Exclusive
  <2>6. ASSUME NEW k \in Jobs, Admitted(k, "upload")'
        PROVE  ~Exists(job[k].doc)' /\ \A l \in Jobs \ {k} : job'[l].doc # job'[k].doc
    BY <2>2, <2>3, <2>6 DEF DocumentsInv, Exclusive, Exists
  <2> QED BY <2>4, <2>5, <2>6 DEF Exclusive
<1>3. WrittenFit'
  <2> SUFFICES ASSUME NEW k \in Jobs, job'[k].pc = "written", ~Purging(job[k].doc)'
               PROVE  vec'[current'][job'[k].doc] = Rows(k)'
    BY DEF WrittenFit
  <2>1. CASE k = j
    BY <2>1
  <2>2. CASE k # j
    <3>1. job'[k] = job[k] /\ job[k].doc \in Docs
      BY <2>2, JobRow DEF WorksOnDoc
    <3>2. job[k].doc # d
      BY <2>2, <3>1 DEF Holds, Purging, DocumentsInv, Exclusive
    <3>3. Rows(k)' = Rows(k)
      BY <3>1 DEF Rows, Resegments, Parsed
    <3>4. ~Purging(job[k].doc)
      BY <3>1, <3>2 DEF Purging
    <3> QED BY <3>1, <3>2, <3>3, <3>4 DEF DocumentsInv, WrittenFit
  <2> QED BY <2>1, <2>2
<1>4. RowsFit'
  <2> SUFFICES ASSUME NEW e \in Docs, \A k \in Jobs : ~Touches(k, e)' PROVE Fits(current, e)'
    BY DEF RowsFit
  <2>1. e # d
    BY DEF Touches
  <2>2. \A k \in Jobs : ~Touches(k, e)
    BY <2>1 DEF Touches
  <2> QED BY <2>1, <2>2 DEF DocumentsInv, RowsFit, Fits
<1> QED BY <1>1, <1>2, <1>3, <1>4 DEF DocumentsInv

\* Requests that write, one by one.
LEMMA DocumentWrites ==
    ASSUME DocumentBase, IndexInv, DocumentsInv, NEW j \in Jobs,
           \/ \E rules \in Rules : CommitUpload(j, rules) \/ CommitRules(j, rules)
           \/ CommitRetry(j) \/ CommitNormalize(j) \/ PurgeForDelete(j) \/ CommitDelete(j)
           \/ Vectorize(j) \/ EmbedFails(j) \/ CommitPipeline(j) \/ HandleFailure(j)
    PROVE  DocumentsInv'
<1>1. /\ job[j].kind \notin KbKinds \cup {"disable"} /\ job[j].pc \in DocumentWork
      /\ job[j].ver \in {0, current} /\ job[j] \in JobState /\ current \in Version /\ 0 \notin Version
      /\ job[j].pc = "written" => job[j].ver = current /\ job[j].active = current
  BY JobRow DEF DocumentsInv, OnlyDocuments, Version
<1>2. PICK d \in Docs : /\ d = job[j].doc /\ WorksOnDoc(j)
                      /\ \A k \in Jobs \ {j} : job'[k] = job[k]
  BY <1>1, JobRow, OneMoves DEF DocumentStep, WorksOnDoc, CommitUpload, CommitRules, CommitRetry, CommitNormalize,
     PurgeForDelete, CommitDelete, Vectorize, EmbedFails, CommitPipeline, HandleFailure, Admitted, DocKinds
<1>3. \A k \in Jobs \ {j} : Admitted(k, "upload") => d # job[k].doc
  BY <1>2 DEF DocumentsInv, Exclusive
<1>4. IdleJob.kind = "none" /\ IdleJob.pc = "idle" /\ IdleJob.doc = NoDoc /\ IdleJob.ver = 0
  BY DEF IdleJob
<1>5. doc \in [Docs -> DocState] /\ doc[d] \in DocState
  BY <1>2 DEF IndexInv, TypeOK
<1> USE <1>2 DEF kbVars
<1>6. ASSUME NEW rules \in Rules, CommitUpload(j, rules) PROVE DocumentsInv'
  <2>1. /\ job'[j].kind = "upload" /\ job'[j].pc = "queued" /\ job'[j].ver = job[j].ver /\ job'[j].doc = d
    BY <1>1, <1>6, JobRow DEF CommitUpload, Queue, JobState
  <2>2. doc'[d].status = "uploaded" /\ (\A e \in Docs \ {d} : doc'[e] = doc[e]) /\ UNCHANGED <<current, vec>>
    BY <1>5, <1>6 DEF CommitUpload, NewRow
  <2>3. \A k \in Jobs \ {j} : ~Holds(k, d)
    BY <1>6 DEF CommitUpload, DocumentsInv, Exclusive, Holds
  <2> QED BY <1>1, <1>3, <2>1, <2>2, <2>3, RowsKeep DEF Fits, KbKinds
<1>7. ASSUME NEW rules \in Rules, CommitRules(j, rules) PROVE DocumentsInv'
  <2>1. job'[j] = IdleJob
    BY <1>7, JobRow DEF CommitRules, EndJob
  <2>2. /\ doc'[d].status = doc[d].status /\ doc'[d].chunks = doc[d].chunks
        /\ (\A e \in Docs \ {d} : doc'[e] = doc[e]) /\ UNCHANGED <<current, vec>>
    BY <1>5, <1>7 DEF CommitRules, DocState
  <2>3. \A k \in Jobs \ {j} : ~Holds(k, d)
    BY <1>7 DEF CommitRules, Unlocked
  <2>4. (\A k \in Jobs \ {j} : ~Touches(k, d)) => Fits(current, d)
    BY <1>7 DEF CommitRules, Admitted, Touches, DocumentsInv, RowsFit
  <2>5. Fits(current, d) => Fits(current, d)'
    BY <2>2, <2>1, <1>4 DEF Fits
  <2> QED BY <1>1, <1>3, <1>4, <2>1, <2>2, <2>3, <2>4, <2>5, RowsKeep DEF KbKinds
<1>8. ASSUME CommitRetry(j) PROVE DocumentsInv'
  <2>1. /\ job'[j].kind = "retry" /\ job'[j].pc = "queued" /\ job'[j].ver = job[j].ver /\ job'[j].doc = d
    BY <1>1, <1>8, JobRow DEF CommitRetry, Queue, JobState
  <2>2. doc'[d].status = "parsing" /\ (\A e \in Docs \ {d} : doc'[e] = doc[e]) /\ UNCHANGED <<current, vec>>
    BY <1>5, <1>8 DEF CommitRetry, DocState
  <2>3. \A k \in Jobs \ {j} : ~Holds(k, d)
    BY <1>8 DEF CommitRetry, Unlocked
  <2> QED BY <1>1, <1>3, <2>1, <2>2, <2>3, RowsKeep DEF Fits, KbKinds
<1>9. ASSUME CommitNormalize(j) PROVE DocumentsInv'
  <2>1. /\ job'[j].kind \in {"none", "resegment"} /\ job'[j].pc \in {"idle", "queued"}
        /\ job'[j].ver \in {0, job[j].ver} /\ job'[j].doc \in {d, NoDoc}
    BY <1>1, <1>4, <1>9, JobRow DEF CommitNormalize, Queue, EndJob, JobState
  <2>2. /\ doc'[d].status = doc[d].status /\ doc'[d].chunks = doc[d].chunks
        /\ (\A e \in Docs \ {d} : doc'[e] = doc[e]) /\ UNCHANGED <<current, vec>>
    BY <1>5, <1>9 DEF CommitNormalize, DocState
  <2>3. \A k \in Jobs \ {j} : ~Holds(k, d)
    BY <1>9 DEF CommitNormalize, Unlocked
  <2>4. (\A k \in Jobs \ {j} : ~Touches(k, d)) => Fits(current, d)
    BY <1>9 DEF CommitNormalize, Admitted, Touches, DocumentsInv, RowsFit
  <2> QED BY <1>1, <1>3, <2>1, <2>2, <2>3, <2>4, RowsKeep DEF KbKinds, Fits
<1>10. ASSUME PurgeForDelete(j) PROVE DocumentsInv'
  <2>1. /\ Admitted(j, "delete") /\ job'[j].kind = job[j].kind /\ job'[j].pc = "purged"
        /\ job'[j].ver = job[j].ver /\ job'[j].doc = d
    BY <1>1, <1>10, JobRow DEF PurgeForDelete, JobState
  <2>2. (\A e \in Docs \ {d} : vec'[current][e] = vec[current][e]) /\ UNCHANGED <<current, doc>>
    BY <1>1, <1>10 DEF PurgeForDelete, IndexInv, TypeOK
  <2> QED BY <1>1, <2>1, <2>2, VectorsKeep
<1>11. ASSUME CommitDelete(j) PROVE DocumentsInv'
  <2>1. job'[j] = IdleJob
    BY <1>11, JobRow DEF CommitDelete, EndJob
  <2>2. doc'[d].status = "gone" /\ (\A e \in Docs \ {d} : doc'[e] = doc[e]) /\ UNCHANGED <<current, vec>>
    BY <1>5, <1>11 DEF CommitDelete, NewRow
  <2>3. \A k \in Jobs \ {j} : ~Holds(k, d)
    BY <1>11 DEF CommitDelete, Unlocked
  <2> QED BY <1>1, <1>3, <1>4, <2>1, <2>2, <2>3, RowsKeep DEF Fits, KbKinds
<1>12. ASSUME Vectorize(j) \/ EmbedFails(j) PROVE DocumentsInv'
  <2>1. TargetVersion(j) = current
    BY <1>1 DEF TargetVersion
  <2>2. /\ job[j].pc = "working" /\ job'[j].kind = job[j].kind /\ job'[j].doc = d
        /\ UNCHANGED <<current, doc>>
    BY <1>1, <1>12, JobRow DEF Vectorize, EmbedFails, JobState
  <2>3. ASSUME NEW embedded PROVE \A e \in Docs \ {d} : Revectorized(j, current, embedded)[current][e] = vec[current][e]
    BY <1>1 DEF Revectorized, IndexInv, TypeOK
  <2>4. \A e \in Docs \ {d} : vec'[current][e] = vec[current][e]
    BY <1>12, <2>1, <2>3 DEF Vectorize, EmbedFails
  <2>5. CASE EmbedFails(j)
    <3>1. job'[j].pc = "failing" /\ job'[j].ver = job[j].ver
      BY <1>1, <2>5, JobRow DEF EmbedFails, JobState
    <3> QED BY <1>1, <2>2, <2>4, <3>1, VectorsKeep
  <2>6. CASE Vectorize(j)
    <3>1. /\ job'[j].pc = "written" /\ job'[j].ver = current /\ job'[j].active = current
          /\ job'[j].seen = job[j].seen
      BY <1>1, <2>1, <2>6, JobRow DEF Vectorize, JobState
    <3>2. Rows(j)' = Rows(j) /\ Embedded(j) = Rows(j)
      BY <1>1, <2>2, <3>1 DEF Rows, Embedded, Resegments, Parsed, KbKinds
    <3>3. vec'[current][d] = Embedded(j)
      BY <1>1, <2>1, <2>6 DEF Vectorize, Revectorized, IndexInv, TypeOK
    <3> QED BY <1>1, <2>2, <2>4, <3>1, <3>2, <3>3, VectorsKeep
  <2> QED BY <1>12, <2>5, <2>6
<1>13. ASSUME CommitPipeline(j) PROVE DocumentsInv'
  <2>1. job'[j] = IdleJob
    BY <1>1, <1>13, JobRow DEF CommitPipeline, DoneWithDoc, IsKbJob
  <2>2. /\ doc'[d].status = "ready" /\ doc'[d].chunks = Rows(j) /\ (\A e \in Docs \ {d} : doc'[e] = doc[e])
        /\ UNCHANGED <<current, vec>> /\ job[j].pc = "written"
    BY <1>1, <1>5, <1>13 DEF CommitPipeline, NewRow
  <2>3. \A k \in Jobs \ {j} : ~Holds(k, d)
    BY <2>2 DEF Holds, DocumentsInv, Exclusive
  <2>4. (\A k \in Jobs \ {j} : ~Touches(k, d)) => vec[current][d] = Rows(j)
    BY <2>2 DEF Touches, Purging, DocumentsInv, WrittenFit
  <2>5. (\A k \in Jobs \ {j} : ~Touches(k, d)) => vec'[current'][d] = doc'[d].chunks
    BY <2>2, <2>4
  <2> QED BY <1>1, <1>3, <1>4, <2>1, <2>2, <2>3, <2>5, RowsKeep DEF Fits, KbKinds
<1>14. ASSUME HandleFailure(j) PROVE DocumentsInv'
  <2>1. job'[j] = IdleJob /\ UNCHANGED <<current, vec>> /\ job[j].pc = "failing"
    BY <1>1, <1>14, JobRow DEF HandleFailure, DoneWithDoc, IsKbJob, Resegments, KbKinds
  <2>2. (\A e \in Docs \ {d} : doc'[e] = doc[e]) /\ doc'[d].status # "ready"
    BY <1>1, <1>5, <1>14 DEF HandleFailure, Resegments, KbKinds, Exists, NoRow, DocState
  <2>3. \A k \in Jobs \ {j} : ~Holds(k, d)
    BY <1>1, <1>14 DEF HandleFailure, Resegments, KbKinds, Unlocked
  <2> QED BY <1>1, <1>3, <1>4, <2>1, <2>2, <2>3, RowsKeep DEF Fits, KbKinds
<1> QED BY <1>6, <1>7, <1>8, <1>9, <1>10, <1>11, <1>12, <1>13, <1>14

LEMMA DocumentsStart == DocumentBase /\ Init => DocumentsInv
<1> SUFFICES ASSUME DocumentBase, Init PROVE DocumentsInv
  OBVIOUS
<1> USE DEF DocumentBase, Init, IdleJob
<1>1. current \in Version /\ \A j \in Jobs : job[j] = IdleJob
  BY KbIndexAssumption DEF Version
<1>2. OnlyDocuments
  BY <1>1 DEF OnlyDocuments, KbKinds, DocumentWork
<1>3. Exclusive /\ WrittenFit
  BY <1>1 DEF Exclusive, WrittenFit, Holds, Admitted
<1>4. RowsFit
  BY DEF RowsFit, Fits, BlankDoc, NewRow
<1> QED BY <1>2, <1>3, <1>4 DEF DocumentsInv

LEMMA DocumentsKept == DocumentBase /\ IndexInv /\ DocumentsInv /\ [Next]_vars => DocumentsInv'
<1> SUFFICES ASSUME DocumentBase, IndexInv, DocumentsInv, [Next]_vars PROVE DocumentsInv'
  OBVIOUS
<1>1. ASSUME NEW j \in Jobs, DocumentStep(j) PROVE DocumentsInv'
  BY <1>1, DocumentMoves, DocumentWrites DEF DocumentStep
<1>2. CASE UNCHANGED <<current, doc, vec, job>>
  BY <1>2 DEF DocumentsInv, OnlyDocuments, Exclusive, WrittenFit, RowsFit, Holds, Exists, Admitted, Purging, Rows,
              Resegments, Parsed, Touches, Fits
<1> QED BY <1>1, <1>2, DocumentStepsOnly

\* However many requests and pipelines change documents at a time, and fail to
\* parse or embed: once nothing works on a ready document, the published version
\* holds exactly the chunks stored for it (run_upload_pipeline,
\* run_resegment_pipeline, delete_document).
THEOREM OverlappingRequestsSearchable == ASSUME DocumentBase PROVE Spec => []ReadySearchable
<1>1. Init => DocumentsInv
  BY DocumentsStart
<1>2. IndexInv /\ DocumentsInv /\ [Next]_vars => DocumentsInv'
  BY DocumentsKept
<1>3. DocumentsInv => ReadySearchable
  BY DEF DocumentsInv, RowsFit, ReadySearchable, Quiet, Touches, Fits
<1> QED BY <1>1, <1>2, <1>3, IndexInvariant, PTL DEF Spec

-----------------------------------------------------------------------------
(* One request at a time *)

\* Every operation but the deletion of single vectors, from any start; parsing
\* may fail.
OneAtATime ==
    /\ \E j : Jobs = {j}
    /\ "disable" \notin Operations /\ Faults \subseteq {"parse"} /\ MaxCrashes = 0

\* Where the requests of a kind can be.
Course(j) ==
    \/ job[j].kind = "none" /\ job[j].pc = "idle"
    \/ job[j].kind \in DocKinds \ {"disable"} /\ job[j].pc \in DocumentWork \ {"idle"}
    \/ job[j].kind = "rollback" /\ job[j].pc \in {"committed", "looping"} \cup AtWork
    \/ job[j].kind = "revectorize"
       /\ job[j].pc \in {"admitted", "enqueued", "started", "looping", "switched"} \cup AtWork

\* The pipeline works on the row as it is, and has embedded what it will commit
\* into the version that will be read.
LoadedRow(j) ==
    LET d == job[j].doc IN
    /\ job[j].pc \in AtWork => job[j].seen = doc[d] /\ Exists(d)
    /\ job[j].pc \in {"working", "written"} => doc[d].status # "archived"
    /\ job[j].pc = "purged" => \A v \in Version : vec[v][d] = {}
    /\ job[j].pc = "written" =>
         /\ job[j].ver \in Version /\ vec[job[j].ver][d] = Rows(j) /\ job[j].active = current
         /\ ~IsKbJob(j) /\ current # 0 => job[j].ver = current
    /\ ~IsKbJob(j) /\ job[j].pc \notin {"written", "failing"} => job[j].ver = 0

\* A rollback has met no failure it counts, and none of its documents is gone.
RebuildsAll(j) ==
    job[j].kind = "rollback" =>
      /\ job[j].errors = {}
      /\ \A d \in job[j].todo : doc[d].status \notin NoRow \cup {"archived"}
      /\ job[j].pc \in AtWork => doc[job[j].doc].status # "archived"
      /\ job[j].pc = "failing" => Resegments(j)

\* Only a retry leaves a row in parsing, while it runs.
Retrying(j, d) ==
    job[j].kind = "retry" /\ job[j].doc = d /\ job[j].pc \in {"queued"} \cup AtWork
Statuses(j) == \A d \in Docs :
    \/ doc[d].status \in NoRow \cup {"uploaded", "pending_segment", "ready", "error", "archived"}
    \/ doc[d].status = "parsing" /\ Retrying(j, d)

Purged == \A d \in Docs : doc[d].status \in {"gone", "archived"} => \A v \in Version : vec[v][d] = {}
Unpublished == current = 0 => \A d \in Docs : doc[d].status # "ready"

\* The published version fits, but for the document a request is changing; while
\* a version is built, the new one fits but for what is still to be done.
Served(j) == ~Rebuilding(j) => \A d \in Docs : Touches(j, d) \/ Fits(current, d)
Built(j) == Rebuilding(j) => \A d \in Docs :
    d \in job[j].todo \/ (job[j].doc = d /\ job[j].pc \in AtWork) \/ Fits(job[j].ver, d)

AloneInv(j) == Course(j) /\ LoadedRow(j) /\ RebuildsAll(j) /\ Statuses(j) /\ Purged /\ Unpublished
               /\ Served(j) /\ Built(j)
SequentialInv == \A j \in Jobs : AloneInv(j)

\* No pipeline is allowed to move an archived document, and a rollback may always
\* embed a ready one.
LEMMA Walks ==
    /\ ~UploadWalk("archived") /\ ~ResegmentWalkWithText("archived")
    /\ ~ResegmentWalkWithoutText("archived") /\ ~EmbedWalk("archived")
    /\ EmbedWalk("ready")
<1>1. ALLOWED_TRANSITIONS["archived"] = {}
  BY DEF ALLOWED_TRANSITIONS, RowStatus
<1>2. "vectorizing" \in ALLOWED_TRANSITIONS["ready"]
  BY DEF ALLOWED_TRANSITIONS, RowStatus
<1> QED BY <1>1, <1>2 DEF UploadWalk, ResegmentWalkWithText, ResegmentWalkWithoutText, EmbedWalk, Allowed

LEMMA ArchivedRejected ==
    ASSUME NEW j \in Jobs, job[j].seen.status = "archived" PROVE ~WalkAllowed(j)
  BY Walks DEF WalkAllowed

\* What the type says of an idle job.
LEMMA IdleRow ==
    /\ IdleJob.kind = "none" /\ IdleJob.pc = "idle" /\ IdleJob.doc = NoDoc /\ IdleJob.ver = 0
    /\ IdleJob.todo = {} /\ IdleJob.errors = {}
  BY DEF IdleJob

\* Steps that move the request and write nothing.
LEMMA AloneMoves ==
    ASSUME IndexInv, NEW j \in Jobs, AloneInv(j), UNCHANGED <<current, doc, vec>>,
           Course(j)', LoadedRow(j)', RebuildsAll(j)',
           \A d \in Docs : Retrying(j, d) => Retrying(j, d)' \/ ~Exists(d),
           Rebuilding(j)' <=> Rebuilding(j),
           ~Rebuilding(j) => \A d \in Docs : Touches(j, d) => Touches(j, d)' \/ ~Exists(d),
           Rebuilding(j) => /\ job'[j].ver = job[j].ver
                            /\ \A d \in job[j].todo : \/ d \in job'[j].todo \/ ~Exists(d)
                                                      \/ job'[j].doc = d /\ job'[j].pc \in AtWork
                            /\ job[j].pc \in AtWork => job'[j].pc \in AtWork /\ job'[j].doc = job[j].doc
    PROVE  AloneInv(j)'
<1>1. Statuses(j)'
  BY DEF AloneInv, Statuses, Exists, NoRow
<1>2. Purged' /\ Unpublished'
  BY DEF AloneInv, Purged, Unpublished
<1>3. Served(j)'
  BY DEF AloneInv, Served, Fits, Exists, NoRow
<1>4. Built(j)'
  BY DEF AloneInv, Built, Fits, Exists, NoRow
<1> QED BY <1>1, <1>2, <1>3, <1>4 DEF AloneInv

\* The request alone, and where it is: what the steps below start from.
LEMMA AloneRow ==
    ASSUME IndexInv, NEW j \in Jobs, AloneInv(j)
    PROVE  /\ job[j] \in JobState /\ job \in [Jobs -> JobState] /\ (WorksOnDoc(j) => job[j].doc \in Docs)
           /\ doc \in [Docs -> DocState] /\ vec \in [Version -> [Docs -> SUBSET Rules]]
           /\ (Rebuilding(j) => job[j].ver \in Version /\ job[j].ver # 0)
           /\ (job[j].pc = "idle" => job[j].kind = "none")
  BY JobRow DEF IndexInv, TypeOK, AloneInv, Course, DocKinds, KbKinds, DocumentWork, AtWork, RebuildOwnsVersion, Version

\* A request ends without having touched anything.
LEMMA AloneEnds ==
    ASSUME IndexInv, NEW j \in Jobs, AloneInv(j), UNCHANGED <<current, doc, vec>>, job'[j] = IdleJob,
           ~Rebuilding(j), \A d \in Docs : Retrying(j, d) \/ Touches(j, d) => ~Exists(d)
    PROVE  AloneInv(j)'
<1>1. Course(j)' /\ LoadedRow(j)' /\ RebuildsAll(j)' /\ ~Rebuilding(j)'
  BY IdleRow DEF Course, LoadedRow, RebuildsAll, Rebuilding, IsKbJob, KbKinds, AtWork
<1> QED BY <1>1, AloneMoves

\* Requests that only move, one by one.
LEMMA AloneRequestMoves ==
    ASSUME OneAtATime, IndexInv, NEW j \in Jobs, AloneInv(j),
           \/ \E d \in Docs, op \in Operations : AdmitDocRequest(j, op, d)
           \/ AdmitRevectorize(j) \/ Refuse(j) \/ AbortRequest(j) \/ LoadDoc(j)
           \/ StartRebuild(j) \/ StartRevectorize(j) \/ FinishRevectorize(j)
    PROVE  AloneInv(j)'
<1> USE AloneRow DEF kbVars
<1>c. Course(j) /\ LoadedRow(j) /\ RebuildsAll(j)
  BY DEF AloneInv
<1>1. ASSUME NEW d \in Docs, NEW op \in Operations, AdmitDocRequest(j, op, d) PROVE AloneInv(j)'
  <2>1. /\ job'[j].kind = op /\ job'[j].ver = 0 /\ job'[j].pc \in {"admitted", "queued"}
        /\ op \in DocKinds \ {"disable"} /\ job[j].pc = "idle" /\ UNCHANGED <<current, doc, vec>>
    BY <1>1 DEF AdmitDocRequest, IdleJob, Idle, OneAtATime
  <2>2. Course(j)' /\ LoadedRow(j)' /\ RebuildsAll(j)'
    BY <2>1 DEF Course, LoadedRow, RebuildsAll, DocumentWork, AtWork, DocKinds
  <2>3. ~Rebuilding(j) /\ ~Rebuilding(j)'
    BY <2>1 DEF Rebuilding, IsKbJob, KbKinds, DocKinds
  <2>4. \A e \in Docs : ~Retrying(j, e) /\ ~Touches(j, e)
    BY <2>1 DEF Retrying, Touches, AtWork
  <2> QED BY <2>1, <2>2, <2>3, <2>4, AloneMoves
<1>2. ASSUME AdmitRevectorize(j) PROVE AloneInv(j)'
  <2>1. /\ job'[j].kind = "revectorize" /\ job'[j].pc = "admitted" /\ job[j].pc = "idle"
        /\ UNCHANGED <<current, doc, vec>>
    BY <1>2 DEF AdmitRevectorize, IdleJob, Idle
  <2>2. Course(j)' /\ LoadedRow(j)' /\ RebuildsAll(j)'
    BY <2>1 DEF Course, LoadedRow, RebuildsAll, AtWork, IsKbJob, KbKinds
  <2>3. ~Rebuilding(j) /\ ~Rebuilding(j)'
    BY <2>1 DEF Rebuilding, IsKbJob, KbKinds, DocKinds
  <2>4. \A e \in Docs : ~Retrying(j, e) /\ ~Touches(j, e)
    BY <2>1 DEF Retrying, Touches, AtWork
  <2> QED BY <2>1, <2>2, <2>3, <2>4, AloneMoves
<1>3. ASSUME Refuse(j) \/ AbortRequest(j) PROVE AloneInv(j)'
  <2>1. UNCHANGED <<current, doc, vec>> /\ job'[j] = IdleJob
    BY <1>3 DEF Refuse, AbortRequest, EndJob
  <2>2. job[j].pc \in {"admitted", "purged"} /\ (job[j].pc = "purged" => ~Exists(job[j].doc))
    BY <1>3 DEF Refuse, AbortRequest, Admitted, OneAtATime
  <2>3. ~Rebuilding(j)
    BY <1>c, <2>2 DEF Course, Rebuilding, IsKbJob, KbKinds, DocKinds, AtWork
  <2>4. \A e \in Docs : Retrying(j, e) \/ Touches(j, e) => ~Exists(e)
    BY <2>2 DEF Retrying, Touches, AtWork
  <2> QED BY <2>1, <2>3, <2>4, AloneEnds
<1>4. ASSUME LoadDoc(j) PROVE AloneInv(j)'
  <2>1. job[j].pc = "queued" /\ job[j].kind \in DocKinds \ {"disable"} /\ UNCHANGED <<current, doc, vec>>
    BY <1>c, <1>4 DEF LoadDoc, Course, AtWork
  <2>2. ~Rebuilding(j) /\ \A e \in Docs : ~Touches(j, e)
    BY <2>1 DEF Rebuilding, IsKbJob, KbKinds, DocKinds, Touches
  <2>3. CASE ~Exists(job[j].doc)
    <3>1. job'[j] = IdleJob
      BY <1>4, <2>3 DEF LoadDoc
    <3>2. \A e \in Docs : Retrying(j, e) => ~Exists(e)
      BY <2>3 DEF Retrying
    <3> QED BY <2>1, <2>2, <3>1, <3>2, AloneEnds
  <2>4. CASE Exists(job[j].doc)
    <3>1. /\ job'[j].pc = "loaded" /\ job'[j].seen = doc[job[j].doc] /\ job'[j].kind = job[j].kind
          /\ job'[j].doc = job[j].doc /\ job'[j].ver = job[j].ver
      BY <1>4, <2>4 DEF LoadDoc, JobState
    <3>2. Course(j)' /\ RebuildsAll(j)' /\ ~Rebuilding(j)'
      BY <2>1, <3>1 DEF Course, RebuildsAll, Rebuilding, IsKbJob, KbKinds, DocKinds, DocumentWork, AtWork
    <3>3. LoadedRow(j)'
      BY <1>c, <2>1, <2>4, <3>1 DEF LoadedRow, Exists, IsKbJob, KbKinds, DocKinds
    <3>4. \A e \in Docs : Retrying(j, e) => Retrying(j, e)'
      BY <3>1 DEF Retrying, AtWork
    <3> QED BY <2>1, <2>2, <3>1, <3>2, <3>3, <3>4, AloneMoves
  <2> QED BY <2>3, <2>4
<1>5. ASSUME StartRebuild(j) \/ StartRevectorize(j) PROVE AloneInv(j)'
  <2>1. /\ UNCHANGED <<current, doc, vec>> /\ job'[j].kind = job[j].kind /\ job'[j].doc = job[j].doc
        /\ job'[j].ver = job[j].ver /\ job'[j].todo = job[j].todo /\ job'[j].errors = job[j].errors
    BY <1>5 DEF StartRebuild, StartRevectorize, JobState
  <2>2. \/ job[j].kind = "rollback" /\ job[j].pc = "committed" /\ job'[j].pc = "looping"
        \/ job[j].kind = "revectorize" /\ job[j].pc = "enqueued" /\ job'[j].pc = "started"
    BY <1>c, <1>5 DEF StartRebuild, StartRevectorize, Course, DocumentWork, AtWork, JobState
  <2>3. Course(j)' /\ LoadedRow(j)' /\ RebuildsAll(j)' /\ Rebuilding(j) /\ Rebuilding(j)'
    BY <1>c, <2>1, <2>2 DEF Course, LoadedRow, RebuildsAll, Rebuilding, IsKbJob, KbKinds, AtWork
  <2>4. \A e \in Docs : ~Retrying(j, e)
    BY <2>2 DEF Retrying
  <2> QED BY <2>1, <2>2, <2>3, <2>4, AloneMoves DEF AtWork
<1>6. ASSUME FinishRevectorize(j) PROVE AloneInv(j)'
  <2>1. UNCHANGED <<current, doc, vec>> /\ job'[j] = IdleJob /\ job[j].pc = "switched"
    BY <1>6 DEF FinishRevectorize, EndJob
  <2>2. ~Rebuilding(j) /\ \A e \in Docs : ~Retrying(j, e) /\ ~Touches(j, e)
    BY <2>1 DEF Rebuilding, Retrying, Touches, AtWork
  <2> QED BY <2>1, <2>2, AloneEnds
<1> QED BY <1>1, <1>2, <1>3, <1>4, <1>5, <1>6

\* Pipelines that only move, one by one.
LEMMA AlonePipelineMoves ==
    ASSUME OneAtATime, IndexInv, NEW j \in Jobs, AloneInv(j),
           (\E d \in Docs : LoadNext(j, d)) \/ TakeRow(j) \/ RejectTransition(j) \/ PipelineFails(j)
    PROVE  AloneInv(j)'
<1> USE AloneRow DEF kbVars
<1>c. Course(j) /\ LoadedRow(j) /\ RebuildsAll(j) /\ Statuses(j)
  BY DEF AloneInv
<1>1. ASSUME NEW d \in Docs, LoadNext(j, d) PROVE AloneInv(j)'
  <2>1. /\ job[j].kind \in KbKinds /\ job[j].pc = "looping" /\ d \in job[j].todo /\ UNCHANGED <<current, doc, vec>>
        /\ job'[j].kind = job[j].kind /\ job'[j].ver = job[j].ver /\ job'[j].todo = job[j].todo \ {d}
    BY <1>c, <1>1 DEF LoadNext, Course, DocumentWork, AtWork, KbKinds, JobState
  <2>2. CASE Exists(d)
    <3>1. /\ job'[j].pc = "loaded" /\ job'[j].doc = d /\ job'[j].seen = doc[d] /\ job'[j].errors = job[j].errors
      BY <1>1, <2>2 DEF LoadNext, JobState
    <3>2. Course(j)' /\ Rebuilding(j) /\ Rebuilding(j)'
      BY <1>c, <2>1, <3>1 DEF Course, Rebuilding, IsKbJob, KbKinds, AtWork
    <3>3. LoadedRow(j)' /\ RebuildsAll(j)'
      BY <1>c, <2>1, <2>2, <3>1 DEF LoadedRow, RebuildsAll, Exists, IsKbJob, KbKinds, AtWork
    <3>4. \A e \in Docs : ~Retrying(j, e)
      BY <2>1 DEF Retrying, KbKinds
    <3> QED BY <2>1, <3>1, <3>2, <3>3, <3>4, AloneMoves DEF AtWork
  <2>3. CASE ~Exists(d)
    <3>1. job[j].kind = "revectorize"
      BY <1>c, <2>1, <2>3 DEF RebuildsAll, Exists, KbKinds
    <3>2. job'[j].pc = "looping" /\ job'[j].doc = job[j].doc
      BY <1>1, <2>3 DEF LoadNext, JobState
    <3>3. Course(j)' /\ LoadedRow(j)' /\ RebuildsAll(j)' /\ Rebuilding(j) /\ Rebuilding(j)'
      BY <2>1, <3>1, <3>2 DEF Course, LoadedRow, RebuildsAll, Rebuilding, IsKbJob, KbKinds, AtWork
    <3>4. \A e \in Docs : ~Retrying(j, e)
      BY <2>1 DEF Retrying, KbKinds
    <3> QED BY <2>1, <2>3, <3>2, <3>3, <3>4, AloneMoves DEF AtWork
  <2> QED BY <2>2, <2>3
<1>2. ASSUME TakeRow(j) \/ RejectTransition(j) \/ PipelineFails(j) PROVE AloneInv(j)'
  <2>1. /\ job[j].pc \in {"loaded", "working"} /\ UNCHANGED <<current, doc, vec>>
        /\ job'[j].kind = job[j].kind /\ job'[j].ver = job[j].ver /\ job'[j].todo = job[j].todo
        /\ job'[j].errors = job[j].errors /\ job'[j].seen = job[j].seen /\ job'[j].doc = job[j].doc
    BY <1>2 DEF TakeRow, RejectTransition, PipelineFails, JobState, OneAtATime
  <2>2. job'[j].pc \in {"working", "failing"}
    BY <1>2 DEF TakeRow, RejectTransition, PipelineFails, JobState
  <2>3. job[j].seen = doc[job[j].doc] /\ Exists(job[j].doc) /\ job[j].doc \in Docs
    BY <1>c, <2>1 DEF LoadedRow, AtWork, WorksOnDoc
  <2>4. job'[j].pc = "working" => job[j].pc = "loaded" /\ WalkAllowed(j)
    BY <1>2 DEF TakeRow, RejectTransition, PipelineFails, JobState
  <2>5. job'[j].pc = "working" => doc[job[j].doc].status # "archived"
    BY <2>3, <2>4, ArchivedRejected
  <2>6. ASSUME job[j].kind = "rollback", job'[j].pc = "failing" PROVE Resegments(j)
    <3>1. CASE PipelineFails(j)
      BY <3>1 DEF PipelineFails, OneAtATime
    <3>2. CASE ~PipelineFails(j)
      <4>1. RejectTransition(j)
        <5>1. TakeRow(j) => job'[j].pc = "working"
          BY <2>3 DEF TakeRow, JobState
        <5> QED BY <1>2, <2>6, <3>2, <5>1
      <4>2. SUFFICES ASSUME ~Resegments(j) PROVE FALSE
        OBVIOUS
      <4>3. doc[job[j].doc].status = "ready"
        BY <1>c, <2>1, <2>3, <2>6, <4>2
           DEF Resegments, NeedResegment, Statuses, RebuildsAll, Exists, NoRow, Retrying, AtWork
      <4> QED BY <2>3, <2>6, <4>1, <4>2, <4>3, Walks DEF RejectTransition, WalkAllowed
    <3> QED BY <3>1, <3>2
  <2>7. Course(j)' /\ (Rebuilding(j)' <=> Rebuilding(j))
    BY <1>c, <2>1, <2>2 DEF Course, Rebuilding, IsKbJob, KbKinds, DocumentWork, AtWork
  <2>8. LoadedRow(j)'
    BY <1>c, <2>1, <2>2, <2>3, <2>5 DEF LoadedRow, Exists, IsKbJob, AtWork
  <2>9. RebuildsAll(j)'
    BY <1>c, <2>1, <2>2, <2>6 DEF RebuildsAll, AtWork, Resegments
  <2>10. \A e \in Docs : (Retrying(j, e) => Retrying(j, e)') /\ ~Touches(j, e)
    BY <2>1, <2>2 DEF Retrying, Touches, AtWork
  <2> QED BY <2>1, <2>2, <2>7, <2>8, <2>9, <2>10, AloneMoves DEF AtWork
<1> QED BY <1>1, <1>2

\* A document request that writes the row of its document.
LEMMA AloneRows ==
    ASSUME IndexInv, NEW j \in Jobs, AloneInv(j), UNCHANGED vec, NEW d \in Docs, d = job[j].doc,
           ~IsKbJob(j), Course(j)', LoadedRow(j)', ~IsKbJob(j)', ~Rebuilding(j)',
           \A e \in Docs \ {d} : doc'[e] = doc[e],
           current' = current \/ current = 0, current' = 0 => doc'[d].status # "ready",
           \/ doc'[d].status \in NoRow \cup {"uploaded", "pending_segment", "ready", "error", "archived"}
           \/ doc'[d].status = "parsing" /\ Retrying(j, d)',
           doc'[d].status \in {"gone", "archived"} => \A v \in Version : vec[v][d] = {},
           Touches(j, d)' \/ Fits(current, d)'
    PROVE  AloneInv(j)'
<1>1. RebuildsAll(j)' /\ Built(j)'
  BY DEF RebuildsAll, Built, IsKbJob, KbKinds
<1>2. Statuses(j)'
  BY DEF AloneInv, Statuses, Retrying
<1>3. Purged' /\ Unpublished'
  BY DEF AloneInv, Purged, Unpublished
<1>4. \A e \in Docs \ {d} : Fits(current, e)
  BY DEF AloneInv, Served, Rebuilding, Touches
<1>5. \A e \in Docs \ {d} : Fits(current, e)'
  BY <1>4 DEF AloneInv, Unpublished, Fits
<1>6. Served(j)'
  BY <1>5 DEF Served
<1> QED BY <1>1, <1>2, <1>3, <1>6 DEF AloneInv

\* A document request that writes the vectors of its document.
LEMMA AloneVectors ==
    ASSUME IndexInv, NEW j \in Jobs, AloneInv(j), UNCHANGED <<current, doc>>, NEW d \in Docs, d = job[j].doc,
           ~IsKbJob(j), job'[j].kind = job[j].kind, Course(j)', LoadedRow(j)',
           \A v \in Version, e \in Docs \ {d} : vec'[v][e] = vec[v][e],
           doc[d].status \in {"gone", "archived"} => \A v \in Version : vec'[v][d] = {},
           \A e \in Docs : Retrying(j, e) => Retrying(j, e)', Touches(j, d)'
    PROVE  AloneInv(j)'
<1>1. RebuildsAll(j)' /\ Built(j)'
  BY DEF RebuildsAll, Built, IsKbJob, KbKinds, Rebuilding
<1>2. Statuses(j)'
  BY DEF AloneInv, Statuses
<1>3. Purged' /\ Unpublished'
  BY DEF AloneInv, Purged, Unpublished
<1>4. \A e \in Docs \ {d} : Fits(current, e)
  BY DEF AloneInv, Served, Rebuilding, Touches
<1>5. \A e \in Docs \ {d} : Fits(current, e)'
  <2> SUFFICES ASSUME NEW e \in Docs \ {d}, doc[e].status = "ready" PROVE vec'[current][e] = doc[e].chunks
    BY DEF Fits
  <2>1. current \in Version
    BY KbIndexAssumption DEF AloneInv, Unpublished, IndexInv, TypeOK, Version
  <2> QED BY <1>4, <2>1 DEF Fits
<1>6. Served(j)'
  BY <1>5 DEF Served
<1> QED BY <1>1, <1>2, <1>3, <1>6 DEF AloneInv

\* Document requests that write, one by one.
LEMMA AloneWrites ==
    ASSUME OneAtATime, IndexInv, NEW j \in Jobs, AloneInv(j), ~IsKbJob(j),
           \/ \E rules \in Rules : CommitUpload(j, rules) \/ CommitRules(j, rules)
           \/ CommitRetry(j) \/ CommitNormalize(j) \/ PurgeForDelete(j) \/ CommitDelete(j)
           \/ Vectorize(j) \/ CommitPipeline(j) \/ HandleFailure(j)
    PROVE  AloneInv(j)'
<1> USE AloneRow DEF kbVars
<1>c. Course(j) /\ LoadedRow(j) /\ Statuses(j) /\ Purged /\ ~Rebuilding(j)
  BY DEF AloneInv, Rebuilding
<1>1. PICK d \in Docs : d = job[j].doc /\ WorksOnDoc(j)
  BY DEF WorksOnDoc, CommitUpload, CommitRules, CommitRetry, CommitNormalize, PurgeForDelete, CommitDelete,
         Vectorize, CommitPipeline, HandleFailure, Admitted, DocKinds
<1>2. doc[d] \in DocState /\ doc \in [Docs -> DocState]
  BY <1>1 DEF DocState
<1>3. job[j].kind \in DocKinds \ {"disable"}
  BY <1>1, <1>c DEF Course, WorksOnDoc, IsKbJob, KbKinds
<1>4. job[j].pc = "admitted" => \A e \in Docs : Fits(current, e)
  BY <1>c DEF AloneInv, Served, Touches
<1>5. job[j].pc \notin {"queued"} \cup AtWork => doc[d].status # "parsing"
  BY <1>c, <1>2 DEF Statuses, Retrying, NoRow
<1>6. job'[j] = IdleJob => Course(j)' /\ LoadedRow(j)' /\ ~IsKbJob(j)' /\ ~Rebuilding(j)'
  BY IdleRow DEF Course, LoadedRow, IsKbJob, KbKinds, Rebuilding, AtWork
<1>7. job'[j].kind \in DocKinds \ {"disable"} /\ job'[j].ver = 0 /\ job'[j].pc = "queued"
      => Course(j)' /\ LoadedRow(j)' /\ ~IsKbJob(j)' /\ ~Rebuilding(j)'
  BY DEF Course, LoadedRow, IsKbJob, KbKinds, DocKinds, Rebuilding, DocumentWork, AtWork
<1>8. job[j].pc \notin {"written", "failing"} => job[j].ver = 0
  BY <1>c DEF LoadedRow
<1>9. ASSUME NEW rules \in Rules, CommitUpload(j, rules) PROVE AloneInv(j)'
  <2>1. job'[j].kind = "upload" /\ job'[j].pc = "queued" /\ job'[j].ver = 0
    BY <1>1, <1>8, <1>9 DEF CommitUpload, Admitted, Queue, JobState
  <2>2. doc'[d].status = "uploaded" /\ (\A e \in Docs \ {d} : doc'[e] = doc[e]) /\ UNCHANGED <<current, vec>>
    BY <1>1, <1>2, <1>9 DEF CommitUpload, NewRow
  <2>3. Fits(current, d)'
    BY <2>2 DEF Fits
  <2> QED BY <1>1, <1>7, <2>1, <2>2, <2>3, AloneRows DEF DocKinds
<1>10. ASSUME NEW rules \in Rules, CommitRules(j, rules) PROVE AloneInv(j)'
  <2>1. job'[j] = IdleJob /\ job[j].pc = "admitted"
    BY <1>10 DEF CommitRules, EndJob, Admitted
  <2>2. /\ doc'[d].status = doc[d].status /\ doc'[d].chunks = doc[d].chunks
        /\ (\A e \in Docs \ {d} : doc'[e] = doc[e]) /\ UNCHANGED <<current, vec>>
    BY <1>1, <1>2, <1>10 DEF CommitRules, DocState
  <2>3. Fits(current, d)'
    BY <1>4, <2>1, <2>2 DEF Fits
  <2>4. /\ doc'[d].status \in NoRow \cup {"uploaded", "pending_segment", "ready", "error", "archived"}
        /\ current' = 0 => doc'[d].status # "ready"
        /\ doc'[d].status \in {"gone", "archived"} => \A v \in Version : vec[v][d] = {}
    BY <1>c, <1>5, <2>1, <2>2 DEF AtWork, Statuses, Purged, AloneInv, Unpublished
  <2> QED BY <1>1, <1>6, <2>1, <2>2, <2>3, <2>4, AloneRows
<1>11. ASSUME CommitRetry(j) PROVE AloneInv(j)'
  <2>1. job'[j].kind = "retry" /\ job'[j].pc = "queued" /\ job'[j].ver = 0 /\ job'[j].doc = d
    BY <1>1, <1>8, <1>11 DEF CommitRetry, Admitted, Queue, JobState
  <2>2. doc'[d].status = "parsing" /\ (\A e \in Docs \ {d} : doc'[e] = doc[e]) /\ UNCHANGED <<current, vec>>
    BY <1>1, <1>2, <1>11 DEF CommitRetry, DocState
  <2>3. Fits(current, d)' /\ Retrying(j, d)'
    BY <2>1, <2>2 DEF Fits, Retrying
  <2> QED BY <1>1, <1>7, <2>1, <2>2, <2>3, AloneRows DEF DocKinds
<1>12. ASSUME CommitNormalize(j) PROVE AloneInv(j)'
  <2>1. \/ job'[j] = IdleJob
        \/ job'[j].kind = "resegment" /\ job'[j].pc = "queued" /\ job'[j].ver = 0
    BY <1>8, <1>12 DEF CommitNormalize, Admitted, Queue, EndJob, JobState
  <2>2. /\ doc'[d].status = doc[d].status /\ doc'[d].chunks = doc[d].chunks /\ job[j].pc = "admitted"
        /\ (\A e \in Docs \ {d} : doc'[e] = doc[e]) /\ UNCHANGED <<current, vec>>
    BY <1>1, <1>2, <1>12 DEF CommitNormalize, DocState, Admitted
  <2>3. Fits(current, d)'
    BY <1>4, <2>2 DEF Fits
  <2>4. /\ doc'[d].status \in NoRow \cup {"uploaded", "pending_segment", "ready", "error", "archived"}
        /\ current' = 0 => doc'[d].status # "ready"
        /\ doc'[d].status \in {"gone", "archived"} => \A v \in Version : vec[v][d] = {}
    BY <1>c, <1>5, <2>2 DEF AtWork, Statuses, Purged, AloneInv, Unpublished
  <2> QED BY <1>1, <1>6, <1>7, <2>1, <2>2, <2>3, <2>4, AloneRows DEF DocKinds
<1>13. ASSUME PurgeForDelete(j) PROVE AloneInv(j)'
  <2>1. /\ job[j].kind = "delete" /\ job'[j].kind = "delete" /\ job'[j].pc = "purged"
        /\ job'[j].ver = 0 /\ job'[j].doc = d
    BY <1>1, <1>8, <1>13 DEF PurgeForDelete, Admitted, JobState
  <2>2. /\ \A v \in Version : vec'[v][d] = {} /\ \A e \in Docs \ {d} : vec'[v][e] = vec[v][e]
        /\ UNCHANGED <<current, doc>>
    BY <1>1, <1>13 DEF PurgeForDelete
  <2>3. Course(j)' /\ LoadedRow(j)' /\ Touches(j, d)' /\ \A e \in Docs : ~Retrying(j, e)
    BY <2>1, <2>2 DEF Course, LoadedRow, Touches, Retrying, DocKinds, DocumentWork, AtWork
  <2> QED BY <1>1, <2>1, <2>2, <2>3, AloneVectors
<1>14. ASSUME CommitDelete(j) PROVE AloneInv(j)'
  <2>1. job'[j] = IdleJob /\ \A v \in Version : vec[v][d] = {}
    BY <1>1, <1>c, <1>14 DEF CommitDelete, EndJob, LoadedRow
  <2>2. doc'[d].status = "gone" /\ (\A e \in Docs \ {d} : doc'[e] = doc[e]) /\ UNCHANGED <<current, vec>>
    BY <1>1, <1>2, <1>14 DEF CommitDelete, NewRow
  <2>3. Fits(current, d)'
    BY <2>2 DEF Fits
  <2> QED BY <1>1, <1>6, <2>1, <2>2, <2>3, AloneRows DEF NoRow
<1>15. ASSUME Vectorize(j) PROVE AloneInv(j)'
  <2>1. PICK v \in Version : v = TargetVersion(j)
    BY <1>15 DEF Vectorize
  <2>2. /\ job[j].pc = "working" /\ job'[j].pc = "written" /\ job'[j].ver = v /\ job'[j].active = current
        /\ job'[j].kind = job[j].kind /\ job'[j].doc = d /\ job'[j].seen = job[j].seen
        /\ UNCHANGED <<current, doc>>
    BY <1>1, <1>15, <2>1 DEF Vectorize, JobState
  <2>3. Embedded(j) = Rows(j)' /\ Resegments(j)
    BY <1>1, <2>2 DEF Embedded, Rows, Resegments, Parsed, IsKbJob, KbKinds
  <2>4. vec'[v][d] = Rows(j)' /\ \A w \in Version, e \in Docs \ {d} : vec'[w][e] = vec[w][e]
    BY <1>1, <1>15, <2>1, <2>3 DEF Vectorize, Revectorized
  <2>5. current # 0 => v = current
    BY <1>8, <2>1, <2>2 DEF TargetVersion
  <2>6. Exists(d) /\ job[j].seen = doc[d] /\ doc[d].status # "archived"
    BY <1>1, <1>c, <2>2 DEF LoadedRow, AtWork
  <2>7. LoadedRow(j)'
    BY <2>2, <2>4, <2>5, <2>6 DEF LoadedRow, Exists, AtWork
  <2>8. Course(j)' /\ Touches(j, d)'
    BY <1>3, <2>2 DEF Course, Touches, DocumentWork, AtWork
  <2>10. \A e \in Docs : Retrying(j, e) => Retrying(j, e)'
    BY <1>1, <2>2 DEF Retrying, AtWork
  <2>9. doc[d].status \notin {"gone", "archived"}
    BY <2>6 DEF Exists, NoRow
  <2> QED BY <1>1, <2>2, <2>4, <2>7, <2>8, <2>9, <2>10, AloneVectors
<1>16. ASSUME CommitPipeline(j) PROVE AloneInv(j)'
  <2>1. job'[j] = IdleJob /\ job[j].pc = "written"
    BY <1>16 DEF CommitPipeline, DoneWithDoc
  <2>2. /\ doc'[d].status = "ready" /\ doc'[d].chunks = Rows(j) /\ (\A e \in Docs \ {d} : doc'[e] = doc[e])
        /\ UNCHANGED vec
    BY <1>1, <1>2, <1>16 DEF CommitPipeline, NewRow
  <2>3. /\ job[j].ver \in Version /\ vec[job[j].ver][d] = Rows(j) /\ job[j].active = current
        /\ current # 0 => job[j].ver = current
    BY <1>1, <1>c, <2>1 DEF LoadedRow
  <2>4. current' = job[j].ver /\ (current' = current \/ current = 0) /\ current' # 0
    BY <1>16, <2>3 DEF CommitPipeline, Version
  <2>5. Fits(current, d)'
    BY <2>2, <2>3, <2>4 DEF Fits
  <2> QED BY <1>1, <1>6, <2>1, <2>2, <2>4, <2>5, AloneRows
<1>17. ASSUME HandleFailure(j) PROVE AloneInv(j)'
  <2>1. job'[j] = IdleJob /\ UNCHANGED <<current, vec>> /\ job[j].pc = "failing" /\ Resegments(j)
    BY <1>17 DEF HandleFailure, DoneWithDoc, Resegments, IsKbJob, KbKinds
  <2>2. doc'[d].status = "error" /\ (\A e \in Docs \ {d} : doc'[e] = doc[e])
    BY <1>1, <1>2, <1>c, <1>17, <2>1 DEF HandleFailure, LoadedRow, AtWork, DocState
  <2>3. Fits(current, d)'
    BY <2>2 DEF Fits
  <2> QED BY <1>1, <1>6, <2>1, <2>2, <2>3, AloneRows
<1> QED BY <1>9, <1>10, <1>11, <1>12, <1>13, <1>14, <1>15, <1>16, <1>17

\* What a rebuild does to the documents it works on.
LEMMA AloneRebuilds ==
    ASSUME OneAtATime, IndexInv, NEW j \in Jobs, AloneInv(j), IsKbJob(j),
           Vectorize(j) \/ CommitPipeline(j) \/ HandleFailure(j)
    PROVE  AloneInv(j)'
<1> USE AloneRow DEF kbVars
<1>c. Course(j) /\ LoadedRow(j) /\ RebuildsAll(j) /\ Statuses(j) /\ Purged /\ Unpublished /\ Built(j)
  BY DEF AloneInv
<1>1. job[j].pc \in {"working", "written", "failing"}
  BY DEF Vectorize, CommitPipeline, HandleFailure
<1>2. PICK d \in Docs : d = job[j].doc
  BY <1>1 DEF WorksOnDoc
<1>3. doc[d] \in DocState /\ job[j].ver \in Version /\ job[j].ver # 0 /\ Rebuilding(j)
      /\ job[j].seen = doc[d] /\ Exists(d)
  BY <1>1, <1>2, <1>c DEF Rebuilding, LoadedRow, AtWork
<1>4. \A e \in Docs \ {d} : e \in job[j].todo \/ Fits(job[j].ver, e)
  BY <1>2, <1>3, <1>c DEF Built
<1>5. \A e \in Docs : ~Retrying(j, e)
  BY DEF Retrying, IsKbJob, KbKinds
<1>6. ASSUME Vectorize(j) PROVE AloneInv(j)'
  <2>1. /\ job[j].pc = "working" /\ job'[j].pc = "written" /\ job'[j].ver = job[j].ver /\ job'[j].active = current
        /\ job'[j].kind = job[j].kind /\ job'[j].doc = d /\ job'[j].seen = job[j].seen
        /\ job'[j].todo = job[j].todo /\ job'[j].errors = job[j].errors
        /\ UNCHANGED <<current, doc>>
    BY <1>2, <1>3, <1>6 DEF Vectorize, TargetVersion, JobState
  <2>2. Embedded(j) = Rows(j)'
    BY <1>2, <1>3, <2>1 DEF Embedded, Rows, Resegments, Parsed
  <2>3. /\ vec'[job[j].ver][d] = Rows(j)'
        /\ \A w \in Version, e \in Docs \ {d} : vec'[w][e] = vec[w][e]
    BY <1>2, <1>3, <1>6, <2>2 DEF Vectorize, TargetVersion, Revectorized
  <2>4. doc[d].status \notin {"gone", "archived"}
    BY <1>2, <1>3, <1>c, <2>1 DEF LoadedRow, Exists, NoRow
  <2>5. Course(j)' /\ Rebuilding(j)'
    BY <1>c, <2>1 DEF Course, Rebuilding, IsKbJob, KbKinds, DocKinds, AtWork
  <2>10. RebuildsAll(j)'
    BY <1>2, <1>c, <2>1, <2>4 DEF RebuildsAll
  <2>6. LoadedRow(j)'
    BY <1>3, <2>1, <2>3, <2>4 DEF LoadedRow, Exists, IsKbJob, AtWork
  <2>7. Statuses(j)' /\ Unpublished' /\ Served(j)'
    BY <1>5, <1>c, <2>1, <2>5 DEF Statuses, Unpublished, Served
  <2>8. Purged'
    BY <1>c, <2>1, <2>3, <2>4 DEF Purged
  <2>9. Built(j)'
    BY <1>3, <1>4, <2>1, <2>3 DEF Built, Fits, AtWork
  <2> QED BY <2>5, <2>6, <2>7, <2>8, <2>9, <2>10 DEF AloneInv
\* The document is done, and the loop goes on.
<1>7. ASSUME UNCHANGED vec, \A e \in Docs \ {d} : doc'[e] = doc[e], doc'[d].status \in {"ready", "error"},
             doc'[d].status = "ready" => vec[job[j].ver][d] = doc'[d].chunks,
             job'[j] = DoneWithDoc(j, {}), (current' = current /\ doc'[d].status = "error") \/ current' # 0
      PROVE  AloneInv(j)'
  <2>1. /\ job'[j].kind = job[j].kind /\ job'[j].pc = "looping" /\ job'[j].ver = job[j].ver
        /\ job'[j].todo = job[j].todo /\ job'[j].errors = job[j].errors
    BY <1>7 DEF DoneWithDoc, JobState
  <2>2. Course(j)' /\ LoadedRow(j)' /\ Rebuilding(j)'
    BY <2>1 DEF Course, LoadedRow, Rebuilding, IsKbJob, KbKinds, AtWork
  <2>3. RebuildsAll(j)'
    BY <1>7, <1>c, <2>1 DEF RebuildsAll, AtWork, NoRow, JobState
  <2>4. Statuses(j)' /\ Purged' /\ Served(j)'
    BY <1>5, <1>7, <1>c, <2>2 DEF Statuses, Purged, Served
  <2>5. Unpublished'
    BY <1>7, <1>c DEF Unpublished
  <2>6. Built(j)'
    BY <1>4, <1>7, <2>1 DEF Built, Fits
  <2> QED BY <2>2, <2>3, <2>4, <2>5, <2>6 DEF AloneInv
<1>8. ASSUME CommitPipeline(j) PROVE AloneInv(j)'
  <2>1. job'[j] = DoneWithDoc(j, {}) /\ job[j].pc = "written"
    BY <1>8 DEF CommitPipeline
  <2>2. /\ doc'[d].status = "ready" /\ doc'[d].chunks = Rows(j) /\ (\A e \in Docs \ {d} : doc'[e] = doc[e])
        /\ UNCHANGED vec
    BY <1>2, <1>3, <1>8 DEF CommitPipeline, NewRow
  <2>3. vec[job[j].ver][d] = Rows(j) /\ job[j].active = current
    BY <1>2, <1>c, <2>1 DEF LoadedRow
  <2>4. current' # 0
    BY <1>3, <1>8, <2>3 DEF CommitPipeline
  <2> QED BY <1>7, <2>1, <2>2, <2>3, <2>4
<1>9. ASSUME HandleFailure(j) PROVE AloneInv(j)'
  <2>1. Resegments(j)
    BY <1>9, <1>c DEF HandleFailure, RebuildsAll, Resegments
  <2>2. job'[j] = DoneWithDoc(j, {}) /\ UNCHANGED <<current, vec>>
    BY <1>9, <2>1 DEF HandleFailure
  <2>3. doc'[d].status = "error" /\ (\A e \in Docs \ {d} : doc'[e] = doc[e])
    BY <1>2, <1>3, <1>9, <2>1 DEF HandleFailure, DocState
  <2> QED BY <1>7, <2>2, <2>3
<1> QED BY <1>6, <1>8, <1>9

\* How a rebuild starts and how it is published.
LEMMA AlonePublishes ==
    ASSUME OneAtATime, IndexInv, NEW j \in Jobs, AloneInv(j),
           \/ \E s \in snaps : RollbackAll(j, s) \/ \E ds \in SUBSET Docs : RollbackSome(j, s, ds)
           \/ \E patch \in Rules \cup {NoRules}, force \in BOOLEAN : EnqueueRevectorize(j, patch, force)
           \/ ReapplyRules(j) \/ FinishRollback(j) \/ SwitchRevectorize(j)
    PROVE  AloneInv(j)'
<1> USE AloneRow DEF kbVars
<1>c. Course(j) /\ LoadedRow(j) /\ RebuildsAll(j) /\ Statuses(j) /\ Purged /\ Unpublished /\ Built(j)
  BY DEF AloneInv
<1>1. ASSUME NEW s \in snaps, NEW chosen \in SUBSET Docs, NEW strays \in SUBSET Docs, Rollback(j, s, chosen, strays)
      PROVE  AloneInv(j)'
  <2>1. job[j].pc = "idle" /\ UNCHANGED current
    BY <1>1 DEF Rollback, MayRollback, Idle
  <2>2. /\ \A d \in chosen : doc'[d].status \in {"pending_segment", "uploaded"}
        /\ \A d \in Docs \ chosen : \/ d \in strays /\ doc'[d].status = "archived"
                                    \/ d \notin strays /\ doc'[d] = doc[d]
    BY <1>1 DEF Rollback, Restored, NewRow, DocState
  <2>3. \A v \in Version, d \in Docs : vec'[v][d] = IF d \in strays THEN {} ELSE vec[v][d]
    BY <1>1 DEF Rollback, WithoutVectors
  <2>4. /\ job'[j].kind = "rollback" /\ job'[j].pc = "committed" /\ job'[j].errors = {}
        /\ job'[j].todo = {d \in Docs : doc'[d].status \notin NoRow \cup {"archived"}}
    BY <1>1 DEF Rollback, Live, IdleJob
  <2>5. \A d \in Docs : ~Retrying(j, d)
    BY <2>1 DEF Retrying, AtWork
  <2>6. Course(j)' /\ LoadedRow(j)' /\ RebuildsAll(j)' /\ Rebuilding(j)'
    BY <2>4 DEF Course, LoadedRow, RebuildsAll, Rebuilding, IsKbJob, KbKinds, AtWork
  <2>7. Statuses(j)' /\ Unpublished'
    BY <1>c, <2>1, <2>2, <2>5 DEF Statuses, Unpublished
  <2>8. Purged'
    BY <1>c, <2>2, <2>3 DEF Purged
  <2>9. Built(j)' /\ Served(j)'
    BY <2>4, <2>6 DEF Built, Served, Fits, NoRow
  <2> QED BY <2>6, <2>7, <2>8, <2>9 DEF AloneInv
<1>2. ASSUME NEW s \in snaps, RollbackAll(j, s) \/ \E ds \in SUBSET Docs : RollbackSome(j, s, ds) PROVE AloneInv(j)'
  BY <1>1, <1>2 DEF RollbackAll, RollbackSome, Captured, Strays
\* New rules leave the status and the chunks of a document alone.
<1>3. ASSUME NEW ds, NEW patch, doc' = WithRules(ds, patch)
      PROVE  \A d \in Docs : doc'[d].status = doc[d].status /\ doc'[d].chunks = doc[d].chunks
  BY <1>3 DEF WithRules, DocState
<1>4. ASSUME NEW patch \in Rules \cup {NoRules}, NEW force \in BOOLEAN, EnqueueRevectorize(j, patch, force)
      PROVE  AloneInv(j)'
  <2>1. \A d \in Docs : doc'[d].status = doc[d].status /\ doc'[d].chunks = doc[d].chunks
    BY <1>3, <1>4 DEF EnqueueRevectorize
  <2>2. job'[j].kind = "revectorize" /\ job'[j].pc = "enqueued" /\ job[j].kind = "revectorize"
        /\ UNCHANGED <<current, vec>>
    BY <1>4 DEF EnqueueRevectorize, Admitted, JobState
  <2>3. \A d \in Docs : doc[d].status = "ready" => d \in job'[j].todo
    <3>1. job'[j].todo = {d \in Docs : Exists(d) /\ (force \/ doc[d].status \in {"ready", "error", "pending_segment"})}
      BY <1>4 DEF EnqueueRevectorize, JobState
    <3> QED BY <3>1 DEF Exists, NoRow
  <2>4. Course(j)' /\ LoadedRow(j)' /\ RebuildsAll(j)' /\ Rebuilding(j)'
    BY <2>2 DEF Course, LoadedRow, RebuildsAll, Rebuilding, IsKbJob, KbKinds, AtWork
  <2>5. Statuses(j)' /\ Unpublished' /\ Purged'
    BY <1>c, <2>1, <2>2 DEF Statuses, Unpublished, Purged, Retrying
  <2>6. Built(j)' /\ Served(j)'
    BY <2>1, <2>3, <2>4 DEF Built, Served, Fits
  <2> QED BY <2>4, <2>5, <2>6 DEF AloneInv
<1>5. ASSUME ReapplyRules(j) PROVE AloneInv(j)'
  <2>1. \A d \in Docs : doc'[d].status = doc[d].status /\ doc'[d].chunks = doc[d].chunks
    BY <1>3, <1>5 DEF ReapplyRules
  <2>2. /\ job[j].pc = "started" /\ job'[j].pc = "looping" /\ job'[j].kind = job[j].kind /\ job'[j].ver = job[j].ver
        /\ job'[j].todo = job[j].todo /\ UNCHANGED <<current, vec>>
    BY <1>5 DEF ReapplyRules, JobState
  <2>3. job[j].kind = "revectorize"
    BY <1>c, <2>2 DEF Course, DocumentWork, AtWork
  <2>4. Course(j)' /\ LoadedRow(j)' /\ RebuildsAll(j)' /\ Rebuilding(j) /\ Rebuilding(j)'
    BY <2>2, <2>3 DEF Course, LoadedRow, RebuildsAll, Rebuilding, IsKbJob, KbKinds, AtWork
  <2>5. Statuses(j)' /\ Unpublished' /\ Purged'
    BY <1>c, <2>1, <2>2, <2>3 DEF Statuses, Unpublished, Purged, Retrying
  <2>6. Built(j)' /\ Served(j)'
    BY <1>c, <2>1, <2>2, <2>4 DEF Built, Served, Fits, AtWork
  <2> QED BY <2>4, <2>5, <2>6 DEF AloneInv
<1>6. ASSUME FinishRollback(j) \/ SwitchRevectorize(j) PROVE AloneInv(j)'
  <2>1. /\ job[j].kind \in KbKinds /\ job[j].pc = "looping" /\ job[j].todo = {} /\ UNCHANGED <<doc, vec>>
        /\ current' = job[j].ver
    BY <1>6 DEF FinishRollback, SwitchRevectorize, LoopDone, KbKinds
  <2>2. Rebuilding(j) /\ current' \in Version /\ current' # 0
    BY <2>1 DEF Rebuilding, IsKbJob
  <2>3. \A d \in Docs : Fits(current, d)'
    BY <1>c, <2>1, <2>2 DEF Built, Fits, AtWork
  <2>4. job'[j] = IdleJob \/ (job'[j].kind = "revectorize" /\ job'[j].pc = "switched")
    <3>1. CASE FinishRollback(j)
      BY <3>1 DEF FinishRollback, EndJob
    <3>2. CASE SwitchRevectorize(j)
      BY <3>2 DEF SwitchRevectorize, LoopDone, JobState
    <3> QED BY <1>6, <3>1, <3>2
  <2>5. Course(j)' /\ LoadedRow(j)' /\ RebuildsAll(j)' /\ ~Rebuilding(j)'
    BY <2>4, IdleRow DEF Course, LoadedRow, RebuildsAll, Rebuilding, IsKbJob, KbKinds, AtWork
  <2>6. Statuses(j)' /\ Purged' /\ Unpublished'
    BY <1>c, <2>1, <2>2 DEF Statuses, Purged, Unpublished, Retrying, KbKinds
  <2>7. Served(j)' /\ Built(j)'
    BY <2>3, <2>5 DEF Served, Built
  <2> QED BY <2>5, <2>6, <2>7 DEF AloneInv
<1> QED BY <1>2, <1>4, <1>5, <1>6

\* The steps that cannot happen one at a time and without these faults.
LEMMA AloneNever ==
    ASSUME OneAtATime, IndexInv, NEW j \in Jobs, AloneInv(j)
    PROVE  /\ ~CommitDisable(j) /\ ~EmbedFails(j) /\ (\A s \in snaps : ~AbortRollback(j, s))
           /\ ~SwitchFails(j) /\ ~RevectorizeCrash(j) /\ ~LoseRebuild(j) /\ ~FailRollback(j)
           /\ \A lost \in SUBSET Jobs : ~Crash(lost)
<1>1. "db" \notin Faults /\ "embed" \notin Faults
  BY DEF OneAtATime
<1>2. ~CommitDisable(j)
  BY DEF AloneInv, Course, CommitDisable, Admitted, KbKinds
<1>3. ~FailRollback(j)
  BY <1>1 DEF AloneInv, RebuildsAll, FailRollback, LoopDone
<1>4. \A lost \in SUBSET Jobs : ~Crash(lost)
  BY DEF OneAtATime, Crash, IndexInv, TypeOK
<1> QED BY <1>1, <1>2, <1>3, <1>4 DEF EmbedFails, AbortRollback, SwitchFails, RevectorizeCrash, LoseRebuild

LEMMA AloneStart == OneAtATime /\ Init => SequentialInv
<1> SUFFICES ASSUME OneAtATime, Init, NEW j \in Jobs PROVE AloneInv(j)
  BY DEF SequentialInv
<1>1. job[j] = IdleJob /\ doc = [d \in Docs |-> BlankDoc] /\ vec = [v \in Version |-> [d \in Docs |-> {}]]
  BY DEF Init
<1>2. \A d \in Docs : doc[d].status = "new"
  BY <1>1 DEF BlankDoc, NewRow
<1>3. Course(j) /\ LoadedRow(j) /\ RebuildsAll(j) /\ ~Rebuilding(j)
  BY <1>1, IdleRow DEF Course, LoadedRow, RebuildsAll, Rebuilding, IsKbJob, KbKinds, AtWork
<1>4. Statuses(j) /\ Purged /\ Unpublished /\ Served(j) /\ Built(j)
  BY <1>2, <1>3 DEF Statuses, Purged, Unpublished, Served, Built, Fits, NoRow
<1> QED BY <1>3, <1>4 DEF AloneInv

LEMMA AloneKept == OneAtATime /\ IndexInv /\ SequentialInv /\ [Next]_vars => SequentialInv'
<1> SUFFICES ASSUME OneAtATime, IndexInv, SequentialInv, [Next]_vars, NEW j \in Jobs PROVE AloneInv(j)'
  BY DEF SequentialInv
<1>1. AloneInv(j) /\ \A k \in Jobs : k = j
  BY DEF SequentialInv, OneAtATime
<1>2. CASE UNCHANGED <<current, doc, vec, job>>
  BY <1>1, <1>2 DEF AloneInv, Course, LoadedRow, RebuildsAll, Statuses, Purged, Unpublished, Served, Built, Fits,
     Touches, Rebuilding, Retrying, Rows, Resegments, Parsed, Exists, IsKbJob
<1>3. CASE Client(j)
  BY <1>1, <1>3, AloneRequestMoves, AlonePublishes DEF Client
<1>4. CASE Request(j)
  <2>1. CASE \E patch \in Rules \cup {NoRules}, force \in BOOLEAN : EnqueueRevectorize(j, patch, force)
    BY <1>1, <2>1, AlonePublishes
  <2>2. CASE Refuse(j)
    BY <1>1, <2>2, AloneRequestMoves
  <2>3. CASE ~Refuse(j) /\ ~\E patch \in Rules \cup {NoRules}, force \in BOOLEAN : EnqueueRevectorize(j, patch, force)
    <3>1. ~IsKbJob(j)
      BY <1>1, <1>4, <2>3, AloneNever DEF Request, CommitUpload, CommitRules, CommitRetry, CommitNormalize,
         PurgeForDelete, CommitDelete, Admitted, IsKbJob, KbKinds, DocKinds, AloneInv, Course, DocumentWork, AtWork
    <3> QED BY <1>1, <1>4, <2>3, <3>1, AloneNever, AloneWrites DEF Request
  <2> QED BY <2>1, <2>2, <2>3
<1>5. CASE Background(j) \/ TakeRow(j)
  <2>1. CASE Vectorize(j) \/ CommitPipeline(j) \/ HandleFailure(j)
    BY <1>1, <2>1, AloneWrites, AloneRebuilds
  <2>2. CASE ~(Vectorize(j) \/ CommitPipeline(j) \/ HandleFailure(j))
    BY <1>1, <1>5, <2>2, AloneNever, AlonePipelineMoves, AloneRequestMoves, AlonePublishes DEF Background
  <2> QED BY <2>1, <2>2
<1>6. CASE Fault(j)
  BY <1>1, <1>6, AloneNever, AlonePipelineMoves, AloneRequestMoves DEF Fault
<1> QED BY <1>1, <1>2, <1>3, <1>4, <1>5, <1>6, AloneNever DEF Next, JobNext, TakeSnapshot, DeleteSnapshot, vars, kbVars

\* One request at a time, with its background work, from a base that is or is not
\* published, over every operation but the deletion of single vectors, and
\* whatever fails to parse: what searches read is what the ready documents store,
\* and a document that was deleted or archived is in no version
\* (run_upload_pipeline, run_rollback_rebuild, _run_kb_revectorize,
\* activate_index_version, switch_index_version).
THEOREM OneRequestKeepsVectors == ASSUME OneAtATime PROVE Spec => []VectorsSound
<1>1. Init => SequentialInv
  BY AloneStart
<1>2. IndexInv /\ SequentialInv /\ [Next]_vars => SequentialInv'
  BY AloneKept
<1>3. SequentialInv => VectorsSound
  <2> SUFFICES ASSUME SequentialInv PROVE VectorsSound
    OBVIOUS
  <2>1. PICK j : Jobs = {j}
    BY DEF OneAtATime
  <2>2. AloneInv(j)
    BY <2>1 DEF SequentialInv
  <2>3. \A d \in Docs : Quiet(d) => job[j].doc # d /\ ~IsKbJob(j)
    BY <2>1 DEF Quiet
  <2>4. ReadySearchable
    BY <2>2, <2>3 DEF ReadySearchable, AloneInv, Served, Rebuilding, Touches, Fits
  <2>5. NoOrphanVectors
    BY <2>2 DEF NoOrphanVectors, AloneInv, Purged
  <2> QED BY <2>4, <2>5 DEF VectorsSound
<1> QED BY <1>1, <1>2, <1>3, IndexInvariant, PTL DEF Spec
===============================================================================
