------------------------------- MODULE KbIndex -------------------------------
(***************************************************************************)
(* The index life cycle of ONE knowledge base: its documents (PostgreSQL), *)
(* the vectors of each index version (Chroma, not transactional), the      *)
(* index_versions table, and the work that moves them: document pipelines, *)
(* snapshot rollback with its rebuild and compensation, and whole-base     *)
(* re-vectorization.                                                       *)
(*                                                                         *)
(* A job slot is one HTTP request together with the background coroutine   *)
(* it starts.  One action is one piece of the coroutine between two points *)
(* where another request can be observed: a commit, or an await that has   *)
(* read state and not yet written it.  Writes to Chroma take effect at     *)
(* once, writes to PostgreSQL at the commit.                               *)
(***************************************************************************)
EXTENDS DocumentState, Naturals, FiniteSets

CONSTANTS
    Docs,         \* document ids
    Rules,        \* segment_rules values; a segmentation is named by its rules
    NoRules,      \* "this rebuild does not touch document rules"
    Jobs,         \* requests that can be in progress at once (a bound)
    MaxVersion,   \* index versions are 1..MaxVersion, 0 is "none" (a bound)
    StartVersion, \* 0: never published; 1: version 1 is current at the start
    Operations,   \* the requests clients send in this instance
    Faults,       \* of FaultNames: what may fail
    MaxSnapshots, \* stored snapshots (a bound)
    MaxCrashes    \* process crashes (a bound)

NoDoc == "no document"
Version == 1..MaxVersion
KbKinds == {"rollback", "revectorize"}
DocKinds == {"upload", "retry", "resegment", "rules", "normalize", "disable", "delete"}
OperationNames == DocKinds \cup {"snapshot", "rollback_all", "rollback_some", "revectorize"}
\* extraction or splitting; the embedding service; a database statement or commit
FaultNames == {"parse", "embed", "db"}

ASSUME KbIndexAssumption ==
    /\ MaxVersion \in Nat \ {0} /\ StartVersion \in {0, 1}
    /\ Docs # {} /\ NoDoc \notin Docs
    /\ Rules # {} /\ NoRules \notin Rules
    /\ Operations \subseteq OperationNames
    /\ Faults \subseteq FaultNames
    /\ MaxSnapshots \in Nat /\ MaxCrashes \in Nat

VARIABLES
    kbStatus,     \* knowledge_bases.status, of "active" and "vectorizing"
    current,      \* knowledge_bases.current_index_version; what searches read
    lastVersion,  \* version codes are fresh: the ones used so far are 1..lastVersion
    ivStatus,     \* index_versions.status per version
    ivCurrent,    \* versions whose index_versions.is_current is set
    doc,          \* documents and document_chunks, per id
    vec,          \* vec[v][d]: the segmentations of d embedded in collection v
    snaps,        \* contents of the active snapshots
    job,          \* requests in progress
    stuckTask,    \* a crash left a vectorize_tasks row pending or running
    crashes

vars == <<kbStatus, current, lastVersion, ivStatus, ivCurrent, doc, vec, snaps,
          job, stuckTask, crashes>>
registry == <<ivStatus, ivCurrent>>

-----------------------------------------------------------------------------
(* State *)

\* text: normalized_text is stored.  chunks: the segmentations that have rows
\* in document_chunks (normally one; several when cut over stale rows).
DocState == [status : RowStatus \cup NoRow, rules : Rules, text : BOOLEAN,
             chunks : SUBSET Rules]
NewRow(status, rules, text, chunks) ==
    [status |-> status, rules |-> rules, text |-> text, chunks |-> chunks]

\* A snapshot holds text and rules of the documents that are not archived.
SnapState == [in : BOOLEAN, rules : Rules, text : BOOLEAN]

Pcs == {"idle", "admitted", "purged", "queued", "loaded", "working", "written",
        "failing", "committed", "enqueued", "started", "looping", "switched"}
JobState == [kind : DocKinds \cup KbKinds \cup {"none"}, pc : Pcs,
             doc : Docs \cup {NoDoc}, seen : DocState, ver : 0..MaxVersion,
             active : 0..MaxVersion, todo : SUBSET Docs, errors : SUBSET Docs,
             patch : Rules \cup {NoRules}, protect : [Docs -> SnapState]]

SomeRules == CHOOSE r \in Rules : TRUE
BlankDoc == NewRow("new", SomeRules, FALSE, {})
BlankSnap == [in |-> FALSE, rules |-> SomeRules, text |-> FALSE]
IdleJob == [kind |-> "none", pc |-> "idle", doc |-> NoDoc, seen |-> BlankDoc,
            ver |-> 0, active |-> 0, todo |-> {}, errors |-> {},
            patch |-> NoRules, protect |-> [d \in Docs |-> BlankSnap]]

TypeOK ==
    /\ kbStatus \in {"active", "vectorizing"}
    /\ current \in 0..MaxVersion /\ lastVersion \in 0..MaxVersion
    /\ ivStatus \in [Version -> {"none", "building", "active", "obsolete", "failed"}]
    /\ ivCurrent \in SUBSET Version
    /\ doc \in [Docs -> DocState]
    /\ vec \in [Version -> [Docs -> SUBSET Rules]]
    /\ snaps \in SUBSET [Docs -> SnapState]
    /\ job \in [Jobs -> JobState]
    /\ stuckTask \in BOOLEAN /\ crashes \in Nat

Exists(d) == doc[d].status \notin NoRow
Idle(j) == job[j].pc = "idle"

\* A pipeline that flushed its first status change holds the row lock of its
\* document until it commits or rolls back; other writers of the row wait.
Holds(j, d) == job[j].doc = d /\ job[j].pc \in {"working", "written"}
Unlocked(d) == \A j \in Jobs : ~Holds(j, d)

\* assert_kb_mutable; read without a lock, and only when a request arrives.
Mutable == kbStatus # "vectorizing"

\* A vectorize_tasks row that is pending or running.
HasOpenTask(j) == job[j].kind \in KbKinds /\ job[j].pc \notin {"admitted", "committed"}
OpenTask == stuckTask \/ \E j \in Jobs : HasOpenTask(j)

Init ==
    /\ kbStatus = "active"
    /\ current = StartVersion /\ lastVersion = StartVersion
    /\ ivStatus = [v \in Version |-> IF v = StartVersion THEN "active" ELSE "none"]
    /\ ivCurrent = {v \in Version : v = StartVersion}
    /\ doc = [d \in Docs |-> BlankDoc]
    /\ vec = [v \in Version |-> [d \in Docs |-> {}]]
    /\ snaps = {}
    /\ job = [j \in Jobs |-> IdleJob]
    /\ stuckTask = FALSE /\ crashes = 0

-----------------------------------------------------------------------------
(* Requests *)

kbVars == <<kbStatus, current, lastVersion>>

\* The handler checked that the base is mutable and found its document; what it
\* writes comes after further awaits (the automatic snapshot).  re_segment has
\* nothing more to write: its background task is scheduled at once.
AdmitDocRequest(j, op, d) ==
    /\ op \in Operations \cap DocKinds
    /\ Idle(j) /\ Mutable
    /\ IF op = "upload" THEN doc[d].status = "new" /\ \A k \in Jobs : job[k].doc # d
                        ELSE Exists(d)
    /\ job' = [job EXCEPT ![j] = [IdleJob EXCEPT
                  !.kind = op, !.doc = d,
                  !.pc = IF op = "resegment" THEN "queued" ELSE "admitted"]]
    /\ UNCHANGED <<kbVars, registry, doc, vec, snaps, stuckTask, crashes>>

Admitted(j, op) == job[j].kind = op /\ job[j].pc = "admitted"
EndJob(j) == job' = [job EXCEPT ![j] = IdleJob]
Queue(j, kind) == job' = [job EXCEPT ![j].kind = kind, ![j].pc = "queued"]

\* upload_document commits the row; the API then schedules run_upload_pipeline.
CommitUpload(j, rules) ==
    /\ Admitted(j, "upload")
    /\ doc' = [doc EXCEPT ![job[j].doc] = NewRow("uploaded", rules, FALSE, {})]
    /\ Queue(j, "upload")
    /\ UNCHANGED <<kbVars, registry, vec, snaps, stuckTask, crashes>>

\* prepare_retry: only a document in error, which goes to parsing and is queued.
CommitRetry(j) ==
    LET d == job[j].doc IN
    /\ Admitted(j, "retry")
    /\ doc[d].status = "error" /\ Unlocked(d)
    /\ doc' = [doc EXCEPT ![d].status = "parsing"]
    /\ Queue(j, "retry")
    /\ UNCHANGED <<kbVars, registry, vec, snaps, stuckTask, crashes>>

CommitRules(j, rules) ==
    LET d == job[j].doc IN
    /\ Admitted(j, "rules")
    /\ Exists(d) /\ Unlocked(d)
    /\ doc' = [doc EXCEPT ![d].rules = rules]
    /\ EndJob(j)
    /\ UNCHANGED <<kbVars, registry, vec, snaps, stuckTask, crashes>>

\* normalize_document re-extracts a document that has no text, whatever its
\* status, and then schedules a re-segmentation; on stored text it is idempotent.
CommitNormalize(j) ==
    LET d == job[j].doc IN
    /\ Admitted(j, "normalize")
    /\ Exists(d) /\ Unlocked(d)
    /\ doc' = [doc EXCEPT ![d].text = TRUE]
    /\ IF doc[d].text THEN EndJob(j) ELSE Queue(j, "resegment")
    /\ UNCHANGED <<kbVars, registry, vec, snaps, stuckTask, crashes>>

\* update_chunk with is_enabled = false on one chunk of several: the handler
\* deletes every vector of the document, in every version.
CommitDisable(j) ==
    LET d == job[j].doc IN
    /\ Admitted(j, "disable")
    /\ Exists(d) /\ doc[d].chunks # {}
    /\ vec' = [v \in Version |-> [vec[v] EXCEPT ![d] = {}]]
    /\ EndJob(j)
    /\ UNCHANGED <<kbVars, registry, doc, snaps, stuckTask, crashes>>

\* delete_document deletes the vectors first; the row goes with the commit.
PurgeForDelete(j) ==
    LET d == job[j].doc IN
    /\ Admitted(j, "delete")
    /\ Exists(d)
    /\ vec' = [v \in Version |-> [vec[v] EXCEPT ![d] = {}]]
    /\ job' = [job EXCEPT ![j].pc = "purged"]
    /\ UNCHANGED <<kbVars, registry, doc, snaps, stuckTask, crashes>>

CommitDelete(j) ==
    LET d == job[j].doc IN
    /\ job[j].pc = "purged"
    /\ Exists(d) /\ Unlocked(d)
    /\ doc' = [doc EXCEPT ![d] = NewRow("gone", SomeRules, FALSE, {})]
    /\ EndJob(j)
    /\ UNCHANGED <<kbVars, registry, vec, snaps, stuckTask, crashes>>

\* 404 and 409: the row is gone, or not in the state the handler requires, by
\* the time it is read.
Refuse(j) ==
    /\ \/ /\ job[j].pc \in {"admitted", "purged"}
          /\ job[j].kind \in DocKinds \ {"upload"}
          /\ ~Exists(job[j].doc)
       \/ Admitted(j, "retry") /\ doc[job[j].doc].status # "error"
       \/ Admitted(j, "disable") /\ doc[job[j].doc].chunks = {}
    /\ EndJob(j)
    /\ UNCHANGED <<kbVars, registry, doc, vec, snaps, stuckTask, crashes>>

\* The transaction of a request fails before its commit; what it did to Chroma
\* is not undone.  Normalizing may also fail to extract the text.
AbortRequest(j) ==
    /\ \/ "db" \in Faults /\ job[j].pc \in {"admitted", "purged"}
       \/ "parse" \in Faults /\ Admitted(j, "normalize")
    /\ EndJob(j)
    /\ UNCHANGED <<kbVars, registry, doc, vec, snaps, stuckTask, crashes>>

-----------------------------------------------------------------------------
(* Document pipelines: run_upload_pipeline, run_resegment_pipeline, and the  *)
(* per-document step of run_rollback_rebuild and _run_kb_revectorize         *)

IsKbJob(j) == job[j].kind \in KbKinds

\* Where a job goes when it is done with its document.
DoneWithDoc(j, failed) ==
    IF IsKbJob(j) THEN [job[j] EXCEPT !.pc = "looping", !.doc = NoDoc, !.seen = BlankDoc,
                                      !.active = 0, !.errors = @ \cup failed]
                  ELSE IdleJob

\* Mutant: a document found in parsing is taken to be somebody else's work.
LoadDocUnlessParsing(j) ==
    LET d == job[j].doc IN
    /\ job[j].pc = "queued"
    /\ job' = [job EXCEPT ![j] = IF Exists(d) /\ doc[d].status # "parsing"
                                 THEN [@ EXCEPT !.pc = "loaded", !.seen = doc[d]] ELSE IdleJob]
    /\ UNCHANGED <<kbVars, registry, doc, vec, snaps, stuckTask, crashes>>

\* The coroutine reads the document (and its chunk rows) into its session; a
\* document that is gone ends the pipeline silently.
LoadDoc(j) ==
    LET d == job[j].doc IN
    /\ job[j].pc = "queued"
    /\ job' = [job EXCEPT ![j] = IF Exists(d) THEN [@ EXCEPT !.pc = "loaded", !.seen = doc[d]]
                                              ELSE IdleJob]
    /\ UNCHANGED <<kbVars, registry, doc, vec, snaps, stuckTask, crashes>>

\* The loop of a rebuild takes its next document; the rollback rebuild counts
\* a missing one as an error, the re-vectorization does not notice.
LoadNext(j, d) ==
    /\ job[j].pc = "looping" /\ d \in job[j].todo
    /\ LET rest == [job[j] EXCEPT !.todo = @ \ {d}] IN
       job' = [job EXCEPT ![j] =
                  IF Exists(d) THEN [rest EXCEPT !.pc = "loaded", !.doc = d, !.seen = doc[d]]
                  ELSE [rest EXCEPT !.errors = @ \cup (IF rest.kind = "rollback" THEN {d} ELSE {})]]
    /\ UNCHANGED <<kbVars, registry, doc, vec, snaps, stuckTask, crashes>>

\* run_rollback_rebuild re-segments a document restored without chunks, and
\* only embeds the existing chunks of the others.
NeedResegment(seen) ==
    seen.status \in {"pending_segment", "uploaded", "error"} \/ seen.chunks = {}
Resegments(j) == job[j].kind # "rollback" \/ NeedResegment(job[j].seen)

\* _ensure_parsed skips a row found in parsing, as if the text were there.
Parsed(j) == \/ job[j].kind \in {"upload", "retry"}
             \/ job[j].seen.text
             \/ job[j].seen.status # "parsing"

WalkAllowed(j) ==
    LET s == job[j].seen.status IN
    IF job[j].kind \in {"upload", "retry"} THEN UploadWalk(s)
    ELSE IF ~Resegments(j) THEN EmbedWalk(s)
    ELSE IF job[j].seen.text THEN ResegmentWalkWithText(s)
    ELSE ResegmentWalkWithoutText(s)

\* The first flushed status change takes the row lock; it fails when the row
\* was deleted since it was loaded.
TakeRow(j) ==
    LET d == job[j].doc IN
    /\ job[j].pc = "loaded" /\ WalkAllowed(j) /\ Unlocked(d)
    /\ job' = [job EXCEPT ![j].pc = IF Exists(d) THEN "working" ELSE "failing"]
    /\ UNCHANGED <<kbVars, registry, doc, vec, snaps, stuckTask, crashes>>

\* assert_transition raises.
RejectTransition(j) ==
    /\ job[j].pc = "loaded" /\ ~WalkAllowed(j)
    /\ job' = [job EXCEPT ![j].pc = "failing"]
    /\ UNCHANGED <<kbVars, registry, doc, vec, snaps, stuckTask, crashes>>

\* replace_chunks deletes the rows the session loaded and inserts the new
\* segmentation; rows inserted by someone else in between stay.
Rows(j) ==
    LET d == job[j].doc IN
    IF ~Resegments(j) THEN doc[d].chunks
    ELSE (doc[d].chunks \ job[j].seen.chunks)
           \cup (IF Parsed(j) THEN {job[j].seen.rules} ELSE {})
\* Mutant: the chunk rows are not refreshed before they are embedded.
EmbeddedStale(j) == job[j].seen.chunks
Embedded(j) == IF Resegments(j) THEN Rows(j) ELSE job[j].seen.chunks

\* version = index_version or active_version or a fresh one.
TargetVersion(j) == IF job[j].ver # 0 THEN job[j].ver
                    ELSE IF current # 0 THEN current ELSE lastVersion + 1

\* Mutant: preserve_other_versions is ignored.
RevectorizedEverywhere(j, v, embedded) ==
    [w \in Version |-> [vec[w] EXCEPT ![job[j].doc] = IF w = v THEN embedded ELSE {}]]

\* The vectors of d after _vectorize deleted the old ones (in version v only
\* when the rollback rebuild preserves the others) and upserted new ones.
Revectorized(j, v, embedded) ==
    [w \in Version |-> [vec[w] EXCEPT ![job[j].doc] =
        IF w = v THEN embedded
        ELSE IF job[j].kind = "rollback" THEN @ ELSE {}]]

Vectorize(j) ==
    LET v == TargetVersion(j) IN
    /\ job[j].pc = "working" /\ v \in Version
    /\ vec' = Revectorized(j, v, Embedded(j))
    /\ lastVersion' = IF v > lastVersion THEN v ELSE lastVersion
    /\ job' = [job EXCEPT ![j].pc = "written", ![j].ver = v, ![j].active = current]
    /\ UNCHANGED <<kbStatus, current, registry, doc, snaps, stuckTask, crashes>>

\* The embedding service or the upsert fails, after the old vectors are gone.
EmbedFails(j) ==
    /\ "embed" \in Faults
    /\ job[j].pc = "working" /\ Embedded(j) # {} /\ TargetVersion(j) \in Version
    /\ vec' = Revectorized(j, TargetVersion(j), {})
    /\ job' = [job EXCEPT ![j].pc = "failing"]
    /\ UNCHANGED <<kbVars, registry, doc, snaps, stuckTask, crashes>>

\* Parsing or segmentation raises, or the transaction fails at its commit.
PipelineFails(j) ==
    /\ \/ "parse" \in Faults /\ job[j].pc = "working" /\ Resegments(j)
       \/ "db" \in Faults /\ job[j].pc = "written"
    /\ job' = [job EXCEPT ![j].pc = "failing"]
    /\ UNCHANGED <<kbVars, registry, doc, vec, snaps, stuckTask, crashes>>

\* The commit makes the document ready; _segment writes the rules it loaded back
\* when it had to adapt them.  A pipeline that read no published version
\* publishes its own, over whatever is published by now.
CommitPipeline(j) ==
    LET d == job[j].doc IN
    /\ job[j].pc = "written"
    /\ \E rules \in {doc[d].rules} \cup (IF Resegments(j) THEN {job[j].seen.rules} ELSE {}) :
          doc' = [doc EXCEPT ![d] = NewRow("ready", rules,
                                           @.text \/ (Resegments(j) /\ Parsed(j)), Rows(j))]
    /\ current' = IF job[j].active = 0 THEN job[j].ver ELSE current
    /\ job' = [job EXCEPT ![j] = DoneWithDoc(j, {})]
    /\ UNCHANGED <<kbStatus, lastVersion, registry, vec, snaps, stuckTask, crashes>>

\* The except branches: a pipeline marks its document with error, whatever its
\* status, and returns normally, also to the rebuild that called it; only a
\* plain embedding step of the rollback rebuild reports its failure.
HandleFailure(j) ==
    LET d == job[j].doc IN
    /\ job[j].pc = "failing"
    /\ IF Resegments(j)
       THEN /\ Unlocked(d)
            /\ doc' = IF Exists(d) THEN [doc EXCEPT ![d].status = "error"] ELSE doc
            /\ job' = [job EXCEPT ![j] = DoneWithDoc(j, {})]
       ELSE /\ job' = [job EXCEPT ![j] = DoneWithDoc(j, {d})]
            /\ UNCHANGED doc
    /\ UNCHANGED <<kbVars, registry, vec, snaps, stuckTask, crashes>>

-----------------------------------------------------------------------------
(* Snapshots and rollback *)

\* Chunk inserts reference the base, so an uncommitted segmentation keeps its
\* row share-locked: SELECT ... FOR UPDATE waits for it.
BaseUnlocked == \A j \in Jobs : ~(job[j].pc = "written" /\ Resegments(j))

Capture == [d \in Docs |->
    IF Exists(d) /\ doc[d].status # "archived"
    THEN [in |-> TRUE, rules |-> doc[d].rules, text |-> doc[d].text] ELSE BlankSnap]
Captured(s) == {d \in Docs : s[d].in}

\* create_manual does not look at the status of the base.
TakeSnapshot ==
    /\ "snapshot" \in Operations /\ Cardinality(snaps \cup {Capture}) <= MaxSnapshots
    /\ snaps' = snaps \cup {Capture}
    /\ UNCHANGED <<kbVars, registry, doc, vec, job, stuckTask, crashes>>

DeleteSnapshot(s) ==
    /\ s \in snaps
    /\ snaps' = snaps \ {s}
    /\ UNCHANGED <<kbVars, registry, doc, vec, job, stuckTask, crashes>>

\* _restore_document_from_snap: no chunk rows; what is left to do depends on
\* whether the snapshot holds text.
Restored(s, d) == NewRow(IF s[d].text THEN "pending_segment" ELSE "uploaded",
                         s[d].rules, s[d].text, {})

\* A whole-base rollback archives the live documents the snapshot does not know.
Strays(s) == {d \in Docs : Exists(d) /\ doc[d].status # "archived" /\ ~s[d].in}
\* Mutant: only the published version is purged.
WithoutCurrentVectors(ds) ==
    [v \in Version |-> [d \in Docs |-> IF d \in ds /\ v = current THEN {} ELSE vec[v][d]]]
WithoutVectors(ds) == [v \in Version |-> [d \in Docs |-> IF d \in ds THEN {} ELSE vec[v][d]]]

\* The base is locked and must not be rebuilding; the rows to change must be free.
MayRollback(j, s, touched) ==
    /\ Idle(j) /\ Mutable /\ BaseUnlocked
    /\ s \in snaps /\ lastVersion < MaxVersion
    /\ \A d \in touched : Unlocked(d)

\* Mutant: only the restored documents are written into the new version.
LiveRestored(rows) == {d \in Docs : rows[d].status \in {"pending_segment", "uploaded"}}
Live(rows) == {d \in Docs : rows[d].status \notin NoRow \cup {"archived"}}

\* One transaction: restore the chosen documents, archive the strays (their
\* vectors go at once, in every version), open a fresh version and mark the
\* base as vectorizing.  Every live document is to be written into the version;
\* the protection snapshot is what compensation will restore.
Rollback(j, s, chosen, strays) ==
    LET rows == [d \in Docs |-> IF d \in chosen THEN Restored(s, d)
                                ELSE IF d \in strays THEN [doc[d] EXCEPT !.status = "archived"]
                                ELSE doc[d]]
    IN
    /\ MayRollback(j, s, chosen \cup strays)
    /\ doc' = rows
    /\ vec' = WithoutVectors(strays)
    /\ lastVersion' = lastVersion + 1
    /\ ivStatus' = [ivStatus EXCEPT ![lastVersion + 1] = "building"]
    /\ kbStatus' = "vectorizing"
    /\ job' = [job EXCEPT ![j] = [IdleJob EXCEPT
                  !.kind = "rollback", !.pc = "committed", !.ver = lastVersion + 1,
                  !.todo = Live(rows),
                  !.protect = Capture]]
    /\ UNCHANGED <<current, ivCurrent, snaps, stuckTask, crashes>>

RollbackAll(j, s) ==
    "rollback_all" \in Operations /\ Rollback(j, s, Captured(s), Strays(s))
RollbackSome(j, s, chosen) ==
    /\ "rollback_some" \in Operations
    /\ chosen # {} /\ chosen \subseteq Captured(s)
    /\ Rollback(j, s, chosen, {})

\* The transaction fails after the vectors of the strays were deleted.
AbortRollback(j, s) ==
    /\ "db" \in Faults /\ "rollback_all" \in Operations
    /\ MayRollback(j, s, Captured(s) \cup Strays(s))
    /\ vec' = WithoutVectors(Strays(s))
    /\ UNCHANGED <<kbVars, registry, doc, snaps, job, stuckTask, crashes>>

\* The API enqueues a task and run_rollback_rebuild begins.
StartRebuild(j) ==
    /\ job[j].kind = "rollback" /\ job[j].pc = "committed"
    /\ job' = [job EXCEPT ![j].pc = "looping"]
    /\ UNCHANGED <<kbVars, registry, doc, vec, snaps, stuckTask, crashes>>

LoopDone(j, kind) == job[j].kind = kind /\ job[j].pc = "looping" /\ job[j].todo = {}

\* activate_index_version: in one commit every active version becomes obsolete,
\* the target the only current one, and the base returns to service.
FinishRollback(j) ==
    LET v == job[j].ver IN
    /\ LoopDone(j, "rollback") /\ job[j].errors = {}
    /\ BaseUnlocked /\ ivStatus[v] # "failed"
    /\ ivStatus' = [w \in Version |-> IF w = v THEN "active"
                                      ELSE IF ivStatus[w] = "active" THEN "obsolete"
                                      ELSE ivStatus[w]]
    /\ ivCurrent' = {v}
    /\ current' = v /\ kbStatus' = "active"
    /\ EndJob(j)
    /\ UNCHANGED <<lastVersion, doc, vec, snaps, stuckTask, crashes>>

\* compensate_from_protection: the documents of the protection snapshot get text,
\* rules and chunk rows again, the others are archived; vectors are not touched.
Compensated(s) == [d \in Docs |->
    IF s[d].in
    THEN IF s[d].text THEN NewRow("ready", s[d].rules, TRUE, {s[d].rules})
                      ELSE NewRow("uploaded", s[d].rules, FALSE, {})
    ELSE IF Exists(d) THEN [doc[d] EXCEPT !.status = "archived"] ELSE doc[d]]

\* The loop counted an error, or the activation itself failed.
FailRollback(j) ==
    /\ LoopDone(j, "rollback") /\ (job[j].errors # {} \/ "db" \in Faults)
    /\ BaseUnlocked /\ \A d \in Docs : Unlocked(d)
    /\ ivStatus' = [ivStatus EXCEPT ![job[j].ver] = "failed"]
    /\ doc' = Compensated(job[j].protect)
    /\ kbStatus' = "active"
    /\ EndJob(j)
    /\ UNCHANGED <<current, lastVersion, ivCurrent, vec, snaps, stuckTask, crashes>>

-----------------------------------------------------------------------------
(* Whole-base re-vectorization *)

\* re_vectorize_kb tests the status and the open tasks without a lock.
AdmitRevectorize(j) ==
    /\ "revectorize" \in Operations
    /\ Idle(j) /\ Mutable /\ ~OpenTask
    /\ job' = [job EXCEPT ![j] = [IdleJob EXCEPT !.kind = "revectorize", !.pc = "admitted"]]
    /\ UNCHANGED <<kbVars, registry, doc, vec, snaps, stuckTask, crashes>>

WithRules(ds, patch) == [d \in Docs |-> IF d \in ds /\ Exists(d) /\ patch # NoRules
                                        THEN [doc[d] EXCEPT !.rules = patch] ELSE doc[d]]
MayPatch(ds, patch) == patch # NoRules => \A d \in ds : Unlocked(d)

\* Mutant: the version code is not unique.
EnqueueRevectorizeSameCode(j, patch, force) ==
    LET ds == {d \in Docs : Exists(d) /\ (force \/ doc[d].status \in {"ready", "error", "pending_segment"})}
    IN
    /\ Admitted(j, "revectorize") /\ lastVersion < MaxVersion /\ MayPatch(ds, patch)
    /\ doc' = WithRules(ds, patch)
    /\ ivStatus' = [ivStatus EXCEPT ![lastVersion + 1] = "building"]
    /\ job' = [job EXCEPT ![j] = [@ EXCEPT !.pc = "enqueued", !.ver = lastVersion + 1,
                                           !.todo = ds, !.patch = patch]]
    /\ UNCHANGED <<kbVars, ivCurrent, vec, snaps, stuckTask, crashes>>

\* Documents to redo (all of them with force_all), their new rules, the version
\* and the task are committed together, by enqueue_task.
EnqueueRevectorize(j, patch, force) ==
    LET ds == {d \in Docs : Exists(d) /\ (force \/ doc[d].status \in {"ready", "error", "pending_segment"})}
    IN
    /\ Admitted(j, "revectorize") /\ lastVersion < MaxVersion /\ MayPatch(ds, patch)
    /\ doc' = WithRules(ds, patch)
    /\ lastVersion' = lastVersion + 1
    /\ ivStatus' = [ivStatus EXCEPT ![lastVersion + 1] = "building"]
    /\ job' = [job EXCEPT ![j] = [@ EXCEPT !.pc = "enqueued", !.ver = lastVersion + 1,
                                           !.todo = ds, !.patch = patch]]
    /\ UNCHANGED <<kbStatus, current, ivCurrent, vec, snaps, stuckTask, crashes>>

\* The request commits the status of the base and creates the background task.
StartRevectorize(j) ==
    /\ job[j].pc = "enqueued"
    /\ kbStatus' = "vectorizing"
    /\ job' = [job EXCEPT ![j].pc = "started"]
    /\ UNCHANGED <<current, lastVersion, registry, doc, vec, snaps, stuckTask, crashes>>

\* _run_kb_revectorize writes the rules once more, then loops.
ReapplyRules(j) ==
    /\ job[j].pc = "started" /\ MayPatch(job[j].todo, job[j].patch)
    /\ doc' = WithRules(job[j].todo, job[j].patch)
    /\ job' = [job EXCEPT ![j].pc = "looping"]
    /\ UNCHANGED <<kbVars, registry, vec, snaps, stuckTask, crashes>>

\* switch_index_version, in a commit of its own.
SwitchRevectorize(j) ==
    LET v == job[j].ver IN
    /\ LoopDone(j, "revectorize") /\ BaseUnlocked
    /\ ivStatus' = [w \in Version |-> IF w = v THEN "active"
                                      ELSE IF w \in ivCurrent THEN "obsolete" ELSE ivStatus[w]]
    /\ ivCurrent' = {v}
    /\ current' = v
    /\ job' = [job EXCEPT ![j].pc = "switched"]
    /\ UNCHANGED <<kbStatus, lastVersion, doc, vec, snaps, stuckTask, crashes>>

\* The switch fails: its savepoint is rolled back, but not the status "active"
\* that was flushed before it, unless the whole transaction is lost.
SwitchFails(j) ==
    /\ "db" \in Faults
    /\ LoopDone(j, "revectorize")
    /\ \E left \in {"building", "active"} : ivStatus' = [ivStatus EXCEPT ![job[j].ver] = left]
    /\ job' = [job EXCEPT ![j].pc = "switched"]
    /\ UNCHANGED <<kbVars, ivCurrent, doc, vec, snaps, stuckTask, crashes>>

\* Mutant: the base is not given back.
FinishRevectorizeBusy(j) ==
    /\ job[j].pc = "switched"
    /\ EndJob(j)
    /\ UNCHANGED <<kbVars, registry, doc, vec, snaps, stuckTask, crashes>>

FinishRevectorize(j) ==
    /\ job[j].pc = "switched"
    /\ kbStatus' = "active"
    /\ EndJob(j)
    /\ UNCHANGED <<current, lastVersion, registry, doc, vec, snaps, stuckTask, crashes>>

\* The outer except of _run_kb_revectorize: the base returns to service, the
\* version stays building.
RevectorizeCrash(j) ==
    /\ "db" \in Faults
    /\ job[j].kind = "revectorize" /\ job[j].pc = "looping"
    /\ kbStatus' = "active"
    /\ EndJob(j)
    /\ UNCHANGED <<current, lastVersion, registry, doc, vec, snaps, stuckTask, crashes>>

-----------------------------------------------------------------------------
(* Lost work, and the specification *)

\* Statements outside every try block fail: the status of the base and the task
\* row stay as they were, and nothing will touch them again.
LoseRebuild(j) ==
    /\ "db" \in Faults
    /\ \/ job[j].pc \in {"committed", "enqueued", "started"}
       \/ job[j].kind = "rollback" /\ job[j].pc = "looping"
    /\ stuckTask' = (stuckTask \/ job[j].pc # "committed")
    /\ EndJob(j)
    /\ UNCHANGED <<kbVars, registry, doc, vec, snaps, crashes>>

\* A process dies with its requests and coroutines; row locks go with it.
Crash(lost) ==
    /\ crashes < MaxCrashes
    /\ lost # {} /\ \A j \in lost : ~Idle(j)
    /\ stuckTask' = (stuckTask \/ \E j \in lost : HasOpenTask(j))
    /\ job' = [j \in Jobs |-> IF j \in lost THEN IdleJob ELSE job[j]]
    /\ crashes' = crashes + 1
    /\ UNCHANGED <<kbVars, registry, doc, vec, snaps>>

Client(j) ==
    \/ \E d \in Docs, op \in Operations : AdmitDocRequest(j, op, d)
    \/ \E s \in snaps : RollbackAll(j, s) \/ \E ds \in SUBSET Docs : RollbackSome(j, s, ds)
    \/ AdmitRevectorize(j)

Request(j) ==
    \/ \E rules \in Rules : CommitUpload(j, rules) \/ CommitRules(j, rules)
    \/ CommitRetry(j) \/ CommitNormalize(j) \/ CommitDisable(j)
    \/ PurgeForDelete(j) \/ CommitDelete(j) \/ Refuse(j)
    \/ \E patch \in Rules \cup {NoRules}, force \in BOOLEAN : EnqueueRevectorize(j, patch, force)

Background(j) ==
    \/ LoadDoc(j) \/ (\E d \in Docs : LoadNext(j, d))
    \/ RejectTransition(j) \/ Vectorize(j) \/ CommitPipeline(j) \/ HandleFailure(j)
    \/ StartRebuild(j) \/ FinishRollback(j) \/ FailRollback(j)
    \/ StartRevectorize(j) \/ ReapplyRules(j) \/ SwitchRevectorize(j) \/ FinishRevectorize(j)

Fault(j) ==
    \/ AbortRequest(j) \/ EmbedFails(j) \/ PipelineFails(j)
    \/ (\E s \in snaps : AbortRollback(j, s))
    \/ SwitchFails(j) \/ RevectorizeCrash(j) \/ LoseRebuild(j)

JobNext(j) == Client(j) \/ Request(j) \/ Background(j) \/ TakeRow(j) \/ Fault(j)

Next ==
    \/ \E j \in Jobs : JobNext(j)
    \/ TakeSnapshot \/ (\E s \in snaps : DeleteSnapshot(s))
    \/ \E lost \in SUBSET Jobs : Crash(lost)

Spec == Init /\ [][Next]_vars

\* A coroutine that can go on does; PostgreSQL grants a row lock in the order
\* it was asked for, so a waiter is not passed over for ever.
Fairness == \A j \in Jobs : WF_vars(Request(j) \/ Background(j)) /\ SF_vars(TakeRow(j))
FairSpec == Spec /\ Fairness

-----------------------------------------------------------------------------
(* Properties *)

\* No request or pipeline is working on d, and no rebuild is in progress.
Quiet(d) == \A j \in Jobs : job[j].doc # d /\ ~IsKbJob(j)

\* Whenever nothing is working on a document that is ready, the version that
\* searches read holds exactly the segmentations stored for it: ready means
\* searchable, and by the chunks a citation will be resolved to.
ReadySearchable ==
    current # 0 =>
        \A d \in Docs : doc[d].status = "ready" /\ Quiet(d) => vec[current][d] = doc[d].chunks

\* A document that was deleted or archived is in no version: nothing can bring
\* it back into an answer by publishing an older or newer index.
NoOrphanVectors ==
    \A d \in Docs : doc[d].status \in {"gone", "archived"} /\ Quiet(d)
                        => \A v \in Version : vec[v][d] = {}

\* Both together: an answer finds what is there, and nothing else.
VectorsSound == ReadySearchable /\ NoOrphanVectors

\* At most one version is marked current, and its row is active.
SingleCurrent ==
    /\ \A v, w \in ivCurrent : v = w
    /\ \A v \in ivCurrent : ivStatus[v] = "active"

\* The pointer searches follow and the registry name the same version, in a base
\* whose published version has a row.
PointerMatchesRegistry == StartVersion = 1 => ivCurrent = {current}

\* A rebuild between the commit that opened its version and its switch.
Rebuilding(j) == IsKbJob(j) /\ job[j].pc \notin {"admitted", "switched"}

\* Rebuilds do not share versions: whatever overlaps, each one that may still
\* publish owns a version that nobody else builds, published or gave up.
RebuildOwnsVersion ==
    /\ \A j \in Jobs : Rebuilding(j) =>
          job[j].ver \in Version /\ job[j].ver <= lastVersion /\ ivStatus[job[j].ver] = "building"
    /\ \A j, k \in Jobs : Rebuilding(j) /\ Rebuilding(k) /\ job[j].ver = job[k].ver => j = k

\* A version code that was not handed out has no row.
FreshVersions == \A v \in Version : v > lastVersion => ivStatus[v] = "none"

\* A job that is working on a document has one.
WorksOnDoc(j) ==
    \/ job[j].pc \in {"purged", "queued", "loaded", "working", "written", "failing"}
    \/ job[j].pc = "admitted" /\ job[j].kind \in DocKinds
AtDocument == \A j \in Jobs : WorksOnDoc(j) => job[j].doc \in Docs

\* The inductive invariant behind SingleCurrent and the registry.
IndexInv == TypeOK /\ AtDocument /\ FreshVersions /\ RebuildOwnsVersion /\ SingleCurrent

\* The table of versions implements the registry.  A row left "active" by a
\* failed switch is not current and never will be: it counts as retired.
Phase == [v \in Version |-> IF ivStatus[v] = "none" THEN "unused"
                            ELSE IF ivStatus[v] = "building" THEN "building"
                            ELSE IF v \in ivCurrent THEN "published" ELSE "retired"]
Registry == INSTANCE IndexRegistry WITH phase <- Phase
RegistryRefined == Registry!RegistrySpec

\* "Only the target version's collection is written, the one in use is not
\* disturbed": while a rollback rebuild embeds, searches keep what they had.
RebuildLeavesPublished ==
    [][\A j \in Jobs : job[j].kind = "rollback" /\ job[j].pc = "working" /\ job'[j] # job[j]
                           /\ current \in Version \ {job[j].ver}
                               => vec'[current] = vec[current]]_vars

\* A rebuild that starts gives the base back: uploads are refused meanwhile.
BaseReturns == (kbStatus = "vectorizing") ~> (kbStatus = "active")

\* A document that a retry put back into parsing reaches another status.
RetrySettles == \A d \in Docs : (doc[d].status = "parsing") ~> (doc[d].status # "parsing")

\* run_rollback_rebuild: "if any document fails: no activation".
RollbackPublishesAll ==
    [][\A j \in Jobs : job[j].kind = "rollback" /\ current # job[j].ver /\ current' = job[j].ver
           => \A d \in Docs : Exists(d) => doc[d].status \in {"ready", "archived"}]_vars

=============================================================================
