# TLA+ models of the RAG knowledge-base backend

This directory holds TLA+ modules for the backend in `src/backend/app`, the TLC
configurations that check them on small instances, and TLAPS proofs about them.
`PROJECT.json` is the index: components, runs, the source lines each definition
stands for, the hazards the properties are aimed at, the mutants that show that
a property can fail, and the theorems.

    tlc -workers 2 -config kb_sequential.cfg MCKbIndex.tla     # one run
    tlapm KbIndex_proofs.tla                                    # one proof module

Paths below are relative to `src/backend/app` unless they say otherwise.

## 1. The system

A FastAPI backend (async SQLAlchemy on PostgreSQL at READ COMMITTED, Chroma for
vectors, Redis for caches, locks and sessions, MinIO for files, external LLM and
embedding services) behind a JavaScript frontend. Several replicas may run
(`docker-compose.scale.yml`); background work is done by coroutines of the
process that took the request.

| component | state | operations | talks to | models |
|---|---|---|---|---|
| Document state machine `services/document_state.py` | `documents.status` | `apply_status` | every pipeline | `DocumentState` |
| Document requests `services/document_service.py`, `api/v1/documents.py` | `documents`, `document_chunks`, MinIO objects | upload, retry, re-segment, change rules, normalize, disable a chunk, delete | schedule pipelines; delete vectors | `KbIndex` |
| Document pipelines `services/document_pipeline.py` | the same rows, Chroma collections, `doc.index_version` | upload pipeline, re-segment pipeline, `_vectorize`, rollback rebuild | read and publish `knowledge_bases.current_index_version`; enqueue FAQ jobs; invalidate the question cache | `KbIndex` |
| Index versions `services/index_switch.py`, `services/knowledge_base.py`, `services/task_queue.py` | `index_versions`, `vectorize_tasks`, `knowledge_bases.status` and `.current_index_version` | `re_vectorize_kb`, `_run_kb_revectorize`, `switch_index_version` | run the re-segment pipeline for each document | `KbIndex`, `IndexRegistry` |
| Snapshots `services/snapshot.py`, `api/v1/snapshots.py` | `snapshots` and their document rows | create, delete, rollback (whole base or chosen documents), activate, compensate | open a version; start the rollback rebuild; restore FAQ, permissions, settings | `KbIndex`, `FaqBase` |
| Snapshot retention `repositories/snapshot.py`, `services/snapshot_hooks.py` | `snapshots` | automatic snapshots, expiry by age, eviction by count | snapshots | `Retention` |
| FAQ generation `services/kb_faq_service.py`, `services/faq_verify_service.py`, `api/v1/kb_faqs.py` | `kb_faqs`, an in-memory queue and worker per base, a Redis lock per base, Redis entries per question, the verification queue | enqueue, generate, upsert, split, revoke, prune, restore, look up, verify, administer | pipelines, answering, language model | `FaqDrafts`, `FaqQueue`, `FaqBase`, `FaqLookup`, `FaqVerify` |
| Question cache `services/qa_cache.py` | per-process dictionary (30 s), Redis entries, a build lock | get, put, acquire and release the build, invalidate by base | answering, pipelines, FAQ | `AnswerCache` |
| Sessions `memory/session_store.py`, `services/session_expiry.py`, `services/history_retention.py` | Redis context and summary, `qa_sessions` and messages | resolve, append a turn, summarize, trim, expire idle, delete | answering | `Sessions` |
| Answering `core/qa_pipeline.py`, `services/sticky_evidence.py` | the evidence of the last turn, the slots of the gate | ask, stream | all of the above | `AskFlow` |
| Retrieval `retrieval/*.py` | none | rewrite, expand, full-text, vector, rank fusion, rerank, threshold, second try | access, index versions | `Retrieval` |
| Chunking `services/chunking.py`, embedding `services/embedding.py` | none | split text, Markdown, tables and layouts; embed in batches; upsert | pipelines | `Chunking`, `Embedding` |
| Access `services/department.py`, `services/sensitivity_service.py`, `core/super_admin_policy.py` | departments, links, visibility, levels | filter hits, decide access, rename, guard the super administrator | retrieval, roles | `Departments`, `Accounts`, `AskFlow` |
| Users and roles `main.py`, `api/v1/users.py`, `api/v1/roles.py`, `api/v1/auth.py` | `users`, `roles`, permissions, levels, `audit_logs` | start of the service, register, create, change, delete | access | `Accounts` |
| Role cache `services/role_cache.py` and `_shadow` | rows per role, the shadow window in Redis | analyze documents or history, look up, close the window | answering | `RoleCaches`, `RoleShadow`, `AskFlow` |
| Model configuration `services/model_config.py` | `model_configs`, versions | create, change, set the default, publish, roll back | answering, embedding | `ModelConfigs` |
| External API and data sources `api/v1/external.py`, `services/data_source_service.py` | clients, sources, idempotency records | upload, import, administer | document requests | `ExternalApi` |
| Hit tests, evaluation, ratings `services/hit_test_service.py`, `services/ragas_evaluation.py`, `api/v1/qa.py` | test cases and runs, RAGAS runs, ratings and their facts | edit, run, compare, evaluate, rate | retrieval, FAQ | `HitTests`, `RagasRuns`, `Feedback` |
| Scheduling `services/scheduler.py`, `middleware/rate_limit.py`, `services/model_concurrency.py` | a semaphore, Redis counters | periodic loops, acquire and release, count | sessions, role cache, answering | `AskFlow`, `Sessions`, `RoleCaches` |
| Parsing, object storage, audit, monitoring, telemetry, prompts | files, log rows | - | - | none (section 7) |

What makes each of the stateful ones correct:

* *state machine and requests*: a document that is ready can be found by what is
  stored for it, one that was deleted or archived cannot; a retry leaves
  `parsing`; requests that overlap do not undo each other.
* *pipelines*: what is embedded is what is stored, in the version that searches
  read; a failure is visible and does not publish anything.
* *index versions*: one version is current, the pointer names it, it changes in
  one step, rebuilds that overlap do not mix versions, a version that was given
  up never returns, and a rebuild always gives the base back.
* *snapshots*: a rollback restores the chosen documents and carries the others
  into the new version; while it builds, searches keep what they had; if it
  fails, the documents are as before.
* *retention*: the limit holds but for what overlaps, and no snapshot in use is evicted.
* *FAQ*: one generation of a base at a time, no queued job is forgotten, no entry
  outlives its document or shows less restriction than it, a split can be taken back,
  and what Redis remembers never decides what is shown.
* *question cache*: an answer is served only to requests like the one it was made
  for; an invalidation leaves nothing outdated behind, and what slips in later
  dies out; nobody waits for ever for a builder.
* *sessions*: the hot context is the end of the history, what is trimmed is
  forgotten, and only the oldest turns are trimmed.
* *answering*: whatever an answer comes from, it cites what its reader may read; the
  slots of the model come back; the client is told what was kept.
* *retrieval, chunking, embedding*: splits cover the text, each text has its own vector;
  fusion respects the lists; what was found reaches the answer.
* *access and accounts*: columns follow links, a rename moves nobody, one super
  administrator, housekeeping takes nothing away.
* *services*: one default model, one document per idempotency key, question lists and
  evaluations as a whole, ratings counted as they are shown.

### What is hard here

* Coroutines interleave at every `await`, transactions of several replicas at
  every statement, and PostgreSQL only serializes what is locked. Most guards
  (`assert_kb_mutable`, the "no concurrent rebuild" test, the unpublished test in
  `_vectorize`) are reads without a lock, followed by awaits, followed by writes.
* Chroma is written inside PostgreSQL transactions but is not transactional:
  deletes and upserts are visible at once and survive a rollback.
* Failures are swallowed at several levels: a pipeline that fails marks its
  document and returns normally, also to the rebuild that called it.
* A rebuild is a request and a background coroutine with several commits.
  Nothing resumes it after a crash: the Redis list that `task_queue.py` pushes to
  has no consumer, and no startup code resets `vectorizing` bases or open tasks.
* Locks in Redis expire and are released by key, without an owner token.
* Rows are loaded, a model is called for seconds, and the row is written as it was
  loaded: verification, splits, generation, summaries.
* Queues, workers and counts live in the memory of each process; the periodic loops of
  several processes are not kept apart, because nothing calls `run_exclusive`.
* READ COMMITTED: a `DELETE` or `UPDATE` sees what was there when it began, waits, and
  looks again at what it had found, not at what came meanwhile.

## 2. Modules

The core: documents, versions, the answer of a question.

| module | what it is |
|---|---|
| `DocumentState` | the transition table and the walks the pipelines make through it |
| `KbIndex` | one knowledge base: documents, chunks, vectors per version, versions, snapshots, requests, pipelines, both kinds of rebuild, faults, crashes |
| `IndexRegistry` | the abstract specification of the index versions of a base |
| `AnswerCache` | the exact-answer cache for one question: two levels, build lock, requests, writers that invalidate, expiry |
| `Sessions` | the conversations of one identity: rows, messages, hot context, summaries, asks, trimming, expiry, deletion |
| `AskFlow` | an ask from question to answer, several at a time, with every source of an answer and the gate of the model |

FAQs.

| module | what it is |
|---|---|
| `FaqDrafts` | what a generation makes of a document before it writes rows: batches of chunks, answers of the model, checks, duplicates, review |
| `FaqQueue` | queue, worker and job statuses of each process, and the Redis lock between them |
| `FaqBase` | the rows: generation, splits and their revocation, levels, deletion of documents, snapshots, administrators |
| `FaqLookup` | a lookup through Redis entries and the table, against writers that clear the entries |
| `FaqVerify` | the queue, workers and daily limit of the verification, against what people decide |

Finding and cutting text.

| module | what it is |
|---|---|
| `Search` | the composition of the modules below with `FaqDrafts` and `FaqLookup`: in each behaviour one of them moves |
| `Chunking` | splits of text, Markdown, tables and layouts, with what they must keep |
| `Embedding` | batches, answers in any order or too short, the upsert |
| `Retrieval` | query processing, channels, fusion, reranking, threshold, second try |
| `Lists` | sorting, and the part of a list that satisfies a condition, as the two modules above use them |

Services.

| module | what it is |
|---|---|
| `Services` | the composition of the modules below: in each behaviour one of them moves, since they share no state |
| `Departments`, `Accounts`, `ModelConfigs` | who may search which base; users, roles and levels; the registry of models |
| `ExternalApi`, `Retention` | uploads and imports of other systems; how long snapshots are kept |
| `RoleCaches`, `RoleShadow` | the analyses that fill the cache of a role; the window in which it only counts |
| `HitTests`, `RagasRuns`, `Feedback` | question lists and their runs; evaluations; ratings of answers |

Proofs.

| module | about |
|---|---|
| `KbIndex_proofs` | `KbIndex`, `IndexRegistry` and the refinement between them |
| `Answers_proofs` | asks and the cache of their answers: `AskFlow`, `AnswerCache` |
| `Sessions_proofs`, `FaqBase_proofs` | the module of that name |
| `Search_proofs` | lists in general; `Retrieval`, `Embedding`, `FaqDrafts`, `FaqQueue`, `FaqLookup` |
| `Chunking_proofs` | `Chunking`, and `Search` itself; extends `Search_proofs` |
| `HitTests_proofs` | the services that work through lists: `HitTests`, `RagasRuns`, `ExternalApi` |
| `Services_proofs` | the other services, and `Services` itself |

The modules `MC...` give constants their values. `Services` and `Search` let one part move in each
behaviour, because products of parts that share no state would show nothing more. What these modules
sort, fold or compute recursively is written with functions that are built step by step, so that the proofs can speak of them.

### KbIndex and the code

State. `kbStatus` and `current` are the status and `current_index_version` of the
base, `ivStatus` and `ivCurrent` the columns `status` and `is_current` of
`index_versions`. `doc[d]` is a row with the facts the pipelines look at: status,
`segment_rules`, whether `normalized_text` is stored, and which segmentations have
chunk rows; a segmentation is named by the rules that made it. `vec[v][d]` says
which segmentations of `d` are in the Chroma collection of version `v`. `snaps` are
the contents of the snapshots. Version codes are random in the code (`uuid4`); here
they are handed out in order (`lastVersion`), which keeps what matters, that they
are fresh.

Processes. A job slot is one HTTP request and then the background coroutine it
starts. Its record holds the local variables that live across awaits: the
document as it was loaded (`seen`), the version chosen (`ver`), the published version
as it was read (`active`), the documents left (`todo`), those that failed (`errors`),
the new rules (`patch`) and the contents of the protection snapshot (`protect`).

Actions. An action is the code between two points where somebody else can see or
change what it works on: a commit, or an await between reading state and writing
what depends on it. `pc` names these points:

    document request     admitted -> (delete: purged ->) done | queued
    pipeline             queued -> loaded -> working -> written -> done | looping
                                   any failure -> failing -> done | looping
    rollback             committed -> looping -> ... -> done
    re-vectorization     admitted -> enqueued -> started -> looping -> ... -> switched -> done

* `AdmitDocRequest` is the check of the handler (`assert_kb_mutable`, 404); the
  `Commit...` action of each operation is the commit after its awaits, `Refuse` the
  409 and 404 that the second read gives.
* `TakeRow` is the first flush of a pipeline, an UPDATE: from here to the commit it
  holds the row lock (`Unlocked`), so it waits for others and others wait for it.
  Status changes in one transaction are one walk (`WalkAllowed`).
* `Vectorize` deletes and upserts vectors, at once, from the chunks the session
  loaded and replaced. `CommitPipeline` makes the row changes visible, and publishes
  the version when no published version was *read*.
* `Rollback` is one transaction: documents, strays, new version, status of the base.
  `StartRebuild`, `LoadNext` and the pipeline actions are `run_rollback_rebuild`;
  `FinishRollback` is `activate_index_version`, `FailRollback` the two failure branches,
  which end in `compensate_from_protection`.
* `EnqueueRevectorize`, `StartRevectorize`, `ReapplyRules`, `SwitchRevectorize` and
  `FinishRevectorize` are the commits of `re_vectorize_kb` and `_run_kb_revectorize`.
* Faults: parsing (`"parse"`), embedding or upsert (`"embed"`), a database statement or
  commit (`"db"`, which also stands for the victim of a deadlock), and `Crash` of any
  set of jobs.

Abstractions. Automatic snapshots before an operation have the effect of a manual one and
are covered by `TakeSnapshot`. `documents.index_version` is written but nothing the
model covers reads it. The reload of a document by `run_resegment_pipeline` inside a
rollback rebuild is one read with the test before it. Compensation that itself
fails only sets the status and is not distinguished. Re-parsing of unusable PDF text, the
embedding of chunks stored in old snapshots, and the restoring of permissions
and base settings are left out; `FaqBase` has the restoring of FAQs. A disabled chunk leaves its document with the
remaining ones; the model keeps the segmentation and drops the vectors, as
`update_chunk` does. `RollbackRequest.document_ids` is absent or not empty.

### IndexRegistry

Each version is unused, building, published or retired. It is opened once, published
or given up once, and publishing retires what was published in the same step. The
refinement mapping (`Phase`) reads `ivStatus` and `ivCurrent`. A row that a failed switch left
`active` without `is_current` counts as retired: no code path makes it current again.

### AnswerCache and the code

The model follows one question that one document of the base `Home` answers, and
everybody who asks it. `Asks` are the kinds of requests, each with the bases it may search
and the level of its user (`scope_fp` and `user_max_level` in `core/qa_pipeline.py`). Base
ids are numbers: the rank of the id in the sorted fingerprint. `doc` is the committed
row: whether it exists, a revision of its content, its level. `l1[p]` is the `_TTLCache`
of process `p`, `l2` and `lock` are the Redis keys `qa:exact:v3:...` and `inflight:...`.
An entry is the request it was made for and the revision it quotes, 0 when nothing was
found: an answer without evidence is cached too, because its text always starts with
a notice and so never equals the fixed refusal that `qa_pipeline.py:1055` excludes.

`Key` is what `_part` leaves of the scope: at 128 characters three UUIDs fit whole, and
17 characters of a fourth (`WholeIds` = 3). Those 17 still tell ids apart; but the pattern
`*<kb_id>*` of an invalidation only matches ids that are there whole (`Matches`).

    request  lookup -> get -> got -> found -> (served | dropping -> missed)
             missed -> building | lookup (as a waiter) -> ... -> waiting -> lookup | building
             building -> answered -> stored -> release -> served
    writer   idle -> clear -> scan -> idle       (commit first)
             idle -> clear -> scan -> commit     (delete: commit last)

Each arrow is the code between two awaits. A Redis error is an alternative of the action
it hits (`RedisFails`); `Abandon` is a builder that fails, is cancelled or dies, `StopWriter` a
writer that does. Time is left out: an entry or a lock may expire at any moment, and a
waiter may give up at any poll, which includes every real timing. One `SCAN` is one
step. Requests are taken to agree in `top_k` and the model configuration, which the dictionary key
has and the Redis key has not. The role cache, the semantic level and the cache of
retrieval results are taken to be off, the exact cache to be on. The document may start at
any of `StartLevels`; lowering it has the effect on a cached "nothing found" that an upload has.


### The FAQ modules and the code

`FaqDrafts` is `generate_from_document` between the reading of the chunks and the upsert: the number of FAQs a
document is worth (`_faq_target_for_document`), its batches, one model call for each and a second when nothing usable
came (`_generate_batch_with_retry`), the check of each item against the chunks it names, `_deduplicate`, and what is
left to a person. A question is a sequence of characters, so that `_similarity` is computed as the code does, row by row
of the edit distance; an answer is a name. What the model says is a constant, `stated` remembers it.

`FaqQueue` is `enqueue_document`, `_put_faq_job`, `_kb_faq_worker` and the lock of
`generate_from_document`, for one base. `queue[p]`, `worker[p]` and `status[p]` are the
dictionaries of process `p`, `lock` the Redis key, which does not say who set it.
`TakeJob` and `IdleTimeout` are the two outcomes of the wait of 300 s; `IdleExit` is the second
look at the queue that keeps a job put meanwhile. A call of Redis that fails
generates without the lock (`AcquireFallback`), an hour of waiting drops the job (`GiveUp`), and
`Release` deletes the key of whoever holds it. `lapses` counts the times the lock ceased to
protect a generation.

`FaqBase` is what `kb_faqs` holds for one base. Code that waits for a model is two actions
(`BeginDraft` and `Upsert`, `BeginSplit` and `CommitSplit`), everything else one, at its
commit. `basis` is history: where the level of a row is from, so that the
property can leave out what a person chose, what a snapshot brought back, and what
changed while the row was made. `Administer` stands for the requests of
`api/v1/kb_faqs.py`; `Restore` is `_restore_faqs_from_snap` of a rollback.

`FaqLookup` is `check_faq_hit`. `entry_of` are the Redis entries, `asker` the lookups, which hold a
row lock from the count of the hit to the end of their transaction, `editor` the transactions
that write rows: those that clear the entries after the commit ("late"), between flush and
commit ("early"), or before their statements (`record_reject`). `silent` and `open` are
history: the FAQs that could at no time, or at any time, answer the question since it was asked.

`FaqVerify` is the queue, the workers and the count per day of
`faq_verify_service.py`. A worker holds the row as it loaded it over the call of the model;
`ReportDrift` writes it. People approve, disable, edit and delete in between.

### Sessions and AskFlow and the code

`Sessions` is one identity. A turn is numbered as it is inserted, `home` says in which
session its messages are, `ctx` and `digest` are the hot context and summary in Redis. `tx[p]` is
the transaction of an ask or of the retention loop with the row locks it has (`held`) and
what it has read; what it writes to the database shows at `Commit`, what it does to Redis
at once. The stages follow `_persist_turn`: row, messages, trimming (`SelectAged`,
`SelectOverdue`, `Recount`, `Settle`), context, commit. `Victim` is the one PostgreSQL picks in a
deadlock. `overlapped` is history: sessions on which an ask met a trimming.

`AskFlow` is `QAPipeline.run`, which both the streamed and the collected answer go through. Its stages:

    open -> routed -> scoped -> checked -> missed -> found -> cited -> generating
         -> answered -> kept -> done, with direct for answers that need no model

Each way to an answer is an action of its own (`HitFaq`, `HitRole`, `ServeExact`, `Retrieve` and
`Generate`), with the filters it passes. Which chunks a search finds and whether a cache
has an entry are choices; what is checked after it is not. Changes of levels and
rights happen between any two stages; `moved` is history: documents whose level changed since the ask began.

### The search modules and the code

`Chunking` cuts positions of a text, so that one can tell what is lost or doubled; Markdown is cut
by lines, a table by rows, a page by its blocks. The functions of the code are functions here
(`SplitText`, `SplitMarkdown`, `TablePieces`, `SplitLayout`), and a state is an input with its
chunks. `Embedding` is `embed_texts` of the two clients and `upsert_chunks`. `Retrieval` is
`retrieve` with all that may fail on its way; scores are whole numbers, and what a search finds is
given by the constants, so that the order and not the number is what counts.

### The services and the code

A request is a transaction. Where the code only writes what it has just locked or read in one
statement, it is one action (`Departments`, `Accounts`); where requests overlap between their
statements it is one action per statement: `HitTests` (rows are looked for, deleted, inserted),
`ModelConfigs` (load, find the defaults, clear them, commit), `ExternalApi` (look up the key,
store the document, record the key), `Retention` (expired, excess, commit), `RoleCaches` (find the
old rows, delete, plan, insert, commit), `Feedback` (read, write, read the count, commit) and
`RagasRuns` (run, samples, scores, result). History variables mark what overlapped
(`clashed`, `contested`, `disturbed`, `unchecked`, `crossed`, `reverted`) where the code promises nothing then;
section 5 says what happens in these cases.

## 3. Runs

| run | instance | shows |
|---|---|---|
| `kb_documents` | one document, two rule sets, two jobs, every document request but disable, parsing and embedding failures, published base | `ReadySearchable` under overlapping requests and pipelines, `RetrySettles` |
| `kb_sequential` | two documents, two rule sets, one job, upload, delete, snapshots, both rollbacks, re-vectorization, parsing failures | sequences of legal calls: `VectorsSound` (`ReadySearchable` and `NoOrphanVectors`) and `BaseReturns` |
| `kb_overlap` | one document, two jobs, upload, disable, snapshot, rollback, re-vectorization, embedding and database failures, a crash | `IndexInv` (with `TypeOK`, `SingleCurrent`), `RegistryRefined`, `RebuildLeavesPublished` |
| `kb_rollback_failure` | one document, one job, parsing failure | counterexample to `RollbackPublishesAll` |
| `cache_answers` | one process, two requests, one writer, scopes {1} and {1, 2} with levels 0 and 1, one change of revision, level or existence, Redis errors | `SharedWithinAsk`, `QuietFresh` |
| `cache_settles` | one kind of request, two processes, the writer in one of them | `StaleDies`, `RequestsEnd` |
| `faq_queue` | three processes, one document, one lapse of the lock, restarts | `QueuedHasWorker`, `OneGeneration`, `StatusHonest`, `JobsEnd` |
| `faq_rows` | one document, three questions of which one is compound, three rows, three levels, two changes by people or documents | `RowsSound`, `RevokeRevives` |
| `sessions` | two sessions, two asks at a time, the retention loop, four turns of which two are kept, two events (failure, expiry, deletion, lost cache, time) | `ForgetsTrimmed`, `SessionsSound`, `DropsOldest` |
| `ask` | two conversations with one ask each, two documents in two bases, two levels, one slot, one event | `CitesAllowed`, `GateExact`, `OutcomeHonest` |
| `services` | two requests at a time in each of eleven parts; lists of two questions, a table of four rows, an evaluation that is asked for more samples than it takes | one or two properties for each part (below) |
| `search` | all texts of five characters, all pages of up to five lines, layouts of up to three blocks; five chunks in batches; retrievals over four chunks; drafts from a document of one and of two batches; a lookup against two edits | `TextsKept`, `RetrievalKept`, `LookupKept` |

The properties of `services`: `ListsWhole` (hit tests), `AllOrNothing` and `SettledStays` (evaluations),
`ColumnsFollowLinks` and `RenameKeepsAccess` (departments), `UncontestedDefault` (models), `OneSuper`
and `HousekeepingKeeps` (accounts), `ExternalKept`, `CleanupKept` (snapshots), `RoleCachesKept`, `VerifyKept`,
`FeedbackKept`, and `ServicesSound`: every type invariant, `AuditedOnce` (the closing of the shadow window is recorded once),
`ImportedRows` (an import keeps the rows of its table, in order), `FiguresFit` (the figures of a test run are those of its results).
`TextsKept` of `search` has the cutting, the embedding and the drafts: what a draft cites is what the model was shown, no two
drafts ask the same, and the distance computed row by row is the edit distance.

Bounds. Two jobs are the smallest number that overlaps, and every pair of operations
meets in some run; races of three would need three stale reads at once. Two
documents let a selective rollback leave one out and a whole one find a stray.
Two rule sets make a stored and an embedded segmentation differ. Three versions
give a published one, one being built, and one more for what follows or
overlaps. One snapshot is enough for a rollback: a second would only be an older
content, which the sequences before the snapshot already reach. The bound on
versions stops the system in the end, but in these instances never in
a state without a next step, except where the cfg says so.

For `AnswerCache`: two requests are a builder and a waiter, or a reader and a
builder that was there first; one change is what an outdated answer needs, and a second one only
makes a stored answer outdated again. The safety run has one process, in which
`QuietFresh` speaks about the dictionary too; the liveness run has two, since the other process
is the one an invalidation does not reach. `StaleDies` speaks of every level of the
cache: no bound keeps the requests from asking again and again. `disturbed` is a
history variable: `QuietFresh` promises nothing once a request and a writer overlapped or an
invalidation was cut short, which is where the code does store outdated answers
(section 5); `StaleDies` is what then still holds.

For the FAQs: three processes are a holder that is late, its successor, whose lock it deletes, and
one that enters then. One queued job per process is one that may arrive
while a worker ends. Three questions are a compound one and its two parts, three rows a parent
and its children; two changes let a level change or a delete cross a generation or a
split and another follow. A lookup needs two edits: one that makes an entry
wrong and one that moves its question to another row.

For `Sessions`: with two turns kept and four made, trimming happens in the session that asks and in the
other one; a context of one turn and one more makes the summary tell of a turn that is not in
it. For `AskFlow`: two conversations with one slot fill the gate; an answer cached by one is
read by the other; the second base is the one a right is lost to. For the services:
two requests at a time, and one object more than the smallest number that distinguishes the outcomes
(three codes: one is GUEST; three models of two types; three cached questions with a limit of one).
`search` enumerates its inputs: five characters hold a heading, a blank and two separators; three blocks hold
two tables around a text; four chunks and two bases make lists that agree and differ; questions that differ in a mark, in a character or
in a word are alike, nearly alike and different.

Fairness. `FairSpec` of `KbIndex` has weak fairness on the requests and coroutines of each job, since
the event loop resumes every coroutine whose await is over, and strong fairness on
`TakeRow`: the row lock it waits for is taken and released by others again and
again, and PostgreSQL grants it in queue order. Clients and faults have none.
`BaseReturns` and `RetrySettles` are checked without crashes and database failures: under
those the code does leave a base in `vectorizing` for ever (section 5).
`AnswerCache` has weak fairness on what a request or a writer does next, and on expiry, because TTLs run
out. `TimeoutWait` has strong fairness: a waiter leaves and re-enters `waiting` while
it polls, and its deadline of 30 s comes. Nobody has to ask, write, fail or stop.
`FaqQueue` has weak fairness on the work of each worker: a task of the event loop runs, and a job that waits
for the lock polls it and gives up after an hour, so no expiry is
needed for `JobsEnd`. `Sessions` states that the retention loop goes on and that transactions end (strong fairness,
as they wait for row locks); its properties are safety. The others state no fairness.

What the counterexample says, in the words of the code: `run_rollback_rebuild` promises that one
failed document prevents the activation. A document restored without chunks goes through
`run_resegment_pipeline`, which catches everything and returns; the loop records no error and activates.

## 4. Proofs

All theorems hold for every value of the constants that satisfies the module's assumption:
sets where the code needs a member have one, bounds are numbers, markers are not members.

The core:

| theorem | statement |
|---|---|
| `IndexInvariant` | `Spec => []IndexInv` of `KbIndex` |
| `Typing`, `OneCurrentVersion`, `VersionsNotShared` | its parts `TypeOK`, `SingleCurrent`, `RebuildOwnsVersion` |
| `SearchesKeepTheirs` | `Spec => RebuildLeavesPublished` |
| `RegistryRefinement` | `Spec => RegistryRefined`: the table of versions implements `IndexRegistry` |
| `PointerFollowsRegistry` | `Spec => []PointerMatchesRegistry` |
| `AtMostOnePublished`, `RetiredForGood` | what `IndexRegistry` promises, carried to `KbIndex` by the refinement |
| `OverlappingRequestsSearchable` | `Spec => []ReadySearchable` under `DocumentBase`: any number of document requests and pipelines that overlap |
| `OneRequestKeepsVectors` | `Spec => []VectorsSound` under `OneAtATime`: every operation but disabling, rebuilds included, one request at a time |
| `Answers_proofs!Typing` | `CacheSpec => []CacheTypeOK` of `AnswerCache` |
| `Sharing` | `Narrow(WholeIds + 1) => (CacheSpec => []SharedWithinAsk)` |
| `QuietInvalidation` | `Narrow(WholeIds) => (CacheSpec => []QuietFresh)` |
| `SessionsStaySound`, `TrimmedIsForgotten`, `OnlyTheOldestGo` | `SessionsSound`, `ForgetsTrimmed`, `DropsOldest` of `Sessions` |
| `NoSlotLost`, `ClientsToldTruth`, `CitesWhatItMay` | `GateExact`, `OutcomeHonest`, `CitesAllowed` of `AskFlow` |

FAQs and services:

| theorem | statement |
|---|---|
| `RowsKeptSound`, `RevokingRevives` | `RowsSound`, `RevokeRevives` of `FaqBase` |
| `QueueTyped`, `QueueServed`, `GenerationsExclude`, `StatusesHonest` | type, `QueuedHasWorker`, `OneGeneration`, `StatusHonest` of `FaqQueue` |
| `LookupTyped`, `LookupHonest` | type and `LookupKept` of `FaqLookup` |
| `VerificationTyped`, `VerificationKept` | type and `VerifyKept` |
| `RatingsTyped`, `RatingsKept` | type and `FeedbackKept` |
| `DepartmentsTyped`, `LinksDecide`, `RenamingKeepsAccess` | type, `ColumnsFollowLinks`, `RenameKeepsAccess` |
| `AccountsTyped`, `SuperIsOne`, `HousekeepingHarmless` | type, `OneSuper`, `HousekeepingKeeps` |
| `ModelsTyped`, `OneDefaultModel` | type, `UncontestedDefault` |
| `EvaluationsTyped`, `RunsAllOrNothing`, `SettledRunsStay` | type, `AllOrNothing`, `SettledStays` |
| `HitsTyped`, `ListsKeptWhole`, `FiguresOfResults` | type, `ListsWhole`, `FiguresFit` |
| `ExternalTyped`, `ClientsAndSourcesKept`, `ImportsKeepRows` | type, `ExternalKept`, `ImportedRows` |
| `CachesTyped`, `CachesKept` | type and `RoleCachesKept` |
| `RetentionTyped`, `CleaningUpFits` | type and `CleanupKept` |
| `ClosingRecordedOnce` | `AuditedOnce` |
| `ServicesStaySound` | `ServicesSound` of the composition `Services` |

Finding and cutting text, for lists and texts of any length:

| theorem | statement |
|---|---|
| `RetrievalsKept` | `RetrievalSpec => []RetrievalKept` |
| `VectorsKept` | `EmbedSpec => []VectorsMatch` |
| `DraftsAreKept` | `DraftsSpec => []DraftsKept`; with it, the distance computed row by row is the edit distance |
| `ChunksAreText` | `ChunkSpec => []ChunkingKept` |
| `TextsAreKept` | `SearchSpec => [](TextsKept /\ RetrievalKept /\ LookupKept)`: all of this of the composition `Search` |

### Versions

`SingleCurrent` is not inductive: a switch is safe only if the version it
publishes is still its own. So `IndexInv` adds that every rebuild that may still
switch owns a building version nobody else owns (`RebuildOwnsVersion`), which holds because
codes are fresh (`FreshVersions`), and that a job working on a document has one
(`AtDocument`), which typing needs. The proof goes action by action: `TypeStep`,
`AtDocumentStep` and `VersionStep` each take one conjunct group through all disjuncts
of `Next`; actions that touch neither the registry nor the owner's fields go
through lemmas on what a job keeps. `RebuildLeavesPublished` needs no more: the version a
rollback embeds into is building and the one searches read is not. The refinement proof
sorts the actions by what they do to the registry (open, publish, give up, nothing) and shows each to be
the abstract step; `PhaseOf` computes the mapping once. `PointerFollowsRegistry` needs
an invariant of its own (`PointerInv`): in a base that was published at the start the pointer is
never 0, so no pipeline read it as 0 and none publishes over it.

### What searches read

That the published version holds what the documents store is false for all operations together (section 5),
so there are two theorems, whose hypotheses are the settings of the runs `kb_documents` and `kb_sequential`,
for any number of documents and rules.

`DocumentBase`: any number of requests, in a published base, parsing and embedding may fail. `DocumentsInv` says that
a pipeline that holds a row is the only one (`Exclusive`, the row lock taken by the first flush), that what it has
embedded is what it will commit (`WrittenFit`), and that the published version fits every document nobody is in the
middle of writing (`RowsFit`). The exception in `WrittenFit` is a deletion that has purged the vectors of a pipeline:
the deletion will have the row next.

`OneAtATime`: one request with its background work, any operation but disabling, from a base that is or is not
published, parsing may fail. It covers more than the run: retries, re-segmentation, new rules, normalizing, and the first publication.
`SequentialInv` tells the version that is served from the one that is built: outside a rebuild the published version
fits but for the document at hand (`Served`); within one the *new* version fits but for what is still on the list
(`Built`), and the switch exchanges the two. `LoadedRow` says that the row a pipeline loaded is the row there is,
`RebuildsAll` that no document of a rollback disappeared under it.

### Question cache

The theorems hold for any requests, writers, processes, scopes and levels, with
`Narrow(n)`: no request searches more than `n` bases. `KeyInjective` shows that such keys tell
requests apart, `HomeMatches` that an invalidation finds them; both count the ids before a
given one (`RankBound`). `SharedWithinAsk` becomes inductive as `Shared`: every entry, in a
dictionary, in Redis or held by a request, is where requests like its own look for it.
`QuietFresh` becomes `Quiet`: as long as nothing was disturbed, requests and writers exclude each other,
what requests are about to store is fresh, and an outdated entry is excused only while the
writer that will remove it is still before its scan; after the scan of a delete the
entries stay away until its commit. Both bounds are tight: with one id more, two scopes that agree
in their first four ids share a key, or the pattern misses a base.

### Sessions

`SessionsInv` has four parts: the form of each transaction at each stage (which rows it holds, what it has selected,
what it counted), what two of them may not share (`Pair`), the rows and messages, and what is
remembered. `Pair` carries the overlap: two transactions hold different rows and number different turns, and an ask on a
session that another one trims has been noted in `overlapped`. `TrimForm` says that what will be
deleted is old or has enough newer turns; it survives the commit of another transaction, which may delete some
of those newer turns, because whatever has enough turns after the greatest one deleted has them still.
`RemembersKept` says that context, summary and what asks hold of them are messages, or the turn of the ask that
wrote them, and that nothing is known of what was trimmed. Steps are proved in groups: those that
write nothing others look at (`Quiet`), those that begin a transaction, those that carry one on (`Moves` says once
what they do to all others), and `Commit`.

### Asks

`AskInv` follows an ask from stage to stage: `GateInv` (free slots and asks that generate
add up) because `generating` is entered only with a slot and left only with its release,
however an ask ends; `KeptByStage` because the turn is committed exactly between the answer and
the stages `kept` and `done`. `CitesInv` says of an ask that what it has found is in the bases it may
search, and of a cached answer that it cites bases of its own scope: every way to citations either filters
by base and level, or takes them whole from an answer made for the same bases. The filters are
recursions over sequences; `Sifted` shows what is left of one.

### FAQs

`FaqBase`: that nobody who may not read a document gets a FAQ of it asks for more than it says: the level of a row that is taken from its document
*equals* the document's (`LevelFollows`). A level at least as high would not be inductive, because the synchronization of a base raises only
what is normal and could take a document past its FAQs. `DraftKnows` and `SplitKnows` say that a generation and a split that no writer of documents
has crossed know the level as it is; `AuditsLive` that the status a revocation returns to is not `disabled`.

`FaqQueue`: `QueueInv` adds `IdleNoDoc`: a worker without a job has no document. That generations exclude
each other is inductive by itself: whoever deletes the lock of its successor ends its own
generation in that step.

`FaqLookup`: `LookupInv` has two sides. Of every lookup (`Sound`): its two history sets are right about the
rows as they are, what it has selected is not silent, and the row it has counted is locked and still asks its question.
Of every entry (`EntriesAtHome`, `EntriesLead`): it leads to its question unless whoever changed the row
has yet to clear it; a writer that has cleared before its commit holds the row lock a lookup would need to enter it
again (`ClearedEarly`, with `Kinds` on the stages each writer has).

### Services that work through lists (`HitTests_proofs`)

* Evaluations: `RequestsOwn`, each request under way owns a run that is not settled, and different ones.
* Test lists: `EditsAlone`, an edit that nobody crosses knows all rows of its case and how many there are;
  `OrderedRows`, the numbering of a list by itself is the order of its questions.
* Test runs: `FiguresInv`, a run keeps its results with both of their figures and serial numbers for the comparison. Sums are functions
  on `0..n`: `StepByStep` shows that a function built step by step exists, `Upwards` what follows for all of its values.
* Uploads: `KeysInv`, a key that one request at a time uses (`OneUpload`) has the one document it remembers, or none, or the one that request
  is about to record (`KeyKept`). Sources: `SourcesInv`, nobody is deleting a source that a client lists.
* Imports: `ImportsInv`, what an import has stored and what is left of its batches make its table (`ImportGoes`); batches hold the rows they were
  cut from (`BatchesHoldRows`); no document belongs to two imports (`ImportsApart`).

### The other services (`Services_proofs`)

* Departments: `DeptInv` is the type, the columns, and that GUEST exists, since it is never renamed or deleted.
* Accounts: the super administrator is alone (`SuperAlone`) because no request gives or takes his role, and the roles
  he stands on are there; `HousekeepingKeeps` also needs that looking up levels only adds defaults.
* Models: `ClaimedOnce` (one request at a time claims an uncontested type) and `FoundAll` (one past its UPDATE has found whatever default there is).
* Verification: `CallsCounted` (each call that began today is counted) and the count never passes the limit.
* Ratings: `OneUpdater` (a request that changes a message holds its row), `NothingToClear` (if it found no fact, none appears before it commits),
  `CountedFair` (what is added to a count was said).
* Role caches: `CacheInv` gives each analyst a share of the stored questions, at most the limit, and the shares are apart (`OwnedApart`), because an analysis
  writes only rows it holds; one that met no other accounts for all that was there (`AloneTakesAll`).
* Snapshots: `QuotaAhead`, whichever transactions that have cleaned up commit, the others exceed the limit by what they add themselves and
  no more. It speaks of every set of them: a bound on what is there now is not inductive, as two that clean up together mark the same snapshots.
* Shadow window: `OneAuditor` and `AfterFirst`: one process has taken the right to record the closing, after the window.
* The composition: `EachService` shows that each behaviour of `Services` is one of every module; `ServicesStaySound` collects their theorems.

### Lists (`Search_proofs`)

`BuiltBy` is a function on `0..n` that a step makes from its value before; `StepByStep` shows that it exists and has the type of its
steps, `StepsKeep` that what each step keeps holds for all of it. Everything the modules fold is stated through these two.
A sorted list is found by counting: the place of an item is the number of those that come before it (`Orders`, `Listed`), so
that sorting needs no recursion, and that a sort is stable is that the order it counts by has the place in it. `Sifted` gives the
places of a list that satisfy a condition, `FlatPlaces` each place of a list of lists put together its row and its column.

### Retrieval

`RetrievalInv` says what each stage knows: the lists found so far are best first, name a chunk once and are not empty (`Found`); the fused list holds
their chunks and no others (`Held`) and puts before a chunk whatever is ahead of it in every list it is in (`Dominates`); what the
reranker answers is a part of what it was given (`ResultsWell`), whatever indices it names. The sum of reciprocal ranks is a function built along the lists
(`RrfSums`), and a chunk that is ahead of another in every list the other is in has the greater sum. That something found is
answered with needs that the candidates are empty only if no list was found (`FusedWell`), and that neither the cut nor the threshold leaves nothing of something.

### Embedding and drafts

`EmbedInv`: the vectors so far are those of the texts sent so far, and an upsert happens only when there are as many as texts. The answers of a
batch are sorted by their index, which gives them back in order, in whatever order they came (`Upward`).

`Nearest(s, t, i, j, d)`: `d` is the least cost of a pairing of the first `i` characters of one question with the first `j` of the other
(`Pairing`, `PairCost`). The row of the code is shown to hold exactly these (`RowRight`), by taking a last pair away or adding one (`Fewer`,
`OnePairMore`); the definition of the distance in the model, by alignments, is shown to be the same number (`Alike`, `SameCost`), and the distance
is symmetric (`Crossed`), so that it does not matter that the code lets the shorter question be the row. `UniqueSoFar` then goes along the drafts: of those kept, no two are alike, and
each is one that was generated, perhaps with a better answer. `DraftsInv` adds that each draft cites chunks of the batch the model was shown (`Cites`).

### Cutting text (`Chunking_proofs`)

*Text.* `Cutting(t, S, a, ov)`: the pieces `a` hold the positions `S` of the text in order, all but blanks, nothing ahead of what comes before it,
and two of them share no more than `ov`. It is closed under what the code does with pieces: cutting each of them again (`Nested`), taking
the blanks off their ends (`Trims`), putting cuts of consecutive stretches in a row (`InARow`), and collecting units (`AccWell`, `FlushedRight`).
Each of the four modes is a composition of these (`SplitCut`), and the check of the coverage, which compares characters and not positions, therefore has nothing to repair
(`Holders`, `Sources`).

*Tables and layouts.* `RowsWell` after each row: what is flushed and what is collected are the rows so far. A layout is its blocks in order, and what each holds
is what it was cut into (`InBlocks`).

*Markdown.* `Ranked(S, a)`: the pieces hold the lines `S`, each once and in order. There is an invariant for each loop: `Reading` (lines into
sections), `Merging` (sections that are only headings), `Blocked` (lines of a section into blocks), `Packing` (blocks into pieces). A line is in a fence if an odd number of
fences come before it (`Odd`); sections and blocks begin and end outside (`Shut`, `Plain`), so that a piece that has a line of a fence has the line before it (`FencesWhole`). The path of a section is the
list of the headings that no later one, up to its lines, is as high as (`Upper`), and merging keeps it because a lone heading is above what it is merged into.

*The composition.* `SearchInv`: the part at work has its invariant, the others have not begun.

### What cannot be proved here, and what has not been

The theorems of the library about induction take an operator as parameter and cannot be instantiated by the provers at hand; where an
argument needs induction, over numbers or the length of a list, it is made for a *set* of numbers, which has a least member outside it otherwise
(`WFMin` with `NatLessThanWellFounded`).

Only model-checked:

* liveness: `BaseReturns`, `RetrySettles`, `StaleDies`, `RequestsEnd`, `JobsEnd`, out of the prover's reach (fairness and ENABLED).

Every invariant and every action property of the runs is stated by a theorem. Four of these theorems have hypotheses: `ReadySearchable` and
`VectorsSound` the settings of their runs (`DocumentBase`, `OneAtATime`), `SharedWithinAsk` and `QuietFresh` that scopes fit the key; section 5
says what happens otherwise.

## 5. Known limits of what is claimed

Where the code does something else than one might think, and what the properties therefore leave out.

Documents and versions:

* `ReadySearchable` is claimed for document requests that overlap and for rebuilds
  that do not. A re-vectorization or an upload that overlaps a rollback rebuild deletes
  the document from every collection, the one being built included (`document_pipeline.py:468`).
* Two first uploads of a base that was never published read "none" and each publishes its own version; the
  document of the first is ready and in no version that is searched (`document_pipeline.py:507`). The runs start published.
* A pipeline that holds the row writes the vectors again after `delete_document` has purged them and recorded
  them as cleared (`document_service.py:503`); `NoOrphanVectors` is claimed for one request at a time.
* "No concurrent rebuild" is a test without a lock (`knowledge_base.py:436`), and `rollback` does not make it.
* A re-vectorization counts a document whose pipeline failed as processed and switches to the version
  without it (`knowledge_base.py:799`, `:830`); its `active` is flushed before the savepoint of the switch (`:854`).
* A crash, or a database failure in `_update_task`, between the commit of a rebuild
  and its end leaves the base `vectorizing` and its task open; no code repairs it.
* Disabling one chunk deletes all vectors of its document until it is segmented again (`document_service.py:786`).
* Rules committed while a pipeline runs may be overwritten by those it loaded (`document_pipeline.py:322`).
* `_ensure_parsed` skips a document that a retry just moved to `parsing`; the
  re-segmentation then makes it ready with no chunks.
* Compensation marks documents ready from their text alone (`snapshot.py:615`), and archives again what
  was archived without removing vectors the failed version gave it. Rollback and pipelines lock rows in
  different orders (`snapshot.py:894`): one of them may be the victim of a deadlock, which is a database failure here.

Cache and answers:

* An answer that was computed, or read from Redis, before an invalidation can be stored
  after it, an invalidation does not reach the dictionaries of other processes, and a
  delete invalidates before it commits: outdated answers, and outdated "nothing
  found", can be served until the TTLs (30 s, 900 s). Levels are checked again on
  every hit (`HitAllowed`), revisions are not.
* `SharedWithinAsk` needs scopes of at most four bases and `QuietFresh` of at most three: the key is cut at 128
  characters (`redis_keys.py:8`), so that scopes that agree in their first three ids and the beginning of the fourth
  share it, and an invalidation by a later id does not find it (`qa_cache.py:307`).
* The answer of a follow-up is stored in the exact cache under the literal question; a direct
  answer that transforms the last one is not checked again; a cached citation whose chunk is gone counts as harmless; filters by level
  come after `top_k`, so fewer hits may remain. Evidence of a follow-up is cut after merging (`sticky_evidence.py:45`).
* `QAPipeline` is one object for all asks: whether the reasoning of the model is shown is a field of it, which
  concurrent asks overwrite (`qa_pipeline.py:225`).

FAQs:

* A job that waits an hour behind the lock of a dead process is dropped as an error (`kb_faq_service.py:689`). Limits per
  day and base are checked before the lock.
* A regenerated question re-activates a retired split parent; a rollback restores FAQ levels but not
  the levels of documents (`snapshot.py:292`): `SourceCovered` leaves such rows out.
* A lookup that selected a row before its question was edited can enter it under the old question after the clearing: the
  entry misleads (`misled`) until its TTL. Hits from Redis are not counted in `hit_count`. A row deleted
  between select and count ends the lookup in an error.
* When two drafts ask nearly the same, the later one's answer is kept under the earlier one's question
  (`_deduplicate`), also if the two differ in one parameter; the prompt asks the model for separate FAQs then
  (`kb_faq_service.py:56`). The model may return more items than it was asked for, so that a document may get more
  FAQs than `_faq_target_for_document` says. A chunk named twice counts twice for the quality of a draft.
* A verdict written after somebody disabled the FAQ sets `pending_review` and the reason again, with `is_active` off;
  a retired split parent can then not be revoked any more. Approving a batch leaves the mark of the drift, approving one clears it.

Sessions:

* The retention of one session deletes another one of the identity with a turn that is not committed
  yet (`history_retention.py:175`); an ask that loaded a summary before the trimming writes it back.
  `overlapped` leaves these sessions out. Asks in two sessions can deadlock in the trimming (`:115`).
* A session that an ask takes up after the expiry has selected it is expired nonetheless, and loses its hot context
  (`session_expiry.py:53`); the next ask builds the context again from the messages.

Services:

* Departments: a rollback writes the visibility of a base and not its links (`snapshot.py:959`); the next start makes the links follow (`main.py:255`).
  Codes given to `create_kb`, `update_kb` and `update_user` are not checked. A start of the demo data creates deleted departments again.
* Accounts: a custom role called `user` or `kb_admin` is migrated away at the next start; levels belong to names, so that a
  new role with an old name has the old level. Logs keep users from being deleted.
* Models: two requests that claim a default at a time can leave two (`contested`); a disabled model can be the default.
  Version codes have a resolution of a second.
* External API: the record of a key has no unique column and is a second commit: two overlapping uploads, or one
  that broke off, make two documents. `expires_at` is never read. A failed import leaves the documents it
  made without pipelines. `update_client` does not check its sources, and a source can be deleted while a client that lists it is created.
* Retention: overlapping transactions do not see each other's snapshots, so the quota can be exceeded by what is in flight.
* Role caches: two analyses of one role that overlap leave the union of both ("at most 20"); entries from the history are never
  removed; the start of the shadow window is kept 30 days, after which a new window opens; an audit record that is lost is not
  written again.
* Hit tests: a comparison reads the questions again for each strategy, so that an edit in between makes it compare different lists; two
  overlapping edits leave both lists (`hit_test_service.py:175`).
* Evaluations: the handler of a failure reads the id of the run after its rollback has expired it, so that `failed` is not stored and the run stays
  `running` (the docstring at `ragas_evaluation.py:110` says that failures are stored).
* Ratings: a request that leaves the message as it read it takes no lock, and message and fact can part; rejects that overlap count
  as one, and taking one back does not lower the count.

Search:

* `expansion_count = 0` with expansion on takes one expansion
  (`query_processing.py:297`). A reranker that answers with a JSON list raises an error `rerank` does not catch
  (`rerank.py:210`). When it fails, only the first `top_k` remain, not all candidates as its comment says (`rerank.py:66`).
* An error at one base drops the vector hits of all bases for that query. Full-text search does not look at index
  versions. Its `LIMIT` is by similarity although the score is the larger of similarity and coverage.
* Chunking: an overlap of 0 means the default of 50; a chunk may exceed its size by the overlap; table rows longer than the header lose cells
  in the serialized layout. A part that is too long is cut a second time, and its pieces overlap too: `"a b cccc"` with size 4 and overlap 3 is cut to
  `a b`, `a`, `bccc`, `cccc` (`chunking.py:573`), where the second chunk is part of the first and ends before it. So `NothingLost` does not say that chunks end one
  after the other, but that whatever comes before the characters of a chunk is in it or in a chunk before it. The five characters of the run are too few to
  show the difference; the proof did.
* The client that embeds documents compares the number of vectors only with the number of all texts, at the upsert, after the old vectors were deleted.

Scheduling: `run_exclusive`, which elects one process for the periodic tasks, has no caller. The rate limiter counts with `INCR` and sets
the expiry only at the first, so that a lost second call makes a window that never ends; its window is fixed and not
sliding, and tokens are told apart by their first 20 characters.

## 6. Plan

Done: the core (documents, versions, snapshots, question cache); then FAQs, sessions, the answering pipeline,
search and the services, each with its runs; and a theorem for every invariant and action property the runs check.

What is left, by weight:

1. An abstract log of turns that `Sessions` implements wherever nothing overlapped.
2. The semantic level of the question cache and the cache of retrieval results, with the invalidation they share with `AnswerCache`.
3. Creation, deletion and permissions of bases as part of `KbIndex`.

## 7. Not modelled

* Parsing, layout analysis, object storage, embedding and language models: external formats and services, seen
  as success, failure, or an answer chosen freely.
* Prompts, streamed tokens, titles, suggested questions, telemetry, dashboards, audit listings, exports and previews: text
  and reports; nothing in the program reads them back.
* Passwords, tokens, key rotation and the encryption of credentials: `Accounts` and `ExternalApi` begin where a caller is known.
* Reading foreign databases: a table of rows that an import is given.
* The semantic level of the question cache, the cache of retrieval results, the second session store and the guest map: optional
  parts, off by default or without a writer that the models have.
* The fixed window of the rate limiter: two Redis calls whose loss refuses one client.
* Creation, update, deletion and permissions of bases, except where departments, FAQs and evaluations meet them.
* The frontend, scripts and generated API descriptions.
