----------------------------- MODULE AnswerCache -----------------------------
(***************************************************************************)
(* The exact-answer cache of the question pipeline, for one question that  *)
(* one document of the knowledge base Home answers: a dictionary in every  *)
(* process (L1), entries shared through Redis (L2), a build lock per key,  *)
(* the requests that ask, and the writers that change the document and     *)
(* invalidate its base.                                                    *)
(*                                                                         *)
(* One action is the piece of a coroutine between two awaits.  Time is not *)
(* modelled: an entry or a lock whose TTL runs may expire at any moment.   *)
(* The role cache and the semantic level are taken to be off.              *)
(***************************************************************************)
EXTENDS Naturals, FiniteSets

CONSTANTS
    Asks,      \* [scope, level]: bases a request may search, level of its user
    Home,      \* the base of the document
    WholeIds,  \* how many base ids fit whole into the scope part of a Redis key
    MaxLevel,  \* sensitivity levels are 0..MaxLevel
    StartLevels, \* levels the document may start with
    MaxRevision, \* revisions of the document are 1..MaxRevision (a bound)
    MaxChanges,  \* commits that change the document (a bound)
    Requests, Writers, \* coroutines that can be in progress at once (a bound)
    Processes,
    Process,   \* the process each of them runs in
    RedisFails, \* whether Redis calls may fail
    NoAnswer

Level == 0..MaxLevel

ASSUME AnswerCacheAssumption ==
    /\ MaxLevel \in Nat /\ WholeIds \in Nat \ {0} /\ Asks # {}
    /\ StartLevels \subseteq Level
    /\ MaxRevision \in Nat \ {0} /\ MaxChanges \in Nat
    \* base ids are named by their rank in the order the fingerprint sorts them
    /\ \A a \in Asks : a \in [scope : SUBSET Nat, level : Level] /\ IsFiniteSet(a.scope)
    /\ Requests \cap Writers = {}
    /\ Process \in [Requests \cup Writers -> Processes]
    /\ RedisFails \in BOOLEAN
    /\ NoAnswer \notin [ask : Asks, revision : 0..MaxRevision]

VARIABLES
    doc,       \* the row of the document, as committed
    changes,
    l1,        \* l1[p][a]: the entry of process p for the requests a
    l2,        \* l2[k]: the entry under the Redis key k
    lock,      \* Redis keys whose build lock is held
    req,       \* requests in progress
    writer,    \* writers in progress
    disturbed  \* history: a request and a writer overlapped, or an invalidation was cut short

cache_vars == <<doc, changes, l1, l2, lock, req, writer, disturbed>>

-----------------------------------------------------------------------------
(* State *)

DocState == [exists : BOOLEAN, revision : 1..MaxRevision, level : Level]

\* An answer remembers the request it was made for and the revision it quotes,
\* 0 if it says that nothing was found: that answer has no citations.
Answer == [ask : Asks, revision : 0..MaxRevision]
CacheEntry == Answer \cup {NoAnswer}

\* The scope part of a Redis key is cut at 128 characters: the first WholeIds
\* sorted ids and the beginning of the next one, which still identifies it.
Rank(ids, k) == Cardinality({i \in ids : i < k})
\* Mutant: only the text of the question makes the key.
QuestionKey(a) == [ids |-> {}, level |-> 0]
Key(a) == [ids |-> {k \in a.scope : Rank(a.scope, k) <= WholeIds}, level |-> a.level]
Keys == {Key(a) : a \in Asks}

\* The key matches the pattern *<Home>* of an invalidation.
\* Mutant: the pattern only finds keys of this base alone.
MatchesAlone(k) == k.ids = {Home}
Matches(k) == Home \in k.ids /\ Rank(k.ids, Home) < WholeIds

RequestPcs == {"idle", "lookup", "get", "got", "found", "dropping", "missed",
               "waiting", "building", "answered", "stored", "release"}
RequestState == [pc : RequestPcs, ask : Asks, waited : BOOLEAN, held : CacheEntry]

WriterState == [pc : {"idle", "clear", "scan", "commit"}, deletes : BOOLEAN]
IdleWriter == [pc |-> "idle", deletes |-> FALSE]

SomeAsk == CHOOSE a \in Asks : TRUE
IdleRequest == [pc |-> "idle", ask |-> SomeAsk, waited |-> FALSE, held |-> NoAnswer]

CacheTypeOK ==
    /\ doc \in DocState /\ changes \in 0..MaxChanges
    /\ l1 \in [Processes -> [Asks -> CacheEntry]]
    /\ l2 \in [Keys -> CacheEntry]
    /\ lock \in SUBSET Keys
    /\ req \in [Requests -> RequestState]
    /\ writer \in [Writers -> WriterState]
    /\ disturbed \in BOOLEAN

Asking == \E q \in Requests : req[q].pc # "idle"
Writing == \E w \in Writers : writer[w].pc # "idle"

CacheInit ==
    /\ doc \in [exists : {TRUE}, revision : {1}, level : StartLevels]
    /\ changes = 0
    /\ l1 = [p \in Processes |-> [a \in Asks |-> NoAnswer]]
    /\ l2 = [k \in Keys |-> NoAnswer]
    /\ lock = {}
    /\ req = [q \in Requests |-> IdleRequest]
    /\ writer = [w \in Writers |-> IdleWriter]
    /\ disturbed = FALSE

-----------------------------------------------------------------------------
(* A request *)

RequestAt(q, pc) == req[q].pc = pc
KeyOf(q) == Key(req[q].ask)
Goto(q, pc) == req' = [req EXCEPT ![q] = [@ EXCEPT !.pc = pc]]
Take(q, pc, entry) == req' = [req EXCEPT ![q] = [@ EXCEPT !.pc = pc, !.held = entry]]
Finish(q) == req' = [req EXCEPT ![q] = IdleRequest]
database == <<doc, changes, writer, disturbed>>

L1Set(q, entry) == l1' = [l1 EXCEPT ![Process[q]][req[q].ask] = entry]

Begin(q, a) ==
    /\ RequestAt(q, "idle")
    /\ req' = [req EXCEPT ![q] = [IdleRequest EXCEPT !.pc = "lookup", !.ask = a]]
    /\ disturbed' = (disturbed \/ Writing)
    /\ UNCHANGED <<doc, changes, writer, l1, l2, lock>>

\* lookup: the dictionary of the process answers first ...
LookupL1(q) ==
    /\ RequestAt(q, "lookup")
    /\ LET entry == l1[Process[q]][req[q].ask]
       IN  IF entry # NoAnswer THEN Take(q, "found", entry) ELSE Goto(q, "get")
    /\ UNCHANGED <<database, l1, l2, lock>>

\* ... then Redis; an error there is a miss.  After a miss the request tries to
\* become the builder, or goes on waiting if it already has tried.
GetL2(q) ==
    /\ RequestAt(q, "get")
    /\ \/ l2[KeyOf(q)] # NoAnswer /\ Take(q, "got", l2[KeyOf(q)])
       \/ /\ l2[KeyOf(q)] = NoAnswer \/ RedisFails
          /\ Goto(q, IF req[q].waited THEN "waiting" ELSE "missed")
    /\ UNCHANGED <<database, l1, l2, lock>>

\* The reply of Redis is copied to the dictionary, whatever happened meanwhile.
FillL1(q) ==
    /\ RequestAt(q, "got")
    /\ L1Set(q, req[q].held) /\ Goto(q, "found")
    /\ UNCHANGED <<database, l2, lock>>

\* citations_allowed_for_user: the level of the cited document in the database
\* now; a document that is gone counts as normal, and no citation is allowed too.
HitAllowed(q) ==
    req[q].held.revision # 0 /\ doc.exists => doc.level <= req[q].ask.level

\* Mutant: what is served is stored again, as after a role-cache hit.
ServeAndRenew(q) ==
    /\ RequestAt(q, "found") /\ HitAllowed(q)
    /\ l2' = [l2 EXCEPT ![KeyOf(q)] = req[q].held]
    /\ Finish(q)
    /\ UNCHANGED <<database, l1, lock>>

Serve(q) ==
    /\ RequestAt(q, "found") /\ HitAllowed(q)
    /\ Finish(q)
    /\ UNCHANGED <<database, l1, l2, lock>>

\* drop_exact: the dictionary at once, Redis after an await.
Reject(q) ==
    /\ RequestAt(q, "found") /\ ~HitAllowed(q)
    /\ L1Set(q, NoAnswer) /\ Take(q, "dropping", NoAnswer)
    /\ UNCHANGED <<database, l2, lock>>

\* A request that had waited builds without the lock.
DropL2(q) ==
    /\ RequestAt(q, "dropping")
    /\ \/ l2' = [l2 EXCEPT ![KeyOf(q)] = NoAnswer]
       \/ RedisFails /\ UNCHANGED l2
    /\ Goto(q, IF req[q].waited THEN "building" ELSE "missed")
    /\ UNCHANGED <<database, l1, lock>>

\* try_begin_exact_build: SET NX.  Without Redis everybody builds.
TryBegin(q) ==
    /\ RequestAt(q, "missed")
    /\ \/ /\ KeyOf(q) \notin lock
          /\ lock' = lock \cup {KeyOf(q)} /\ Goto(q, "building")
       \/ /\ KeyOf(q) \in lock
          /\ req' = [req EXCEPT ![q] = [@ EXCEPT !.pc = "lookup", !.waited = TRUE]]
          /\ UNCHANGED lock
       \/ RedisFails /\ Goto(q, "building") /\ UNCHANGED lock
    /\ UNCHANGED <<database, l1, l2>>

\* wait_exact_hit polls, and gives up at its deadline: then the request builds
\* the answer itself, without the lock.
Poll(q) ==
    /\ RequestAt(q, "waiting") /\ Goto(q, "lookup")
    /\ UNCHANGED <<database, l1, l2, lock>>

\* Mutant: the wait ends with the answer of the builder only.
WaitForAnswer(q) ==
    /\ RequestAt(q, "waiting") /\ l2[KeyOf(q)] # NoAnswer /\ Goto(q, "building")
    /\ UNCHANGED <<database, l1, l2, lock>>

TimeoutWait(q) ==
    /\ RequestAt(q, "waiting") /\ Goto(q, "building")
    /\ UNCHANGED <<database, l1, l2, lock>>

\* Retrieval sees the committed row if scope and level of the request allow it.
Found(a) ==
    IF doc.exists /\ Home \in a.scope /\ doc.level <= a.level THEN doc.revision ELSE 0

\* An answer without evidence is made and cached too.  Only if the model writes
\* no text at all the fixed refusal takes its place, which is not cached.
BuildAnswer(q) ==
    /\ RequestAt(q, "building")
    /\ \/ Take(q, "answered", [ask |-> req[q].ask, revision |-> Found(req[q].ask)])
       \/ Found(req[q].ask) # 0 /\ Goto(q, "release")
    /\ UNCHANGED <<database, l1, l2, lock>>

\* put_exact: Redis, then the dictionary, then the lock, whoever holds it.
PutL2(q) ==
    /\ RequestAt(q, "answered")
    /\ \/ l2' = [l2 EXCEPT ![KeyOf(q)] = req[q].held] /\ Goto(q, "stored")
       \/ RedisFails /\ Take(q, "release", NoAnswer) /\ UNCHANGED l2
    /\ UNCHANGED <<database, l1, lock>>

PutL1(q) ==
    /\ RequestAt(q, "stored")
    /\ L1Set(q, req[q].held) /\ Take(q, "release", NoAnswer)
    /\ UNCHANGED <<database, l2, lock>>

ReleaseLock(q) ==
    /\ RequestAt(q, "release")
    /\ \/ lock' = lock \ {KeyOf(q)}
       \/ RedisFails /\ UNCHANGED lock
    /\ Finish(q)
    /\ UNCHANGED <<database, l1, l2>>

\* The model call fails, the client goes away or the process stops: the error
\* handlers of the pipeline report and leave the lock to its TTL.
Abandon(q) ==
    /\ ~RequestAt(q, "idle")
    /\ Finish(q)
    /\ UNCHANGED <<database, l1, l2, lock>>

Work(q) ==
    \/ LookupL1(q) \/ GetL2(q) \/ FillL1(q) \/ Serve(q) \/ Reject(q) \/ DropL2(q)
    \/ TryBegin(q) \/ Poll(q) \/ TimeoutWait(q) \/ BuildAnswer(q)
    \/ PutL2(q) \/ PutL1(q) \/ ReleaseLock(q)

-----------------------------------------------------------------------------
(* A writer *)

caches == <<l1, l2, lock, req>>
GoWriter(w, pc, deletes) == writer' = [writer EXCEPT ![w] = [pc |-> pc, deletes |-> deletes]]
Overlap == disturbed' = (disturbed \/ Asking)

CanChange(w) == writer[w].pc = "idle" /\ doc.exists /\ changes < MaxChanges

\* A document pipeline commits new chunks and invalidates afterwards.
CommitRevision(w) ==
    /\ CanChange(w) /\ doc.revision < MaxRevision
    /\ doc' = [doc EXCEPT !.revision = @ + 1] /\ changes' = changes + 1
    /\ GoWriter(w, "clear", FALSE) /\ Overlap
    /\ UNCHANGED caches

\* update_document_sensitivity does the same with a level.
CommitLevel(w, level) ==
    /\ CanChange(w) /\ level # doc.level
    /\ doc' = [doc EXCEPT !.level = level] /\ changes' = changes + 1
    /\ GoWriter(w, "clear", FALSE) /\ Overlap
    /\ UNCHANGED caches

\* delete_document invalidates first and commits at the end.
BeginDelete(w) ==
    /\ CanChange(w)
    /\ GoWriter(w, "clear", TRUE) /\ Overlap
    /\ UNCHANGED <<doc, changes, caches>>

\* invalidate_by_kb: the dictionary of this process, and no other ...
ClearL1(w) ==
    /\ writer[w].pc = "clear"
    /\ l1' = [l1 EXCEPT ![Process[w]] = [a \in Asks |-> NoAnswer]]
    /\ GoWriter(w, "scan", writer[w].deletes)
    /\ UNCHANGED <<doc, changes, disturbed, l2, lock, req>>

\* ... then the Redis keys that match the base; an error ends the scan silently.
Scanned == [k \in Keys |-> IF Matches(k) THEN NoAnswer ELSE l2[k]]
ScanL2(w) ==
    /\ writer[w].pc = "scan"
    /\ \/ l2' = Scanned /\ UNCHANGED disturbed
       \/ RedisFails /\ disturbed' = TRUE /\ UNCHANGED l2
    /\ GoWriter(w, IF writer[w].deletes THEN "commit" ELSE "idle", writer[w].deletes)
    /\ UNCHANGED <<doc, changes, l1, lock, req>>

\* Another delete of the row may have committed first; then this one fails.
CommitDelete(w) ==
    /\ writer[w].pc = "commit"
    /\ doc' = [doc EXCEPT !.exists = FALSE]
    /\ changes' = IF changes < MaxChanges THEN changes + 1 ELSE changes
    /\ GoWriter(w, "idle", FALSE)
    /\ UNCHANGED <<disturbed, caches>>

\* The process stops, or the transaction of a delete fails.
StopWriter(w) ==
    /\ writer[w].pc # "idle"
    /\ GoWriter(w, "idle", FALSE) /\ disturbed' = TRUE
    /\ UNCHANGED <<doc, changes, caches>>

Write(w) == ClearL1(w) \/ ScanL2(w) \/ CommitDelete(w)

-----------------------------------------------------------------------------
(* TTLs: 30 s in a dictionary (or eviction), 900 s in Redis, 60 s on a lock. *)

ExpireL1(p, a) ==
    /\ l1[p][a] # NoAnswer
    /\ l1' = [l1 EXCEPT ![p][a] = NoAnswer]
    /\ UNCHANGED <<database, l2, lock, req>>

ExpireL2(k) ==
    /\ l2[k] # NoAnswer
    /\ l2' = [l2 EXCEPT ![k] = NoAnswer]
    /\ UNCHANGED <<database, l1, lock, req>>

ExpireLock(k) ==
    /\ k \in lock
    /\ lock' = lock \ {k}
    /\ UNCHANGED <<database, l1, l2, req>>

CacheNext ==
    \/ \E q \in Requests : Work(q) \/ Abandon(q) \/ \E a \in Asks : Begin(q, a)
    \/ \E w \in Writers :
          \/ CommitRevision(w) \/ BeginDelete(w) \/ Write(w) \/ StopWriter(w)
          \/ \E level \in Level : CommitLevel(w, level)
    \/ \E p \in Processes, a \in Asks : ExpireL1(p, a)
    \/ \E k \in Keys : ExpireL2(k) \/ ExpireLock(k)

\* The event loop runs every coroutine that can go on, and TTLs run out.  A
\* request that keeps polling meets its deadline (strong fairness: it does not
\* wait in one state).  Nobody is obliged to ask, to change or to fail.
Fairness ==
    /\ \A q \in Requests : WF_cache_vars(Work(q)) /\ SF_cache_vars(TimeoutWait(q))
    /\ \A w \in Writers : WF_cache_vars(Write(w))
    /\ \A p \in Processes, a \in Asks : WF_cache_vars(ExpireL1(p, a))
    /\ \A k \in Keys : WF_cache_vars(ExpireL2(k)) /\ WF_cache_vars(ExpireLock(k))

CacheSpec == CacheInit /\ [][CacheNext]_cache_vars /\ Fairness

-----------------------------------------------------------------------------
(* Properties *)

\* Answers are shared only between requests with the same scope and the same
\* user level: whatever a request is about to serve was made for a request like
\* it (the contract of CacheLookupRequest: the key carries the scope).
SharedWithinAsk ==
    \A q \in Requests : req[q].held # NoAnswer => req[q].held.ask = req[q].ask

\* An answer says what its request would find now.
Fresh(entry) == entry.revision = Found(entry.ask)

\* When no request overlapped a writer and no invalidation was cut short, then
\* after the writers are done Redis holds no answer older than the document, and
\* neither does a process that all of the writers ran in (invalidate_by_kb).
\* Other processes keep theirs until the TTL.
QuietFresh ==
    ~disturbed /\ ~Writing =>
        /\ \A k \in Keys : l2[k] # NoAnswer => Fresh(l2[k])
        /\ \A p \in Processes, a \in Asks :
              (\A w \in Writers : Process[w] = p) /\ l1[p][a] # NoAnswer
                  => Fresh(l1[p][a])

AllFresh ==
    /\ \A k \in Keys : l2[k] # NoAnswer => Fresh(l2[k])
    /\ \A p \in Processes, a \in Asks : l1[p][a] # NoAnswer => Fresh(l1[p][a])

\* With overlaps, crashes and Redis errors an outdated answer can be stored after
\* the invalidation that should have removed it.  It still does not live on: a
\* hit never renews what it found, so once the document stays as it is, every
\* level of the cache comes to agree with it for good.
StaleDies == <>[]AllFresh

\* A request ends, whatever became of the builder it waits for: a builder that
\* died leaves its lock behind.
RequestsEnd == \A q \in Requests : ~RequestAt(q, "idle") ~> RequestAt(q, "idle")
=============================================================================
