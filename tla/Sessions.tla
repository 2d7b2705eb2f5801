------------------------------- MODULE Sessions -------------------------------
(***************************************************************************)
(* The conversations of one identity: rows and messages in PostgreSQL, the *)
(* hot context and its summary in Redis, the asks that add a turn, the     *)
(* retention that trims history (inside every ask and as a sweep), the     *)
(* expiry of idle sessions and their deletion by the user.                 *)
(*                                                                         *)
(* A turn is one question with its answer, numbered as it is inserted.     *)
(* Ask and sweep are transactions: what they write becomes visible at      *)
(* their Commit, while what they do to Redis is visible at once.  An       *)
(* UPDATE or DELETE of a session row takes its lock until the end of the   *)
(* transaction and waits for the transaction that has it.                  *)
(***************************************************************************)
EXTENDS Naturals, Sequences, FiniteSets, FiniteSetsExt, SequencesExt

CONSTANTS
    Ids,       \* sessions that are ever made
    Asks,      \* requests in flight at a time
    Sweeper,   \* the loop of the retention
    None,
    MaxTurns,  \* turns an identity keeps (QA_HISTORY_MAX_TURNS)
    Window,    \* turns in the hot context (QA_CONTEXT_WINDOW)
    LastTurn,  \* turns that are ever inserted (a bound of the model)
    MaxEvents  \* failures, refusals, losses, deletions, expiries, passing of time (a bound)

Procs == Asks \cup {Sweeper}
Turns == 1..LastTurn

ASSUME SessionsAssumption ==
    /\ MaxTurns \in Nat \ {0} /\ Window \in 1..MaxTurns
    /\ LastTurn \in Nat /\ MaxEvents \in Nat
    /\ None \notin Ids /\ Sweeper \notin Asks /\ IsFiniteSet(Ids)

VARIABLES
    row,      \* committed session rows
    home,     \* the session of each message that is there, None for the others
    next,     \* the next turn
    ctx,      \* hot context in Redis, oldest turn first; <<>> when there is none
    digest,   \* summary in Redis: the turns it tells of
    tx,       \* transactions
    expiring, \* sessions the expiry has selected
    idle, stale, \* turns up to these are older than 30 minutes and 7 days
    removing, \* sessions whose deletion has yet to clear Redis
    events,
    overlapped \* history: sessions on which an ask overlapped a trimming

vars == <<row, home, next, ctx, digest, tx, expiring, idle, stale, removing,
          events, overlapped>>

-----------------------------------------------------------------------------
(* State *)

Unborn == [status |-> "unborn"]
Gone == [status |-> "gone"]
\* count is message_count in turns, last the turn that set last_active_at.
SessionRow == [status : {"active", "expired", "deleted"}, count : 0..LastTurn,
               summary : SUBSET Turns, last : 0..LastTurn]
Exists(s) == row[s] \notin {Unborn, Gone}
Messages(s) == {t \in Turns : home[t] = s}

Stages == {"loaded", "flushed", "aged", "deleted", "settled", "read", "written"}
\* own, count, summary, expired: the session row as the ask loaded it;
\* kept: the row was already there;  turn: what it inserted;
\* drop, del: sessions and messages it deletes;  todo, fix: affected sessions
\* without and with their new message count;  clear: those whose summary it
\* clears;  wrote: the summary it wrote;  mem: context and summary it read.
Tx == [stage : Stages, own : Ids \cup {None}, kept : BOOLEAN, expired : BOOLEAN,
       count : 0..LastTurn, summary : SUBSET Turns, turn : 0..LastTurn,
       drop : SUBSET Ids, del : SUBSET Turns, todo : SUBSET Ids,
       fix : UNION {[S -> 0..LastTurn] : S \in SUBSET Ids},
       clear : SUBSET Ids, wrote : SUBSET Turns, held : SUBSET Ids,
       mem : [context : Seq(Turns), summary : SUBSET Turns]]
NoTx == [stage |-> "none"]
NoMem == [context |-> <<>>, summary |-> {}]
NoFix == [s \in {} |-> 0]

Busy(p) == tx[p] # NoTx
Own(p) == IF Busy(p) THEN tx[p].own ELSE None
Affected(x) == x.todo \cup DOMAIN x.fix \cup x.drop
Held(p) == IF Busy(p) THEN tx[p].held ELSE {}
Lockable(p, S) == \A q \in Procs \ {p} : Held(q) \cap S = {}
\* Messages of a session as a transaction sees them.
Seen(x, s) == (Messages(s) \ x.del) \cup (IF x.own = s /\ x.turn # 0 THEN {x.turn} ELSE {})
Newest(n, S) == {t \in S : Cardinality({u \in S : u > t}) < n}
Latest(n, seq) == SubSeq(seq, IF Len(seq) > n THEN Len(seq) - n + 1 ELSE 1, Len(seq))
Increasing(s) == \A i, j \in DOMAIN s : i < j => s[i] < s[j]
Ascending(S) == CHOOSE s \in [1..Cardinality(S) -> S] : Increasing(s) /\ ToSet(s) = S

TypeOK ==
    /\ row \in [Ids -> SessionRow \cup {Unborn, Gone}]
    /\ home \in [Turns -> Ids \cup {None}]
    /\ next \in 1..(LastTurn + 1)
    /\ ctx \in [Ids -> BoundedSeq(Turns, Window)]
    /\ digest \in [Ids -> SUBSET Turns]
    /\ tx \in [Procs -> Tx \cup {NoTx}]
    /\ expiring \subseteq Ids
    /\ stale \in 0..idle /\ idle \in 0..(next - 1)
    /\ removing \subseteq Ids
    /\ events \in 0..MaxEvents
    /\ overlapped \subseteq Ids

Init ==
    /\ row = [s \in Ids |-> Unborn]
    /\ home = [t \in Turns |-> None]
    /\ next = 1
    /\ ctx = [s \in Ids |-> <<>>]
    /\ digest = [s \in Ids |-> {}]
    /\ tx = [p \in Procs |-> NoTx]
    /\ expiring = {}
    /\ idle = 0 /\ stale = 0
    /\ removing = {}
    /\ events = 0
    /\ overlapped = {}

Event == events < MaxEvents /\ events' = events + 1

\* delete_session_cache
Forget(S) ==
    /\ ctx' = [s \in Ids |-> IF s \in S THEN <<>> ELSE ctx[s]]
    /\ digest' = [s \in Ids |-> IF s \in S THEN {} ELSE digest[s]]

-----------------------------------------------------------------------------
(* An ask *)

NewTx(s) == [stage |-> "loaded", own |-> s, kept |-> FALSE, expired |-> FALSE,
             count |-> 0, summary |-> {}, turn |-> 0, drop |-> {}, del |-> {},
             todo |-> {}, fix |-> NoFix, clear |-> {}, wrote |-> {}, held |-> {},
             mem |-> NoMem]

\* _resolve_session, a new one: its row is visible when the ask commits.
StartSession(p, s) ==
    /\ ~Busy(p) /\ next \in Turns
    /\ row[s] = Unborn /\ \A q \in Procs : Own(q) # s
    /\ tx' = [tx EXCEPT ![p] = NewTx(s)]
    /\ UNCHANGED <<row, home, next, ctx, digest, expiring, idle, stale, removing, events, overlapped>>

\* _resolve_session, a given one; an expired one will be active again.
Resume(p, s) ==
    /\ ~Busy(p) /\ next \in Turns
    /\ Exists(s) /\ row[s].status # "deleted"
    /\ tx' = [tx EXCEPT ![p] =
                [NewTx(s) EXCEPT !.kept = TRUE, !.expired = row[s].status = "expired",
                                 !.count = row[s].count, !.summary = row[s].summary]]
    /\ overlapped' = IF \E q \in Procs : Busy(q) /\ s \in Affected(tx[q])
                     THEN overlapped \cup {s} ELSE overlapped
    /\ UNCHANGED <<row, home, next, ctx, digest, expiring, idle, stale, removing, events>>

\* The next query writes the status of a session that was expired and so
\* locks its row while the answer is made.
Reactivate(p) ==
    /\ Busy(p) /\ tx[p].stage = "loaded" /\ tx[p].expired /\ tx[p].held = {}
    /\ Exists(tx[p].own) /\ Lockable(p, {tx[p].own})
    /\ tx' = [tx EXCEPT ![p].held = {tx[p].own}]
    /\ UNCHANGED <<row, home, next, ctx, digest, expiring, idle, stale, removing, events, overlapped>>

\* Mutant of InsertTurn: the count of the row stays.
InsertUncounted(p) ==
    /\ Busy(p) /\ tx[p].stage = "loaded" /\ next \in Turns
    /\ tx[p].kept => Exists(tx[p].own)
    /\ Lockable(p, {tx[p].own})
    /\ tx' = [tx EXCEPT ![p].stage = "flushed", ![p].turn = next, ![p].held = {tx[p].own}]
    /\ next' = next + 1
    /\ UNCHANGED <<row, home, ctx, digest, expiring, idle, stale, removing, events, overlapped>>

\* _persist_turn: the row of the session, then the messages.
InsertTurn(p) ==
    /\ Busy(p) /\ tx[p].stage = "loaded" /\ next \in Turns
    /\ tx[p].kept => Exists(tx[p].own)
    /\ Lockable(p, {tx[p].own})
    /\ tx' = [tx EXCEPT ![p].stage = "flushed", ![p].turn = next,
                        ![p].count = @ + 1, ![p].held = {tx[p].own}]
    /\ next' = next + 1
    /\ UNCHANGED <<row, home, ctx, digest, expiring, idle, stale, removing, events, overlapped>>

\* An ask that is refused after its session was found commits without a turn.
CommitDenied(p) ==
    LET s == tx[p].own
        old == IF tx[p].kept THEN row[s]
               ELSE [status |-> "active", count |-> 0, summary |-> {}, last |-> next - 1]
    IN
    /\ Busy(p) /\ tx[p].stage = "loaded" /\ s # None /\ Event
    /\ tx[p].expired => Exists(s) /\ Lockable(p, {s})
    /\ row' = [row EXCEPT ![s] = IF tx[p].expired THEN [old EXCEPT !.status = "active"] ELSE old]
    /\ tx' = [tx EXCEPT ![p] = NoTx]
    /\ UNCHANGED <<home, next, ctx, digest, expiring, idle, stale, removing, overlapped>>

\* append_turn reads Redis; without a summary there, the one of the row as
\* the ask knows it.
ReadContext(p) ==
    LET s == tx[p].own IN
    /\ Busy(p) /\ tx[p].stage = "settled" /\ s # None /\ s \notin DOMAIN tx[p].fix
    /\ tx' = [tx EXCEPT ![p].stage = "read",
                        ![p].mem = [context |-> ctx[s],
                                    summary |-> IF digest[s] # {} THEN digest[s] ELSE tx[p].summary]]
    /\ UNCHANGED <<row, home, next, ctx, digest, expiring, idle, stale, removing, events, overlapped>>

\* append_turn writes what it read with the new turn; what no longer fits is
\* summarized, or lost when the model fails.
AppendTurn(p) ==
    LET s == tx[p].own
        all == Append(tx[p].mem.context, tx[p].turn)
        over == ToSet(all) \ ToSet(Latest(Window, all))
        told == tx[p].mem.summary \cup over
    IN
    /\ Busy(p) /\ tx[p].stage = "read"
    /\ ctx' = [ctx EXCEPT ![s] = Latest(Window, all)]
    /\ \/ /\ over # {}
          /\ digest' = [digest EXCEPT ![s] = told]
          /\ tx' = [tx EXCEPT ![p].stage = "written", ![p].wrote = told]
       \/ /\ UNCHANGED digest
          /\ tx' = [tx EXCEPT ![p].stage = "written"]
    /\ UNCHANGED <<row, home, next, expiring, idle, stale, removing, events, overlapped>>

\* _hydrate_context_from_db and replace_context, when the retention trimmed
\* the session of the ask.
RebuildContext(p) ==
    LET s == tx[p].own IN
    /\ Busy(p) /\ tx[p].stage = "settled" /\ s \in DOMAIN tx[p].fix
    /\ ctx' = [ctx EXCEPT ![s] = Ascending(Newest(Window, Seen(tx[p], s)))]
    /\ tx' = [tx EXCEPT ![p].stage = "written"]
    /\ UNCHANGED <<row, home, next, digest, expiring, idle, stale, removing, events, overlapped>>

-----------------------------------------------------------------------------
(* enforce_history_retention *)

\* A sweep; one that finds nothing to delete changes nothing and is left out.
StartSweep ==
    /\ ~Busy(Sweeper)
    /\ \/ \E s \in Ids : Exists(s) /\ row[s].last <= stale
       \/ \E t \in Turns : home[t] # None /\ t <= stale
       \/ Cardinality({t \in Turns : home[t] # None /\ row[home[t]].status # "deleted"}) > MaxTurns
    /\ tx' = [tx EXCEPT ![Sweeper] = [NewTx(None) EXCEPT !.stage = "flushed"]]
    /\ UNCHANGED <<row, home, next, ctx, digest, expiring, idle, stale, removing, events, overlapped>>

\* Sessions that nobody used for 7 days.
SelectAged(p) ==
    LET aged == {s \in Ids : Exists(s) /\ row[s].last <= stale /\ s # tx[p].own} IN
    /\ Busy(p) /\ tx[p].stage = "flushed"
    /\ Forget(aged)
    /\ tx' = [tx EXCEPT ![p].stage = "aged", ![p].drop = aged]
    /\ overlapped' = overlapped \cup {s \in aged : \E q \in Asks : Own(q) = s}
    /\ UNCHANGED <<row, home, next, expiring, idle, stale, removing, events>>

\* Mutant of Overdue: one turn too many, as when the new one is not counted.
OverdueByOne(p) ==
    LET there == {t \in Turns : home[t] # None /\ home[t] \notin tx[p].drop}
        counted == {t \in there : row[home[t]].status # "deleted"}
    IN  {t \in there : t <= stale} \cup (counted \ Newest(MaxTurns - 1, counted))

\* Messages older than 7 days, then all but the newest MaxTurns of the
\* identity; deleted sessions are not counted.  Two transactions cannot
\* delete one message: the select and its deletes are one step here.
Overdue(p) ==
    LET there == {t \in Turns : home[t] # None /\ home[t] \notin tx[p].drop}
        old == {t \in there : t <= stale}
        counted == {t \in there \ old : row[home[t]].status # "deleted"}
                   \cup (IF tx[p].turn # 0 /\ (tx[p].kept => row[tx[p].own].status # "deleted")
                         THEN {tx[p].turn} ELSE {})
    IN  old \cup (counted \ Newest(MaxTurns, counted))

SelectOverdue(p) ==
    LET del == Overdue(p) \ {tx[p].turn}
        affected == {home[t] : t \in del}
    IN
    /\ Busy(p) /\ tx[p].stage = "aged"
    /\ Lockable(p, tx[p].drop)
    /\ \A q \in Procs \ {p} : Busy(q) => tx[q].del \cap del = {}
    /\ tx' = [tx EXCEPT ![p].stage = "deleted", ![p].del = del, ![p].todo = affected,
                        ![p].held = @ \cup tx[p].drop,
                        ![p].clear = {s \in affected : IF s = tx[p].own THEN tx[p].summary # {}
                                                       ELSE row[s].summary # {}}]
    /\ overlapped' = overlapped \cup
          {s \in affected : \/ \E q \in Asks \ {p} : Own(q) = s
                            \/ s = tx[p].own /\ row[s].summary # tx[p].summary}
    /\ UNCHANGED <<row, home, next, ctx, digest, expiring, idle, stale, removing, events>>

\* Mutant of Recount: the cache stays.
RecountOnly(p, s) ==
    /\ Busy(p) /\ tx[p].stage = "deleted" /\ s \in tx[p].todo
    /\ s \in tx[p].clear => Lockable(p, {s})
    /\ tx' = [tx EXCEPT ![p].todo = @ \ {s},
                        ![p].fix = [u \in DOMAIN tx[p].fix \cup {s} |->
                                      IF u = s THEN Cardinality(Seen(tx[p], s)) ELSE tx[p].fix[u]],
                        ![p].held = @ \cup ({s} \cap tx[p].clear)]
    /\ UNCHANGED <<row, home, next, ctx, digest, expiring, idle, stale, removing, events, overlapped>>

\* An affected session: clearing its summary writes the row before the
\* count is taken; its cache goes now, its new count with the flush.
Recount(p, s) ==
    /\ Busy(p) /\ tx[p].stage = "deleted" /\ s \in tx[p].todo
    /\ s \in tx[p].clear => Lockable(p, {s})
    /\ tx' = [tx EXCEPT ![p].todo = @ \ {s},
                        ![p].fix = [u \in DOMAIN tx[p].fix \cup {s} |->
                                      IF u = s THEN Cardinality(Seen(tx[p], s)) ELSE tx[p].fix[u]],
                        ![p].held = @ \cup ({s} \cap tx[p].clear)]
    /\ Forget({s})
    /\ UNCHANGED <<row, home, next, expiring, idle, stale, removing, events, overlapped>>

\* The last flush: it needs the rows of all affected sessions, and drops
\* those whose count was 0.
Settle(p) ==
    LET fix == tx[p].fix
        empty == {s \in DOMAIN fix : fix[s] = 0}
    IN
    /\ Busy(p) /\ tx[p].stage = "deleted" /\ tx[p].todo = {}
    /\ Lockable(p, DOMAIN fix)
    /\ \A s \in DOMAIN fix \ (empty \cup {tx[p].own}) : Exists(s)
    /\ tx' = [tx EXCEPT ![p].stage = IF tx[p].own = None THEN "written" ELSE "settled",
                        ![p].drop = @ \cup empty, ![p].held = @ \cup DOMAIN fix]
    /\ UNCHANGED <<row, home, next, ctx, digest, expiring, idle, stale, removing, events, overlapped>>

-----------------------------------------------------------------------------
(* The end of a transaction *)

\* The row an ask leaves: columns it did not change stay as they are.
Persisted(p) ==
    LET x == tx[p]
        old == IF x.kept THEN row[x.own]
               ELSE [status |-> "active", count |-> 0, summary |-> {}, last |-> 0]
    IN [status |-> IF x.expired THEN "active" ELSE old.status,
        count |-> IF x.own \in DOMAIN x.fix THEN x.fix[x.own] ELSE x.count,
        summary |-> IF x.own \in x.clear THEN {} ELSE IF x.wrote # {} THEN x.wrote ELSE old.summary,
        last |-> x.turn]

Recounted(p, s) ==
    [row[s] EXCEPT !.count = tx[p].fix[s],
                   !.summary = IF s \in tx[p].clear THEN {} ELSE @]

\* Dropping a session takes the messages it has by then.
Commit(p) ==
    LET x == tx[p] IN
    /\ Busy(p) /\ x.stage = "written"
    /\ row' = [s \in Ids |-> IF s \in x.drop THEN Gone
                             ELSE IF s = x.own THEN Persisted(p)
                             ELSE IF s \in DOMAIN x.fix THEN Recounted(p, s) ELSE row[s]]
    /\ home' = [t \in Turns |-> IF t \in x.del \/ home[t] \in x.drop THEN None
                                ELSE IF t = x.turn THEN x.own ELSE home[t]]
    /\ tx' = [tx EXCEPT ![p] = NoTx]
    /\ UNCHANGED <<next, ctx, digest, expiring, idle, stale, removing, events, overlapped>>

\* An UPDATE that finds its row deleted ends the transaction with an error.
RowMissing(p) ==
    /\ Busy(p)
    /\ \/ tx[p].stage = "loaded" /\ tx[p].kept /\ ~Exists(tx[p].own)
       \/ tx[p].stage = "deleted" /\ tx[p].todo = {}
          /\ \E s \in DOMAIN tx[p].fix : tx[p].fix[s] # 0 /\ s # tx[p].own /\ ~Exists(s)
    /\ tx' = [tx EXCEPT ![p] = NoTx]
    /\ UNCHANGED <<row, home, next, ctx, digest, expiring, idle, stale, removing, events, overlapped>>

\* PostgreSQL ends one of two transactions that wait for each other.
Wants(p) ==
    IF ~Busy(p) THEN {}
    ELSE CASE tx[p].stage = "aged" -> tx[p].drop
           [] tx[p].stage = "deleted" -> tx[p].clear \cup DOMAIN tx[p].fix
           [] tx[p].stage = "loaded" -> {tx[p].own}
           [] OTHER -> {}
WaitsFor(p, q) ==
    \/ Wants(p) \cap Held(q) # {}
    \/ Busy(p) /\ Busy(q) /\ tx[p].stage = "aged" /\ Overdue(p) \cap tx[q].del # {}
Victim(p) ==
    /\ \E q \in Procs \ {p} : WaitsFor(p, q) /\ WaitsFor(q, p)
    /\ tx' = [tx EXCEPT ![p] = NoTx]
    /\ UNCHANGED <<row, home, next, ctx, digest, expiring, idle, stale, removing, events, overlapped>>

\* Anything else that fails: the database forgets, Redis does not.  A turn
\* in the context of a failed ask is counted as an overlap.
Fail(p) ==
    /\ Busy(p) /\ Event
    /\ tx' = [tx EXCEPT ![p] = NoTx]
    /\ overlapped' = IF tx[p].stage = "written" THEN overlapped \cup ({tx[p].own} \ {None}) ELSE overlapped
    /\ UNCHANGED <<row, home, next, ctx, digest, expiring, idle, stale, removing>>

-----------------------------------------------------------------------------
(* Expiry, deletion by the user, Redis and time *)

\* expire_idle_sessions selects and clears Redis, then commits.
SelectIdle ==
    LET idlers == {s \in Ids : Exists(s) /\ row[s].status = "active" /\ row[s].last <= idle} IN
    /\ expiring = {} /\ idlers # {} /\ Event
    /\ expiring' = idlers
    /\ Forget(idlers)
    /\ UNCHANGED <<row, home, next, tx, idle, stale, removing, overlapped>>

Expire ==
    /\ expiring # {} /\ Lockable(None, expiring)
    /\ row' = IF \A s \in expiring : Exists(s)
              THEN [s \in Ids |-> IF s \in expiring THEN [row[s] EXCEPT !.status = "expired"] ELSE row[s]]
              ELSE row
    /\ expiring' = {}
    /\ UNCHANGED <<home, next, ctx, digest, tx, idle, stale, removing, events, overlapped>>

\* delete_session commits, then clears Redis.
DeleteSession(s) ==
    /\ Exists(s) /\ row[s].status # "deleted" /\ Lockable(None, {s}) /\ Event
    /\ row' = [row EXCEPT ![s].status = "deleted"]
    /\ removing' = removing \cup {s}
    /\ UNCHANGED <<home, next, ctx, digest, tx, expiring, idle, stale, overlapped>>

ClearDeleted(s) ==
    /\ s \in removing
    /\ removing' = removing \ {s}
    /\ Forget({s})
    /\ UNCHANGED <<row, home, next, tx, expiring, idle, stale, events, overlapped>>

\* The keys of a session run out, or Redis loses them.
LoseCache(s) ==
    /\ ctx[s] # <<>> /\ Event
    /\ Forget({s})
    /\ UNCHANGED <<row, home, next, tx, expiring, idle, stale, removing, overlapped>>

\* Committed turns grow older than 30 minutes and than 7 days.
PassTime ==
    /\ Event
    /\ \/ \E n \in (idle + 1)..(next - 1) :
            /\ \A p \in Procs : Busy(p) /\ tx[p].turn # 0 => n < tx[p].turn
            /\ idle' = n /\ UNCHANGED stale
       \/ \E n \in (stale + 1)..idle : stale' = n /\ UNCHANGED idle
    /\ UNCHANGED <<row, home, next, ctx, digest, tx, expiring, removing, overlapped>>

-----------------------------------------------------------------------------
Retain(p) == SelectAged(p) \/ SelectOverdue(p) \/ (\E s \in Ids : Recount(p, s)) \/ Settle(p)
Work(p) ==
    \/ Reactivate(p) \/ InsertTurn(p) \/ CommitDenied(p)
    \/ Retain(p)
    \/ ReadContext(p) \/ AppendTurn(p) \/ RebuildContext(p)
    \/ Commit(p) \/ RowMissing(p) \/ Victim(p)

Next ==
    \/ \E p \in Asks, s \in Ids : StartSession(p, s) \/ Resume(p, s)
    \/ StartSweep
    \/ \E p \in Procs : Work(p) \/ Fail(p)
    \/ SelectIdle \/ Expire
    \/ \E s \in Ids : DeleteSession(s) \/ ClearDeleted(s) \/ LoseCache(s)
    \/ PassTime

\* The loop of the retention goes on; what has begun ends.  Nobody has to
\* ask, and time may stand still.
Fairness ==
    /\ WF_vars(StartSweep)
    /\ \A p \in Procs : SF_vars(Work(p))

Spec == Init /\ [][Next]_vars /\ Fairness
-----------------------------------------------------------------------------
(* Properties *)

Known(s) == Messages(s) \cup {tx[p].turn : p \in {q \in Asks : Own(q) = s}}

\* What was trimmed is not remembered: neither the hot context nor a summary
\* of a session tells of a turn whose messages are gone, but where an ask
\* overlapped the trimming or failed after it wrote the context
\* (history_retention.py:8).
ForgetsTrimmed ==
    \A s \in Ids \ overlapped :
        Exists(s) => ToSet(ctx[s]) \cup digest[s] \cup row[s].summary \subseteq Known(s)

\* The hot context of a session is the end of its history, in order and
\* without a gap, whichever asks ran at the same time: append_turn reads and
\* writes it under the row lock its caller took.
ContextIsRecent ==
    \A s \in Ids : ctx[s] # <<>> =>
        /\ Increasing(ctx[s])
        /\ {t \in Messages(s) : t >= Head(ctx[s])} \subseteq ToSet(ctx[s])

\* A session with messages has a message_count: the ask that finds no hot
\* context reads the messages again only then.
Counted == \A s \in Ids : Exists(s) /\ Messages(s) # {} => row[s].count > 0

\* Both, whatever asks, sweeps, expiry and deletions do at the same time.
SessionsSound == TypeOK /\ ContextIsRecent /\ Counted

\* A turn that was answered stays until it is 7 days old or MaxTurns newer
\* ones of the identity are there; a trimming that an ask overlaps may take
\* more.
Spared(t) ==
    /\ t > stale
    /\ Cardinality({u \in Turns : u > t /\ (home[u] # None \/ home'[u] # None)}) < MaxTurns
DropsOldest ==
    [][overlapped = {} => \A t \in Turns : home[t] # None /\ Spared(t) => home'[t] = home[t]]_vars

=============================================================================
