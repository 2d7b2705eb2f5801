------------------------------- MODULE FaqQueue -------------------------------
(***************************************************************************)
(* The generation of the FAQs of one knowledge base: in every process a    *)
(* queue in memory, a worker that drains it and a table of job statuses,   *)
(* and between the processes a Redis lock of the base.                     *)
(*                                                                         *)
(* Code between two awaits is one action.  The queue is unbounded and its  *)
(* lock is never held across an await, so that to put a job is one action  *)
(* too.  What a generation writes is the subject of FaqBase.               *)
(***************************************************************************)
EXTENDS Naturals, Sequences, FiniteSets

CONSTANTS
    Processes, Docs,
    NoDoc,
    MaxPending, \* jobs in the queue of a process (a bound of the model)
    MaxLapses   \* lapses of the lock (a bound of the model)

ASSUME FaqQueueAssumption ==
    /\ IsFiniteSet(Processes) /\ NoDoc \notin Docs
    /\ MaxPending \in Nat /\ MaxLapses \in Nat

VARIABLES
    queue,   \* _kb_queues of every process
    worker,  \* _kb_workers: where the task is, and the document of its job
    status,  \* _doc_faq_job_status
    lock,    \* the Redis lock is set; nothing in it says by whom
    lapses   \* history: times the lock ceased to protect a generation

vars == <<queue, worker, status, lock, lapses>>

Pcs == {"none", "idle", "timedout", "checks", "waiting", "generating", "releasing"}
Statuses == {"none", "queued", "running", "done", "error", "skipped"}
WorkerState == [pc : Pcs, doc : Docs \cup {NoDoc}]
NoWorker == [pc |-> "none", doc |-> NoDoc]
IdleWorker == [pc |-> "idle", doc |-> NoDoc]

TypeOK ==
    /\ queue \in [Processes -> Seq(Docs)]
    /\ worker \in [Processes -> WorkerState]
    /\ status \in [Processes -> [Docs -> Statuses]]
    /\ lock \in BOOLEAN
    /\ lapses \in Nat

Init ==
    /\ queue = [p \in Processes |-> <<>>]
    /\ worker = [p \in Processes |-> NoWorker]
    /\ status = [p \in Processes |-> [d \in Docs |-> "none"]]
    /\ lock = FALSE
    /\ lapses = 0

At(p, pc) == worker[p].pc = pc
Goto(p, pc) == worker' = [worker EXCEPT ![p] = [@ EXCEPT !.pc = pc]]
Report(p, d, s) == status' = [status EXCEPT ![p][d] = s]
Generating == {p \in Processes : worker[p].pc \in {"generating", "releasing"}}
Pending(p) == {queue[p][i] : i \in 1..Len(queue[p])}

-----------------------------------------------------------------------------

\* enqueue_document and _put_faq_job: a worker that has ended is replaced.
Enqueue(p, d) ==
    /\ Len(queue[p]) < MaxPending
    /\ queue' = [queue EXCEPT ![p] = Append(@, d)]
    /\ Report(p, d, "queued")
    /\ worker' = IF At(p, "none") THEN [worker EXCEPT ![p] = IdleWorker] ELSE worker
    /\ UNCHANGED <<lock, lapses>>

TakeJob(p) ==
    /\ At(p, "idle") /\ queue[p] # <<>>
    /\ queue' = [queue EXCEPT ![p] = Tail(@)]
    /\ worker' = [worker EXCEPT ![p] = [pc |-> "checks", doc |-> Head(queue[p])]]
    /\ Report(p, Head(queue[p]), "running")
    /\ UNCHANGED <<lock, lapses>>

\* Nothing came for 300 s.  A job that comes before the task runs again stays
\* in the queue.
IdleTimeout(p) ==
    /\ At(p, "idle") /\ queue[p] = <<>>
    /\ Goto(p, "timedout")
    /\ UNCHANGED <<queue, status, lock, lapses>>

\* Mutant: the worker ends without another look at the queue.
EndAtOnce(p) ==
    /\ At(p, "timedout")
    /\ worker' = [worker EXCEPT ![p] = NoWorker]
    /\ UNCHANGED <<queue, status, lock, lapses>>

IdleExit(p) ==
    /\ At(p, "timedout")
    /\ worker' = [worker EXCEPT ![p] = IF queue[p] = <<>> THEN NoWorker ELSE IdleWorker]
    /\ UNCHANGED <<queue, status, lock, lapses>>

\* The end of a job, which reports what became of it.
EndJob(p, s) ==
    /\ worker' = [worker EXCEPT ![p] = IdleWorker]
    /\ Report(p, worker[p].doc, s)

\* Mutant: a job that fails a check keeps the status it has.
SkipSilently(p) ==
    /\ At(p, "checks") /\ worker' = [worker EXCEPT ![p] = IdleWorker]
    /\ UNCHANGED <<queue, status, lock, lapses>>

\* generate_from_document before the lock: switches, the document, its status
\* and segments, the limits of the base.
Skip(p) ==
    /\ At(p, "checks") /\ EndJob(p, "skipped")
    /\ UNCHANGED <<queue, lock, lapses>>

PassChecks(p) ==
    /\ At(p, "checks") /\ Goto(p, "waiting")
    /\ UNCHANGED <<queue, status, lock, lapses>>

\* Mutant: the lock is set, but its former value is not looked at.
AcquireAlways(p) ==
    /\ At(p, "waiting")
    /\ lock' = TRUE /\ Goto(p, "generating")
    /\ UNCHANGED <<queue, status, lapses>>

\* _acquire_lock: SET NX.  If Redis fails the generation goes on without it.
Acquire(p) ==
    /\ At(p, "waiting") /\ ~lock
    /\ lock' = TRUE /\ Goto(p, "generating")
    /\ UNCHANGED <<queue, status, lapses>>

AcquireFallback(p) ==
    /\ At(p, "waiting") /\ lapses < MaxLapses
    /\ lapses' = lapses + 1 /\ Goto(p, "generating")
    /\ UNCHANGED <<queue, status, lock>>

\* The lock stayed taken for an hour: the job is dropped.
GiveUp(p) ==
    /\ At(p, "waiting") /\ lock /\ EndJob(p, "error")
    /\ UNCHANGED <<queue, lock, lapses>>

\* Commit, or the handler of an exception.
Finish(p) ==
    /\ At(p, "generating") /\ Goto(p, "releasing")
    /\ UNCHANGED <<queue, status, lock, lapses>>

\* _release_lock deletes the key, whoever set it; an error there is swallowed
\* and the key stays until it expires.
Release(p) ==
    /\ At(p, "releasing")
    /\ lock' \in {FALSE, lock}
    /\ \E s \in {"done", "error"} : EndJob(p, s)
    /\ UNCHANGED <<queue, lapses>>

\* An hour after it was set.  It lapses if a generation still relies on it.
ExpireLock ==
    /\ lock /\ lock' = FALSE
    /\ \/ Generating = {} /\ UNCHANGED lapses
       \/ Generating # {} /\ lapses < MaxLapses /\ lapses' = lapses + 1
    /\ UNCHANGED <<queue, worker, status>>

\* The process stops and starts again: its queue is gone, the lock is not.
Restart(p) ==
    /\ ~At(p, "none")
    /\ queue' = [queue EXCEPT ![p] = <<>>]
    /\ worker' = [worker EXCEPT ![p] = NoWorker]
    /\ status' = [status EXCEPT ![p] = [d \in Docs |-> "none"]]
    /\ UNCHANGED <<lock, lapses>>

Work(p) ==
    \/ TakeJob(p) \/ IdleTimeout(p) \/ IdleExit(p) \/ Skip(p) \/ PassChecks(p)
    \/ Acquire(p) \/ AcquireFallback(p) \/ GiveUp(p) \/ Finish(p) \/ Release(p)

Next ==
    \/ \E p \in Processes : Work(p) \/ Restart(p) \/ \E d \in Docs : Enqueue(p, d)
    \/ ExpireLock

\* A worker that can go on does: waits have deadlines, the calls of the model
\* time out.  Nobody has to enqueue, and no process has to stop.
Spec == Init /\ [][Next]_vars /\ \A p \in Processes : WF_vars(Work(p))

-----------------------------------------------------------------------------
(* Properties *)

\* "Serial queue ... nothing is dropped" (enqueue_document): a job in a queue has
\* a task that will take it, although tasks end when they find nothing to do.
QueuedHasWorker == \A p \in Processes : queue[p] # <<>> => ~At(p, "none")

\* Generations of one base exclude each other (the comment on the lock), up to
\* one more at a time for every lapse: an expiry, or a call of Redis that failed.
\* A holder that comes too late and deletes the lock of its successor does not
\* add to it.
Holding == IF lock THEN 1 ELSE 0
OneGeneration == Cardinality(Generating) <= Holding + lapses

\* What the progress of an upload shows: a job that is queued is in the queue,
\* and one that is running is the job of the worker.
StatusHonest ==
    \A p \in Processes, d \in Docs :
        /\ status[p][d] = "queued" => d \in Pending(p)
        /\ status[p][d] = "running" => worker[p].doc = d

\* A job that is waiting or running comes to an end, also behind the lock of a
\* process that is gone.
JobsEnd ==
    \A p \in Processes, d \in Docs :
        (status[p][d] \in {"queued", "running"}) ~> (status[p][d] \notin {"queued", "running"})
=============================================================================
