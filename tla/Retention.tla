------------------------------- MODULE Retention -------------------------------
(***************************************************************************)
(* How long the snapshots of a knowledge base are kept.  Every operation   *)
(* that makes one, a rollback, and an administrator who asks for it, delete *)
(* what is too old and then what is too many, in a transaction in which    *)
(* each statement sees what others have committed by then.  Only rollbacks *)
(* lock the base.  Deleting a snapshot marks it.                           *)
(***************************************************************************)
EXTENDS Naturals, Sequences, FiniteSets

CONSTANTS
    Writers,       \* transactions in flight at a time
    MaxCount,      \* SNAPSHOT_MAX_COUNT
    RetentionDays, \* SNAPSHOT_RETENTION_DAYS
    MaxSnapshots, MaxDay \* bounds of the model

ASSUME RetentionAssumption ==
    /\ {MaxCount, MaxSnapshots} \subseteq Nat \ {0} /\ {RetentionDays, MaxDay} \subseteq Nat
    /\ IsFiniteSet(Writers)

VARIABLES
    snapshots, \* in the order of created_at
    today,
    txn        \* the transaction of each writer

retention_vars == <<snapshots, today, txn>>

-----------------------------------------------------------------------------
(* State *)

NoTxn == [stage |-> "none"]
Snapshot == [protection : BOOLEAN, day : 0..MaxDay, by : Writers,
             status : {"uncommitted", "active", "deleted", "undone"}]
\* keep: exclude_ids; gone: what the transaction has marked deleted.
Txn == [stage : {"made", "expired", "cleaned"}, own : 0..MaxSnapshots, target : 0..MaxSnapshots,
        keep : SUBSET (1..MaxSnapshots), gone : SUBSET (1..MaxSnapshots)]

RetentionTypeOK ==
    /\ snapshots \in Seq(Snapshot) /\ Len(snapshots) <= MaxSnapshots
    /\ today \in 0..MaxDay
    /\ txn \in [Writers -> Txn \cup {NoTxn}]

RetentionInit ==
    /\ snapshots = <<>> /\ today = 0
    /\ txn = [p \in Writers |-> NoTxn]

Active == {i \in DOMAIN snapshots : snapshots[i].status = "active"}
Quota(S) == {i \in S : ~snapshots[i].protection}
Seen(p) == {i \in DOMAIN snapshots : \/ snapshots[i].status = "active"
                                     \/ snapshots[i].status = "uncommitted" /\ snapshots[i].by = p}
           \ txn[p].gone
Rollbacks == {p \in Writers : txn[p] # NoTxn /\ txn[p].target # 0}

-----------------------------------------------------------------------------
(* Transactions *)

SnapshotRow(p, protection) == [protection |-> protection, day |-> today, by |-> p, status |-> "uncommitted"]

\* _create_snapshot_internal for a manual or an automatic snapshot.
CreateSnapshot(p) ==
    /\ txn[p] = NoTxn /\ Len(snapshots) < MaxSnapshots
    /\ snapshots' = Append(snapshots, SnapshotRow(p, FALSE))
    /\ LET own == Len(snapshots) + 1 IN
       txn' = [txn EXCEPT ![p] = [stage |-> "made", own |-> own, target |-> 0, keep |-> {own}, gone |-> {}]]
    /\ UNCHANGED today

\* The protection snapshot is made without cleaning up; rollback does it last.
StartRollback(p, i) ==
    /\ txn[p] = NoTxn /\ Len(snapshots) < MaxSnapshots
    /\ Rollbacks = {} /\ i \in Active
    /\ snapshots' = Append(snapshots, SnapshotRow(p, TRUE))
    /\ LET own == Len(snapshots) + 1 IN
       txn' = [txn EXCEPT ![p] = [stage |-> "made", own |-> own, target |-> i, keep |-> {i, own}, gone |-> {}]]
    /\ UNCHANGED today

\* run_policy_cleanup.
PolicyCleanup(p) ==
    /\ txn[p] = NoTxn
    /\ txn' = [txn EXCEPT ![p] = [stage |-> "made", own |-> 0, target |-> 0, keep |-> {}, gone |-> {}]]
    /\ UNCHANGED <<snapshots, today>>

\* cleanup_expired: protection snapshots too.
CleanupExpired(p) ==
    /\ txn[p].stage = "made"
    /\ txn' = [txn EXCEPT ![p].stage = "expired",
                 ![p].gone = {i \in Seen(p) \ txn[p].keep : today - snapshots[i].day > RetentionDays}]
    /\ UNCHANGED <<snapshots, today>>

\* _delete_oldest: the first of those the quota counts.
Oldest(p, n) ==
    LET old == Quota(Seen(p)) \ txn[p].keep IN
    {i \in old : Cardinality({j \in old : j < i}) < n}

\* (Mutant: it starts one snapshot too late.)
CleanupLate(p) ==
    /\ txn[p].stage = "expired"
    /\ LET count == Cardinality(Quota(Seen(p))) IN
       txn' = [txn EXCEPT ![p].stage = "cleaned",
                 ![p].gone = @ \cup IF count > MaxCount + 1 THEN Oldest(p, count - MaxCount) ELSE {}]
    /\ UNCHANGED <<snapshots, today>>

\* cleanup_excess.
CleanupExcess(p) ==
    /\ txn[p].stage = "expired"
    /\ LET count == Cardinality(Quota(Seen(p))) IN
       txn' = [txn EXCEPT ![p].stage = "cleaned",
                 ![p].gone = @ \cup IF count > MaxCount THEN Oldest(p, count - MaxCount) ELSE {}]
    /\ UNCHANGED <<snapshots, today>>

CommitTxn(p) ==
    /\ txn[p].stage = "cleaned"
    /\ snapshots' = [i \in DOMAIN snapshots |->
         IF i \in txn[p].gone THEN [snapshots[i] EXCEPT !.status = "deleted"]
         ELSE IF i = txn[p].own THEN [snapshots[i] EXCEPT !.status = "active"] ELSE snapshots[i]]
    /\ txn' = [txn EXCEPT ![p] = NoTxn]
    /\ UNCHANGED today

\* The operation the snapshot was made for fails, or the process stops.
Undo(p) ==
    /\ txn[p] # NoTxn
    /\ snapshots' = IF txn[p].own = 0 THEN snapshots
                    ELSE [snapshots EXCEPT ![txn[p].own].status = "undone"]
    /\ txn' = [txn EXCEPT ![p] = NoTxn]
    /\ UNCHANGED today

\* delete_snapshot: by hand, never a protection snapshot.
DeleteSnapshot(i) ==
    /\ i \in Active /\ ~snapshots[i].protection
    /\ snapshots' = [snapshots EXCEPT ![i].status = "deleted"]
    /\ UNCHANGED <<today, txn>>

NextDay == today < MaxDay /\ today' = today + 1 /\ UNCHANGED <<snapshots, txn>>

-----------------------------------------------------------------------------
(* Specification *)

RetentionNext ==
    \/ \E p \in Writers :
         \/ CreateSnapshot(p) \/ PolicyCleanup(p)
         \/ CleanupExpired(p) \/ CleanupExcess(p) \/ CommitTxn(p) \/ Undo(p)
         \/ \E i \in DOMAIN snapshots : StartRollback(p, i)
    \/ \E i \in DOMAIN snapshots : DeleteSnapshot(i)
    \/ NextDay

RetentionSpec == RetentionInit /\ [][RetentionNext]_retention_vars

-----------------------------------------------------------------------------
(* Properties *)

\* The quota is exceeded by no more than the other transactions in flight can
\* add: two that overlap do not see each other's snapshot and mark the same
\* oldest one, and no lock prevents it (count_active, cleanup_excess).
QuotaKept == Cardinality(Quota(Active)) <= MaxCount + Cardinality(Writers) - 1

\* A protection snapshot is deleted by its age only, never by the quota or by
\* hand: while it is young, the rebuild of its rollback can be compensated.  And
\* no operation deletes the snapshot it has made or the one it rolls back to
\* (_delete_oldest, cleanup_expired, delete_snapshot).
NeededStays ==
    /\ \A i \in DOMAIN snapshots : snapshots[i].protection /\ snapshots[i].status = "deleted" =>
          today - snapshots[i].day > RetentionDays
    /\ \A p \in Writers : txn[p] # NoTxn => {txn[p].own, txn[p].target} \cap txn[p].gone = {}

\* Cleaning up takes enough and not too much (run_policy_cleanup).
CleanupKept == QuotaKept /\ NeededStays
=============================================================================
