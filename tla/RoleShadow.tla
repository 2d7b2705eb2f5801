------------------------------- MODULE RoleShadow -------------------------------
(***************************************************************************)
(* The shadow window of the role caches: for ROLE_CACHE_SHADOW_DAYS days   *)
(* hits are counted and not served, then the caches are closed and the     *)
(* closing is recorded in the audit log.  Redis keeps the start of the     *)
(* window, for a limited time, and who records the closing; every process  *)
(* of the service looks at both, at each question and once in a while.     *)
(***************************************************************************)
EXTENDS Naturals

CONSTANTS
    Observers,  \* processes
    WindowDays, \* ROLE_CACHE_SHADOW_DAYS
    KeyDays,    \* _SHADOW_STARTED_EX_SECONDS, 30 days
    MaxShadowDay, MaxOutages, NoDay \* bounds of the model, and no start of a window

\* The record that the closing was audited is kept longer than the model lasts
\* (365 days).
ASSUME RoleShadowAssumption ==
    /\ {WindowDays, KeyDays} \subseteq Nat \ {0} /\ {MaxShadowDay, MaxOutages} \subseteq Nat
    /\ NoDay \notin Nat

VARIABLES
    shadow_day, \* the day
    started_at, \* key of the start
    closed_key, \* key that the closing is audited
    redis,      \* Redis answers
    observer,   \* maintenance of each process
    audits,     \* audit records of the closing
    opened,     \* history: the day the first window began
    outages

shadow_vars == <<shadow_day, started_at, closed_key, redis, observer, audits, opened, outages>>

ShadowTypeOK ==
    /\ shadow_day \in 0..MaxShadowDay
    /\ started_at \in 0..MaxShadowDay \cup {NoDay}
    /\ closed_key \in BOOLEAN /\ redis \in BOOLEAN
    /\ observer \in [Observers -> {"idle", "closing", "auditing"}]
    /\ audits \in Nat
    /\ opened \in 0..MaxShadowDay \cup {NoDay}
    /\ outages \in 0..MaxOutages

ShadowInit ==
    /\ shadow_day = 0 /\ started_at = NoDay /\ closed_key = FALSE /\ redis = TRUE
    /\ observer = [p \in Observers |-> "idle"]
    /\ audits = 0 /\ opened = NoDay /\ outages = 0

\* _is_window_expired
WindowExpired == started_at # NoDay /\ shadow_day - started_at >= WindowDays

\* resolve_role_cache_lookup_mode: without Redis the caches answer as before.
LookupMode == IF ~redis THEN "normal" ELSE IF WindowExpired THEN "disabled" ELSE "shadow"

\* ensure_shadow_started_at, by the first question or maintenance that finds no
\* start.
OpenWindow ==
    /\ redis /\ started_at = NoDay
    /\ started_at' = shadow_day
    /\ opened' = IF opened = NoDay THEN shadow_day ELSE opened
    /\ UNCHANGED <<shadow_day, closed_key, redis, observer, audits, outages>>

\* role_cache_shadow_maintenance_loop
SeeClosed(p) ==
    /\ observer[p] = "idle" /\ LookupMode = "disabled"
    /\ observer' = [observer EXCEPT ![p] = "closing"]
    /\ UNCHANGED <<shadow_day, started_at, closed_key, redis, audits, opened, outages>>

\* Mutant of ClaimAudit: the key is set, whether it was there or not.
ClaimAlways(p) ==
    /\ observer[p] = "closing"
    /\ IF redis /\ WindowExpired
       THEN closed_key' = TRUE /\ observer' = [observer EXCEPT ![p] = "auditing"]
       ELSE observer' = [observer EXCEPT ![p] = "idle"] /\ UNCHANGED closed_key
    /\ UNCHANGED <<shadow_day, started_at, redis, audits, opened, outages>>

\* maybe_audit_shadow_window_closed: the start is read again, then SET NX.
ClaimAudit(p) ==
    /\ observer[p] = "closing"
    /\ IF redis /\ WindowExpired /\ ~closed_key
       THEN closed_key' = TRUE /\ observer' = [observer EXCEPT ![p] = "auditing"]
       ELSE observer' = [observer EXCEPT ![p] = "idle"] /\ UNCHANGED closed_key
    /\ UNCHANGED <<shadow_day, started_at, redis, audits, opened, outages>>

WriteAudit(p) ==
    /\ observer[p] = "auditing"
    /\ audits' = audits + 1
    /\ observer' = [observer EXCEPT ![p] = "idle"]
    /\ UNCHANGED <<shadow_day, started_at, closed_key, redis, opened, outages>>

\* The database fails, or the process stops: nobody records the closing again.
LoseAudit(p) ==
    /\ observer[p] # "idle" /\ outages < MaxOutages
    /\ outages' = outages + 1
    /\ observer' = [observer EXCEPT ![p] = "idle"]
    /\ UNCHANGED <<shadow_day, started_at, closed_key, redis, audits, opened>>

\* The start runs out, and with it the memory that there was a window.
ExpireStart ==
    /\ started_at # NoDay /\ shadow_day - started_at >= KeyDays
    /\ started_at' = NoDay
    /\ UNCHANGED <<shadow_day, closed_key, redis, observer, audits, opened, outages>>

ToggleRedis ==
    /\ IF redis THEN outages < MaxOutages /\ outages' = outages + 1 ELSE UNCHANGED outages
    /\ redis' = ~redis
    /\ UNCHANGED <<shadow_day, started_at, closed_key, observer, audits, opened>>

NextShadowDay ==
    /\ shadow_day < MaxShadowDay /\ shadow_day' = shadow_day + 1
    /\ UNCHANGED <<started_at, closed_key, redis, observer, audits, opened, outages>>

ShadowNext ==
    \/ OpenWindow \/ ExpireStart \/ ToggleRedis \/ NextShadowDay
    \/ \E p \in Observers : SeeClosed(p) \/ ClaimAudit(p) \/ WriteAudit(p) \/ LoseAudit(p)

ShadowSpec == ShadowInit /\ [][ShadowNext]_shadow_vars

-----------------------------------------------------------------------------
(* Properties *)

\* The closing is recorded once, whichever processes see it, also when the start
\* of the window runs out and another window opens and closes; and not before
\* the first window is over (maybe_audit_shadow_window_closed).
AuditedOnce == audits <= 1 /\ (audits > 0 => shadow_day - opened >= WindowDays)
=============================================================================
