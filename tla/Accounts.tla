------------------------------- MODULE Accounts -------------------------------
(***************************************************************************)
(* Users, roles and levels: registration, the requests of administrators,  *)
(* and the start of the service, which brings a database of any age in     *)
(* line with the built-in roles.  Roles are named; what depends on a name, *)
(* the rank, the level and the built-in permissions, is looked up by it.   *)
(*                                                                         *)
(* A request is one transaction, here one step.                            *)
(***************************************************************************)
EXTENDS Naturals, FiniteSets, FiniteSetsExt

CONSTANTS
    Members,       \* accounts, "super" among them
    Names,         \* role names
    Builtin,       \* BUILTIN_ROLES
    Permissions,   \* permission codes
    CodeLists,     \* sets of codes that clients send
    BuiltinCodes,  \* the codes of each built-in role
    RankOf,        \* ROLE_RANK, 5 for other names
    LevelOf,       \* ROLE_SENSITIVITY_MAPPING: 0 (normal) for other names
    Successor,     \* retired roles and what replaces each
    OldRoles,      \* sets of roles that users of an older version have
    MaxAccountRequests \* requests that change something (a bound of the model)

Super == "super"
Levels == 0..2

ASSUME AccountsAssumption ==
    /\ Super \in Members /\ {"super_admin", "admin", "guest"} \subseteq Builtin /\ Builtin \subseteq Names
    /\ CodeLists \subseteq SUBSET Permissions
    /\ BuiltinCodes \in [Builtin -> SUBSET Permissions] /\ BuiltinCodes["super_admin"] = Permissions
    /\ RankOf \in [Names -> Nat \ {0}]
    /\ LevelOf \in [Names -> Levels]
    /\ DOMAIN Successor \subseteq Names \ Builtin
    /\ \A n \in DOMAIN Successor : Successor[n] \in Builtin \ {"super_admin"}
    /\ OldRoles \subseteq SUBSET Names
    /\ MaxAccountRequests \in Nat

VARIABLES
    account,     \* users
    role,        \* roles by name
    level,       \* role_sensitivity_permissions by name, NoLevel without a row
    override,    \* levels of users by way of user_sensitivity_overrides
    logged,      \* users that audit_logs refer to
    served,      \* the service has started
    account_requests

account_vars == <<account, role, level, override, logged, served, account_requests>>

-----------------------------------------------------------------------------
(* State *)

NoLevel == 3
NoAccount == [there |-> FALSE, status |-> "active", roles |-> {}]
NoRole == [there |-> FALSE, enabled |-> FALSE, builtin |-> FALSE, codes |-> {}]
Account == [there : BOOLEAN, status : {"active", "disabled"}, roles : SUBSET Names]
Role == [there : BOOLEAN, enabled : BOOLEAN, builtin : BOOLEAN, codes : SUBSET Permissions]

AccountsTypeOK ==
    /\ account \in [Members -> Account]
    /\ role \in [Names -> Role]
    /\ level \in [Names -> Levels \cup {NoLevel}]
    /\ override \in [Members -> Levels \cup {NoLevel}]
    /\ logged \subseteq Members /\ served \in BOOLEAN
    /\ account_requests \in 0..MaxAccountRequests
    /\ \A u \in Members : \A n \in account[u].roles : account[u].there /\ role[n].there

EnabledRoles(u) == {n \in account[u].roles : role[n].enabled}
MaxRoleRank(u) == Max({0} \cup {RankOf[n] : n \in EnabledRoles(u)})
\* The account super may do everything, others what their enabled roles allow.
HasPermission(u, code) ==
    /\ account[u].there /\ account[u].status = "active"
    /\ u = Super \/ \E n \in EnabledRoles(u) : code \in role[n].codes

\* resolve_user_max_level: the highest of its roles, or an override above that.
RoleLevel(n) == IF level[n] = NoLevel THEN LevelOf[n] ELSE level[n]
UserMaxLevel(u) ==
    Max({0} \cup {RoleLevel(n) : n \in EnabledRoles(u)} \cup ({override[u]} \ {NoLevel}))

-----------------------------------------------------------------------------
(* The start of the service *)

\* Built-in roles are made when missing, and get their codes every time.
SeededRoles == [n \in Names |->
    IF n \in Builtin THEN [there |-> TRUE, enabled |-> role[n].there => role[n].enabled,
                           builtin |-> TRUE, codes |-> BuiltinCodes[n]]
    ELSE role[n]]

\* (Mutant: the others keep super_admin.)
KeepSuper(roles) == roles
\* (Mutant: the others lose super_admin and get nothing.)
StripSuper(roles) == roles \ {"super_admin"}

\* super is there, active and super_admin; whoever else was is admin.
WithoutSuper(roles) == IF "super_admin" \in roles THEN (roles \ {"super_admin"}) \cup {"admin"} ELSE roles
\* Retired roles are replaced.
Migrated(roles) == {IF n \in DOMAIN Successor THEN Successor[n] ELSE n : n \in roles}
SeededAccounts == [u \in Members |->
    IF u = Super THEN [there |-> TRUE, status |-> "active",
                       roles |-> Migrated(account[u].roles \cup {"super_admin"})]
    ELSE [account[u] EXCEPT !.roles = Migrated(WithoutSuper(@))]]

EnsureDefaults == [n \in Names |-> IF level[n] = NoLevel /\ LevelOf[n] # 0 THEN LevelOf[n] ELSE level[n]]

StartService ==
    /\ account_requests < MaxAccountRequests /\ account_requests' = account_requests + 1
    /\ account' = SeededAccounts
    /\ role' = [n \in Names |-> IF n \in DOMAIN Successor THEN NoRole ELSE SeededRoles[n]]
    /\ level' = EnsureDefaults
    /\ served' = TRUE
    /\ UNCHANGED <<override, logged>>

\* An empty database, or one of an older version with roles by these names.
AccountsInit ==
    /\ \/ /\ role = [n \in Names |-> NoRole]
          /\ account = [u \in Members |-> NoAccount]
       \/ /\ role = [n \in Names |-> [NoRole EXCEPT !.there = TRUE, !.enabled = TRUE]]
          /\ account \in [Members -> {NoAccount} \cup
                              [there : {TRUE}, status : {"disabled"}, roles : OldRoles]]
    /\ level = [n \in Names |-> NoLevel]
    /\ override = [u \in Members |-> NoLevel]
    /\ logged = {} /\ served = FALSE /\ account_requests = 0

-----------------------------------------------------------------------------
(* Requests *)

\* A request by somebody who may make it; the audit log refers to them.
By(operator, code) ==
    /\ served /\ HasPermission(operator, code)
    /\ account_requests < MaxAccountRequests /\ account_requests' = account_requests + 1
    /\ UNCHANGED served

SetAccount(u, new) == account' = [account EXCEPT ![u] = new] /\ UNCHANGED <<role, level, override>>

Register(u) ==
    /\ served /\ account_requests < MaxAccountRequests /\ account_requests' = account_requests + 1
    /\ ~account[u].there /\ role["guest"].there
    /\ SetAccount(u, [there |-> TRUE, status |-> "active", roles |-> {"guest"}])
    /\ logged' = logged \cup {u}
    /\ UNCHANGED served

\* login and change_password write the log only.
Login(u) ==
    /\ served /\ account[u].there
    /\ logged' = logged \cup {u}
    /\ UNCHANGED <<account, role, level, override, served, account_requests>>

\* Roles there are, below the rank of the operator unless that is super, and
\* never super_admin; without any, guest.
CreateUser(operator, u, roles) ==
    /\ By(operator, "user:write")
    /\ ~account[u].there /\ u # Super
    /\ \A n \in roles : role[n].there /\ n # "super_admin"
    /\ operator # Super => \A n \in roles : RankOf[n] < MaxRoleRank(operator)
    /\ roles = {} => role["guest"].there
    /\ SetAccount(u, [there |-> TRUE, status |-> "active",
                      roles |-> IF roles = {} THEN {"guest"} ELSE roles])
    /\ logged' = logged \cup {operator}

CanManage(operator, u) == /\ u # operator /\ u # Super
                          /\ account[u].there
                          /\ MaxRoleRank(u) < MaxRoleRank(operator)

SetUserStatus(operator, u, status) ==
    /\ By(operator, "user:write") /\ CanManage(operator, u)
    /\ SetAccount(u, [account[u] EXCEPT !.status = status])
    /\ logged' = logged \cup {operator}

SetRoles(operator, u, roles) ==
    /\ By(operator, "user:write") /\ CanManage(operator, u)
    /\ \A n \in roles : role[n].there
    /\ "super_admin" \notin roles \cup account[u].roles
    /\ operator # Super => \A n \in roles : RankOf[n] < MaxRoleRank(operator)
    /\ SetAccount(u, [account[u] EXCEPT !.roles = roles])
    /\ logged' = logged \cup {operator}

\* audit_logs refer to users without a cascade: the row of somebody who is in
\* the log cannot be deleted.
DeleteUser(operator, u) ==
    /\ By(operator, "user:write") /\ CanManage(operator, u)
    /\ u \notin logged
    /\ account' = [account EXCEPT ![u] = NoAccount]
    /\ override' = [override EXCEPT ![u] = NoLevel]
    /\ logged' = logged \cup {operator}
    /\ UNCHANGED <<role, level>>

DeleteLogs(operator, users) ==
    /\ By(operator, "audit:read")
    /\ logged' = logged \ users
    /\ UNCHANGED <<account, role, level, override>>

SetRole(n, new) == role' = [role EXCEPT ![n] = new] /\ UNCHANGED <<account, level, override>>

CreateRole(operator, n, codes) ==
    /\ By(operator, "role:write")
    /\ ~role[n].there
    /\ SetRole(n, [there |-> TRUE, enabled |-> TRUE, builtin |-> FALSE, codes |-> codes])
    /\ logged' = logged \cup {operator}

GuardSuperRole(operator, n) == n = "super_admin" => operator = Super

\* Another name, or enabled and not.  Users keep the role under its new name;
\* the level belongs to the name.
UpdateRole(operator, n, new, enabled) ==
    /\ By(operator, "role:write") /\ GuardSuperRole(operator, n)
    /\ role[n].there
    /\ new # n => ~role[n].builtin /\ ~role[new].there
    /\ role' = [r \in Names |-> CASE r = new -> [role[n] EXCEPT !.enabled = enabled]
                                  [] r = n /\ r # new -> NoRole
                                  [] OTHER   -> role[r]]
    /\ account' = [u \in Members |->
                     [account[u] EXCEPT !.roles = {IF r = n THEN new ELSE r : r \in @}]]
    /\ logged' = logged \cup {operator}
    /\ UNCHANGED <<level, override>>

DeleteRole(operator, n) ==
    /\ By(operator, "role:write") /\ operator = Super
    /\ role[n].there /\ ~role[n].builtin
    /\ \A u \in Members : n \notin account[u].roles
    /\ SetRole(n, NoRole)
    /\ logged' = logged \cup {operator}

SetPermissions(operator, n, codes) ==
    /\ By(operator, "role:write") /\ operator = Super
    /\ role[n].there
    /\ SetRole(n, [role[n] EXCEPT !.codes = codes])
    /\ logged' = logged \cup {operator}

\* Levels of roles, by super; the role need not exist.
SetRoleLevel(operator, n, l) ==
    /\ By(operator, "system:read") /\ operator = Super
    /\ level' = [level EXCEPT ![n] = l]
    /\ UNCHANGED <<account, role, override, logged>>

\* Showing them inserts the defaults that are missing.
ListRoleLevels(operator) ==
    /\ By(operator, "system:read")
    /\ level' = EnsureDefaults
    /\ UNCHANGED <<account, role, override, logged>>

\* Set for a user, or deleted, or expired (NoLevel).
SetOverride(operator, u, l) ==
    /\ By(operator, "user:write")
    /\ account[u].there
    /\ override' = [override EXCEPT ![u] = l]
    /\ UNCHANGED <<account, role, level, logged>>

AccountsNext ==
    \/ StartService
    \/ \E u \in Members : Register(u) \/ Login(u)
    \/ \E operator \in Members :
        \/ \E u \in Members :
            \/ \E roles \in SUBSET Names : CreateUser(operator, u, roles) \/ SetRoles(operator, u, roles)
            \/ \E status \in {"active", "disabled"} : SetUserStatus(operator, u, status)
            \/ DeleteUser(operator, u)
            \/ \E l \in Levels \cup {NoLevel} : SetOverride(operator, u, l)
        \/ \E users \in SUBSET Members : DeleteLogs(operator, users)
        \/ \E n \in Names :
            \/ \E codes \in CodeLists : CreateRole(operator, n, codes) \/ SetPermissions(operator, n, codes)
            \/ \E new \in Names, enabled \in BOOLEAN : UpdateRole(operator, n, new, enabled)
            \/ DeleteRole(operator, n)
            \/ \E l \in Levels : SetRoleLevel(operator, n, l)
        \/ ListRoleLevels(operator)

AccountsSpec == AccountsInit /\ [][AccountsNext]_account_vars

-----------------------------------------------------------------------------
(* Properties *)

\* Whatever the database was before and whatever administrators do: once the
\* service runs, super is the one super administrator, is active, and nobody
\* else is; and the roles it stands on are there.
OneSuper == served =>
    /\ account[Super].there /\ account[Super].status = "active"
    /\ {u \in Members : "super_admin" \in account[u].roles} = {Super}
    /\ \A n \in Builtin : role[n].there /\ role[n].builtin

\* No start of the service and no look at the levels leaves a user who had a
\* role without any, or, with the levels as they are by default, below the
\* level they had.
HousekeepingKeeps == [][StartService \/ (\E u \in Members : ListRoleLevels(u)) =>
    \A u \in Members : account[u].there =>
        /\ account[u].roles # {} => account'[u].roles # {}
        /\ served /\ account[u].roles \cap DOMAIN Successor = {} => UserMaxLevel(u)' = UserMaxLevel(u)]_account_vars
=============================================================================
