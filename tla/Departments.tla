----------------------------- MODULE Departments -----------------------------
(***************************************************************************)
(* Who may search which knowledge base by way of departments: the codes    *)
(* departments have, the code in every user's row, the links of a base to  *)
(* codes, and the two columns kept from before there were links: the       *)
(* visibility of a base and its first department.  Snapshots keep the      *)
(* visibility; the start of the service reconciles the columns and links.  *)
(*                                                                         *)
(* Codes are strings: users and links name a department without a foreign  *)
(* key, and two ways to set one do not ask whether it exists.  A request   *)
(* is one transaction, here one step.                                      *)
(***************************************************************************)
EXTENDS Naturals, FiniteSets, FiniteSetsExt

CONSTANTS
    Codes,     \* codes in use, numbers in the order of their strings
    Guest,     \* GUEST_DEPARTMENT_CODE
    Seeded,    \* codes of the departments that every start creates
    Users, KBs,
    NoCode,
    MaxAdmin   \* requests that change something (a bound of the model)

ASSUME DepartmentsAssumption ==
    /\ Codes \subseteq Nat /\ Guest \in Codes /\ Seeded \subseteq Codes /\ Guest \in Seeded
    /\ NoCode \notin Codes /\ MaxAdmin \in Nat

VARIABLES
    departments, \* codes of the departments there are
    member,      \* users.department
    kb,          \* the bases
    kept,        \* the visibility in the snapshots of each base
    requests,
    reverted     \* history: bases whose visibility a rollback has written

dept_vars == <<departments, member, kb, kept, requests, reverted>>

-----------------------------------------------------------------------------
(* State *)

States == {"none", "active", "deleted"}
Visibilities == {"public", "restricted"}
KB == [state : States, links : SUBSET Codes, department : Codes \cup {NoCode},
       visibility : Visibilities]
NoKB == [state |-> "none", links |-> {}, department |-> NoCode, visibility |-> "restricted"]
Live(b) == kb[b].state = "active"

\* GUEST first, then the least.
PrimaryDepartment(codes) ==
    IF codes = {} THEN NoCode ELSE IF Guest \in codes THEN Guest ELSE Min(codes)
DeriveVisibility(codes) == IF Guest \in codes THEN "public" ELSE "restricted"
Linked(b, codes) ==
    [b EXCEPT !.links = codes, !.department = PrimaryDepartment(codes),
              !.visibility = DeriveVisibility(codes)]

\* resolve_kb_targets: the bases a guest and a user without rights of their
\* own may search.
GuestMay == {b \in KBs : Live(b) /\ Guest \in kb[b].links}
May(u) == {b \in KBs : Live(b) /\ {Guest, member[u]} \cap kb[b].links # {}}

DeptTypeOK ==
    /\ departments \subseteq Codes
    /\ member \in [Users -> Codes \cup {NoCode}]
    /\ kb \in [KBs -> KB]
    /\ kept \in [KBs -> SUBSET Visibilities]
    /\ requests \in 0..MaxAdmin
    /\ reverted \subseteq KBs

DeptInit ==
    /\ departments = Seeded
    /\ member = [u \in Users |-> NoCode]
    /\ kb = [b \in KBs |-> NoKB]
    /\ kept = [b \in KBs |-> {}]
    /\ requests = 0
    /\ reverted = {}

Request == requests < MaxAdmin /\ requests' = requests + 1

-----------------------------------------------------------------------------
(* Departments *)

CreateDepartment(c) ==
    /\ Request
    /\ c \notin departments
    /\ departments' = departments \cup {c}
    /\ UNCHANGED <<member, kb, kept, reverted>>

Rename(code, old, new) == IF code = old THEN new ELSE code
\* (Mutant: the links keep the old code.)
RenameWithoutLinks(old, new) ==
    /\ Request
    /\ old \in departments \ {Guest} /\ new \notin departments
    /\ \A b \in KBs : ~({old, new} \subseteq kb[b].links)
    /\ departments' = (departments \ {old}) \cup {new}
    /\ member' = [u \in Users |-> Rename(member[u], old, new)]
    /\ kb' = [b \in KBs |-> [kb[b] EXCEPT !.department = Rename(@, old, new)]]
    /\ UNCHANGED <<kept, reverted>>

\* Users, first departments and links follow.  A base that has both links
\* already makes the request fail on their unique key.
RenameDepartment(old, new) ==
    /\ Request
    /\ old \in departments \ {Guest} /\ new \notin departments
    /\ \A b \in KBs : ~({old, new} \subseteq kb[b].links)
    /\ departments' = (departments \ {old}) \cup {new}
    /\ member' = [u \in Users |-> Rename(member[u], old, new)]
    /\ kb' = [b \in KBs |-> [kb[b] EXCEPT
                 !.links = {Rename(c, old, new) : c \in kb[b].links},
                 !.department = Rename(@, old, new)]]
    /\ UNCHANGED <<kept, reverted>>

\* Links of bases that are softly deleted stay.
DeleteDepartment(c) ==
    /\ Request
    /\ c \in departments \ {Guest}
    /\ departments' = departments \ {c}
    /\ member' = [u \in Users |-> Rename(member[u], c, NoCode)]
    /\ kb' = [b \in KBs |-> IF Live(b) /\ c \in kb[b].links
                            THEN Linked(kb[b], kb[b].links \ {c}) ELSE kb[b]]
    /\ UNCHANGED <<kept, reverted>>

AddMember(c, u) ==
    /\ Request
    /\ c \in departments
    /\ member' = [member EXCEPT ![u] = c]
    /\ UNCHANGED <<departments, kb, kept, reverted>>

RemoveMember(c, u) ==
    /\ Request
    /\ c \in departments /\ member[u] = c
    /\ member' = [member EXCEPT ![u] = NoCode]
    /\ UNCHANGED <<departments, kb, kept, reverted>>

\* update_user takes any code.
UpdateUser(u, c) ==
    /\ Request
    /\ member' = [member EXCEPT ![u] = c]
    /\ UNCHANGED <<departments, kb, kept, reverted>>

-----------------------------------------------------------------------------
(* Bases *)

SetKB(b, new) == kb' = [kb EXCEPT ![b] = new] /\ UNCHANGED <<departments, member, kept>>

\* A link that is there stays; the columns are computed again all the same.
AddLink(c, b) ==
    /\ Request
    /\ c \in departments /\ Live(b)
    /\ SetKB(b, Linked(kb[b], kb[b].links \cup {c}))
    /\ reverted' = reverted \ {b}

\* (Mutant: the columns are not computed again.)
RemoveLinkOnly(c, b) ==
    /\ Request
    /\ c \in departments /\ Live(b) /\ c \in kb[b].links
    /\ SetKB(b, [kb[b] EXCEPT !.links = @ \ {c}])
    /\ reverted' = reverted \ {b}

RemoveLink(c, b) ==
    /\ Request
    /\ c \in departments /\ Live(b) /\ c \in kb[b].links
    /\ SetKB(b, Linked(kb[b], kb[b].links \ {c}))
    /\ reverted' = reverted \ {b}

\* create_kb and update_kb replace all links, by any codes.
CreateKB(b, codes) ==
    /\ Request
    /\ kb[b].state = "none"
    /\ SetKB(b, Linked([NoKB EXCEPT !.state = "active"], codes))
    /\ UNCHANGED reverted

ReplaceLinks(b, codes) ==
    /\ Request
    /\ Live(b)
    /\ SetKB(b, Linked(kb[b], codes))
    /\ reverted' = reverted \ {b}

DeleteKB(b) ==
    /\ Request
    /\ Live(b)
    /\ SetKB(b, [kb[b] EXCEPT !.state = "deleted"])
    /\ UNCHANGED reverted

\* Permanently: its links and snapshots go with it.
PurgeKB(b) ==
    /\ Request
    /\ kb[b].state # "none"
    /\ kb' = [kb EXCEPT ![b] = NoKB]
    /\ kept' = [kept EXCEPT ![b] = {}]
    /\ reverted' = reverted \ {b}
    /\ UNCHANGED <<departments, member>>

\* Part of every snapshot of the base.
TakeSnapshot(b) ==
    /\ Request
    /\ Live(b)
    /\ kept' = [kept EXCEPT ![b] = @ \cup {kb[b].visibility}]
    /\ UNCHANGED <<departments, member, kb, reverted>>

\* A rollback of the whole base restores the visibility, not the links; the
\* snapshot that protects it keeps the present one.
Rollback(b, v) ==
    /\ Request
    /\ Live(b) /\ v \in kept[b]
    /\ kb' = [kb EXCEPT ![b].visibility = v]
    /\ kept' = [kept EXCEPT ![b] = @ \cup {kb[b].visibility}]
    /\ reverted' = reverted \cup {b}
    /\ UNCHANGED <<departments, member>>

-----------------------------------------------------------------------------
(* The start of the service *)

\* seed_departments: a public base belongs to GUEST, a base of GUEST is public
\* and no other one is; then its first department has a link.
Reconciled(b) ==
    LET code == IF b.visibility = "public" THEN Guest ELSE b.department
        old == [b EXCEPT !.department = code,
                         !.visibility = IF code = Guest THEN "public" ELSE "restricted"]
    IN IF b.state = "active" /\ code # NoCode
       THEN [old EXCEPT !.links = @ \cup {code}] ELSE old
Restart ==
    /\ Request
    /\ departments' = departments \cup Seeded
    /\ kb' = [b \in KBs |-> IF kb[b].state = "none" THEN kb[b] ELSE Reconciled(kb[b])]
    /\ UNCHANGED <<member, kept, reverted>>

DeptNext ==
    \/ \E c \in Codes : \/ CreateDepartment(c) \/ DeleteDepartment(c)
                        \/ \E new \in Codes : RenameDepartment(c, new)
                        \/ \E u \in Users : AddMember(c, u) \/ RemoveMember(c, u)
                        \/ \E b \in KBs : AddLink(c, b) \/ RemoveLink(c, b)
    \/ \E u \in Users, c \in Codes \cup {NoCode} : UpdateUser(u, c)
    \/ \E b \in KBs : \/ \E codes \in SUBSET Codes : CreateKB(b, codes) \/ ReplaceLinks(b, codes)
                      \/ DeleteKB(b) \/ PurgeKB(b) \/ TakeSnapshot(b)
                      \/ \E v \in Visibilities : Rollback(b, v)
    \/ Restart

DeptSpec == DeptInit /\ [][DeptNext]_dept_vars

-----------------------------------------------------------------------------
(* Properties *)

\* The columns agree with the links, which are the authority, unless a rollback
\* has written the visibility since: nobody is shown, and no start of the
\* service makes, a base more or less public than its links.
ColumnsFollowLinks == \A b \in KBs \ reverted : kb[b].state = "active" =>
    /\ kb[b].visibility = DeriveVisibility(kb[b].links)
    /\ kb[b].department \in kb[b].links \cup {NoCode}
    /\ kb[b].department = NoCode <=> kb[b].links = {}
    /\ kb[b].department = Guest <=> Guest \in kb[b].links

Used(c) == \/ \E u \in Users : member[u] = c
           \/ \E b \in KBs : c \in kb[b].links

\* A department gets another code without anybody losing or gaining a base, as
\* long as the new code was nowhere in use.
RenameKeepsAccess == [][\A old, new \in Codes :
    RenameDepartment(old, new) /\ ~Used(new) =>
        /\ \A u \in Users : May(u)' = May(u)
        /\ GuestMay' = GuestMay]_dept_vars
=============================================================================
