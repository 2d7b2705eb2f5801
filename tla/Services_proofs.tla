---------------------------- MODULE Services_proofs ----------------------------
(***************************************************************************)
(* Proofs about the services around the core, for any number of people,    *)
(* departments, bases, messages, FAQs and overlapping requests.  As in     *)
(* MCServices they are together because each is small; they share no       *)
(* state.                                                                  *)
(*                                                                         *)
(* Departments: the column of a base follows its links (ColumnsFollow-     *)
(* Links) because no request leaves the two apart and GUEST is never       *)
(* renamed or deleted.                                                     *)
(*                                                                         *)
(* Accounts: there is one super (OneSuper) because no request makes one    *)
(* or takes the role of one away, and only a start without one seeds one.  *)
(*                                                                         *)
(* Models: a type has one default while requests claim it one at a time    *)
(* (ClaimedOnce), because one that is past its UPDATE has found whatever   *)
(* default there was, to clear it (FoundAll).                              *)
(*                                                                         *)
(* Shadow window: one process at most has taken the right to record the    *)
(* closing (OneAuditor), and only after the window (AfterFirst).           *)
(*                                                                         *)
(* Verification: the limit holds because every call that begins is counted *)
(* on the day it begins (CallsCounted), and because the count never passes *)
(* the limit: a queue filled before is still drained under it.             *)
(*                                                                         *)
(* Ratings: message and fact agree because a request that changes the      *)
(* message holds its row from the statement to the commit (OneUpdater); if *)
(* it found no fact to clear, none appears before it commits               *)
(* (NothingToClear), since whoever could write one either waits for the    *)
(* row or parts the two.                                                   *)
(*                                                                         *)
(* Role caches: every stored question belongs to one analysis, and none    *)
(* owns more than the limit (OwnedApart), because an analysis writes only  *)
(* rows it holds, and inserts at most what the limit leaves; one that met  *)
(* no other accounts for every row that was there (AloneTakesAll).         *)
(*                                                                         *)
(* Snapshots: whichever transactions that have cleaned up commit, the      *)
(* others may then exceed the limit by what they add themselves and no     *)
(* more (QuotaAhead).  A limit on what is there now would not be           *)
(* inductive: two that clean up together mark the same snapshots.          *)
(*                                                                         *)
(* The services share no state, so that each of them behaves as its own    *)
(* module says in every behaviour of all (EachService).                    *)
(***************************************************************************)
EXTENDS Services, HitTests_proofs

-----------------------------------------------------------------------------
(* Departments: the columns of a base *)

\* A set of codes has a least one.
LEMMA LeastCode ==
    ASSUME NEW codes \in SUBSET Codes, codes # {}
    PROVE  Min(codes) \in codes
<1>1. codes \subseteq Nat
  BY DepartmentsAssumption
<1> QED BY <1>1, LeastThereIs DEF Min

\* The first department is one of the codes, GUEST if that is one.
LEMMA PrimaryOf ==
    ASSUME NEW codes \in SUBSET Codes
    PROVE  /\ PrimaryDepartment(codes) \in codes \cup {NoCode}
           /\ PrimaryDepartment(codes) = NoCode <=> codes = {}
           /\ PrimaryDepartment(codes) = Guest <=> Guest \in codes
<1>1. CASE codes = {}
  BY <1>1, DepartmentsAssumption DEF PrimaryDepartment
<1>2. CASE codes # {} /\ Guest \in codes
  BY <1>2, DepartmentsAssumption DEF PrimaryDepartment
<1>3. CASE codes # {} /\ Guest \notin codes
  <2>1. PrimaryDepartment(codes) \in codes
    BY <1>3, LeastCode DEF PrimaryDepartment
  <2> QED BY <1>3, <2>1, DepartmentsAssumption
<1> QED BY <1>1, <1>2, <1>3

\* The columns of a base agree with its links.
Follows(b) == /\ b.visibility = DeriveVisibility(b.links)
              /\ b.department \in b.links \cup {NoCode}
              /\ b.department = NoCode <=> b.links = {}
              /\ b.department = Guest <=> Guest \in b.links

\* They do after every replacement of the links.
LEMMA LinkedFollows ==
    ASSUME NEW b \in KB, NEW codes \in SUBSET Codes
    PROVE  /\ Linked(b, codes) \in KB /\ Follows(Linked(b, codes))
           /\ Linked(b, codes).state = b.state
<1>1. /\ Linked(b, codes).links = codes /\ Linked(b, codes).state = b.state
      /\ Linked(b, codes).department = PrimaryDepartment(codes)
      /\ Linked(b, codes).visibility = DeriveVisibility(codes)
  BY DEF Linked, KB
<1>2. DeriveVisibility(codes) \in Visibilities /\ PrimaryDepartment(codes) \in Codes \cup {NoCode}
  BY PrimaryOf DEF DeriveVisibility, Visibilities
<1>3. Linked(b, codes) \in KB
  BY <1>2 DEF Linked, KB
<1> QED BY <1>1, <1>3, PrimaryOf DEF Follows

DeptInv == DeptTypeOK /\ Guest \in departments /\ ColumnsFollowLinks

\* The first start satisfies the invariant of the departments.
LEMMA DeptStarts == DeptInit => DeptInv
<1>1. NoKB \in KB
  BY DepartmentsAssumption DEF NoKB, KB, States, Visibilities
<1> QED BY <1>1, DepartmentsAssumption DEF DeptInit, DeptInv, DeptTypeOK, ColumnsFollowLinks, NoKB, Live

\* If the columns of the bases a step leaves alone follow, and those it writes do, all follow.
LEMMA FollowsAll ==
    ASSUME DeptTypeOK
    PROVE  ColumnsFollowLinks <=> \A b \in KBs \ reverted : kb[b].state = "active" => Follows(kb[b])
  BY DEF ColumnsFollowLinks, Follows

\* A step that writes one base with its links, or none, keeps all of it.
LEMMA OneBase ==
    ASSUME DeptInv, NEW b \in KBs, NEW new \in KB, kb' = [kb EXCEPT ![b] = new],
           new.state = "active" /\ b \notin reverted' => Follows(new),
           reverted' \subseteq KBs, reverted \subseteq reverted' \cup {b},
           departments' \subseteq Codes, Guest \in departments',
           member' \in [Users -> Codes \cup {NoCode}],
           kept' \in [KBs -> SUBSET Visibilities], requests' \in 0..MaxAdmin
    PROVE  DeptInv'
<1>1. DeptTypeOK'
  BY DEF DeptInv, DeptTypeOK
<1>2. ASSUME NEW c \in KBs \ reverted', kb'[c].state = "active" PROVE Follows(kb'[c])
  <2>1. CASE c = b
    BY <1>2, <2>1 DEF DeptInv, DeptTypeOK
  <2>2. CASE c # b
    <3>1. c \notin reverted /\ kb'[c] = kb[c]
      BY <1>2, <2>2 DEF DeptInv, DeptTypeOK
    <3> QED BY <1>2, <3>1, FollowsAll DEF DeptInv
  <2> QED BY <2>1, <2>2
<1>3. ColumnsFollowLinks'
  BY <1>2 DEF ColumnsFollowLinks, Follows
<1> QED BY <1>1, <1>3 DEF DeptInv

\* The requests of administrators are counted up to the bound.
LEMMA RequestCounted ==
    ASSUME DeptTypeOK, Request
    PROVE  requests' \in 0..MaxAdmin
  BY DepartmentsAssumption DEF Request, DeptTypeOK

\* Renaming a department.
LEMMA RenameFollows ==
    ASSUME DeptInv, NEW old \in Codes, NEW new \in Codes, RenameDepartment(old, new)
    PROVE  DeptInv'
<1> DEFINE names(b) == {Rename(c, old, new) : c \in kb[b].links}
<1>1. old # Guest /\ new # Guest /\ old # NoCode /\ new # NoCode
  BY DepartmentsAssumption DEF RenameDepartment, DeptInv
<1>2. ASSUME NEW b \in KBs
      PROVE  /\ kb'[b] \in KB /\ kb'[b].state = kb[b].state /\ kb'[b].visibility = kb[b].visibility
             /\ kb'[b].links = names(b) /\ kb'[b].department = Rename(kb[b].department, old, new)
  <2>1. kb[b] \in KB
    BY DEF DeptInv, DeptTypeOK
  <2>2. names(b) \subseteq Codes /\ Rename(kb[b].department, old, new) \in Codes \cup {NoCode}
    BY <2>1 DEF Rename, KB
  <2>3. kb'[b] = [kb[b] EXCEPT !.links = names(b), !.department = Rename(kb[b].department, old, new)]
    BY DEF RenameDepartment
  <2> QED BY <2>1, <2>2, <2>3 DEF KB
<1>3. DeptTypeOK'
  <2>1. departments' \subseteq Codes
    BY DEF RenameDepartment, DeptInv, DeptTypeOK
  <2>2. member' \in [Users -> Codes \cup {NoCode}]
    BY DEF RenameDepartment, DeptInv, DeptTypeOK, Rename
  <2>3. kb' \in [KBs -> KB]
    BY <1>2 DEF RenameDepartment
  <2>4. requests' \in 0..MaxAdmin
    BY RequestCounted DEF RenameDepartment, DeptInv
  <2> QED BY <2>1, <2>2, <2>3, <2>4 DEF RenameDepartment, DeptInv, DeptTypeOK
<1>4. ASSUME NEW b \in KBs \ reverted, kb[b].state = "active" PROVE Follows(kb'[b])
  <2>1. Follows(kb[b]) /\ kb[b] \in KB
    BY <1>4, FollowsAll DEF DeptInv, DeptTypeOK
  <2>2. Guest \in names(b) <=> Guest \in kb[b].links
    BY <1>1 DEF Rename
  <2>3. \A x \in Codes \cup {NoCode} : /\ Rename(x, old, new) = Guest <=> x = Guest
                                       /\ Rename(x, old, new) = NoCode <=> x = NoCode
    BY <1>1 DEF Rename
  <2>4. names(b) = {} <=> kb[b].links = {}
    OBVIOUS
  <2>5. kb[b].department \in kb[b].links => Rename(kb[b].department, old, new) \in names(b)
    OBVIOUS
  <2>6. Rename(NoCode, old, new) = NoCode
    BY <1>1 DEF Rename
  <2>7. kb[b].department \in Codes \cup {NoCode}
    BY <2>1 DEF KB
  <2>8. /\ kb'[b].links = names(b) /\ kb'[b].department = Rename(kb[b].department, old, new)
        /\ kb'[b].visibility = kb[b].visibility
    BY <1>2
  <2> HIDE DEF names
  <2>9. kb'[b].visibility = DeriveVisibility(kb'[b].links)
    BY <2>1, <2>2, <2>8 DEF Follows, DeriveVisibility
  <2>10. kb'[b].department \in kb'[b].links \cup {NoCode}
    BY <2>1, <2>5, <2>6, <2>8 DEF Follows
  <2> DEFINE first == Rename(kb[b].department, old, new)
  <2>11. /\ first = Guest <=> kb[b].department = Guest
         /\ first = NoCode <=> kb[b].department = NoCode
    BY <2>3, <2>7
  <2> HIDE DEF first
  <2>12. /\ first = NoCode <=> names(b) = {}
         /\ first = Guest <=> Guest \in names(b)
    BY <2>1, <2>2, <2>4, <2>11 DEF Follows
  <2>13. kb'[b].department = first
    BY <2>8 DEF first
  <2> QED BY <2>8, <2>9, <2>10, <2>12, <2>13 DEF Follows
<1>5. ColumnsFollowLinks'
  BY <1>2, <1>4 DEF ColumnsFollowLinks, Follows, RenameDepartment
<1>6. Guest \in departments'
  BY <1>1 DEF RenameDepartment, DeptInv
<1> QED BY <1>3, <1>5, <1>6 DEF DeptInv

\* Deleting one takes it from every base in use.
LEMMA DeleteFollows ==
    ASSUME DeptInv, NEW c \in Codes, DeleteDepartment(c)
    PROVE  DeptInv'
<1>1. ASSUME NEW b \in KBs
      PROVE  /\ kb'[b] \in KB
             /\ kb'[b].state = "active" /\ b \notin reverted => Follows(kb'[b])
  <2>1. kb[b] \in KB /\ kb[b].links \ {c} \in SUBSET Codes
    BY DEF DeptInv, DeptTypeOK, KB
  <2>2. kb'[b] = IF Live(b) /\ c \in kb[b].links THEN Linked(kb[b], kb[b].links \ {c}) ELSE kb[b]
    BY DEF DeleteDepartment
  <2>3. CASE Live(b) /\ c \in kb[b].links
    BY <2>1, <2>2, <2>3, LinkedFollows
  <2>4. CASE ~(Live(b) /\ c \in kb[b].links)
    BY <2>1, <2>2, <2>4, FollowsAll DEF DeptInv
  <2> QED BY <2>3, <2>4
<1>2. DeptTypeOK'
  <2>1. departments' \subseteq Codes /\ member' \in [Users -> Codes \cup {NoCode}]
    BY DEF DeleteDepartment, DeptInv, DeptTypeOK, Rename
  <2>2. kb' \in [KBs -> KB]
    BY <1>1 DEF DeleteDepartment
  <2>3. requests' \in 0..MaxAdmin
    BY RequestCounted DEF DeleteDepartment, DeptInv
  <2> QED BY <2>1, <2>2, <2>3 DEF DeleteDepartment, DeptInv, DeptTypeOK
<1>3. ColumnsFollowLinks'
  BY <1>1 DEF ColumnsFollowLinks, Follows, DeleteDepartment
<1>4. Guest \in departments'
  BY DEF DeleteDepartment, DeptInv
<1> QED BY <1>2, <1>3, <1>4 DEF DeptInv

\* The start of the service changes no base whose columns follow its links.
LEMMA RestartFollows ==
    ASSUME DeptInv, Restart
    PROVE  DeptInv'
<1>1. ASSUME NEW b \in KB
      PROVE  /\ Reconciled(b) \in KB /\ Reconciled(b).state = b.state
             /\ b.state = "active" /\ Follows(b) => Follows(Reconciled(b))
  <2> DEFINE code == IF b.visibility = "public" THEN Guest ELSE b.department
             view == IF code = Guest THEN "public" ELSE "restricted"
             old == [b EXCEPT !.department = code, !.visibility = view]
  <2>1. code \in Codes \cup {NoCode} /\ view \in Visibilities
    BY DepartmentsAssumption DEF KB, Visibilities
  <2>2. Reconciled(b) = IF b.state = "active" /\ code # NoCode
                        THEN [old EXCEPT !.links = b.links \cup {code}] ELSE old
    BY DEF Reconciled, KB
  <2>3. /\ old.department = code /\ old.visibility = view /\ old.links = b.links /\ old.state = b.state
        /\ old \in KB
    <3> HIDE DEF code, view
    <3> QED BY <2>1 DEF KB
  <2>4. /\ Reconciled(b) \in KB /\ Reconciled(b).state = b.state
        /\ Reconciled(b).department = code /\ Reconciled(b).visibility = view
        /\ Reconciled(b).links = IF b.state = "active" /\ code # NoCode THEN b.links \cup {code} ELSE b.links
    <3> HIDE DEF old, code, view
    <3> QED BY <2>1, <2>2, <2>3 DEF KB
  <2>5. ASSUME b.state = "active", Follows(b) PROVE Follows(Reconciled(b))
    <3>1. code = b.department /\ (code # NoCode => code \in b.links) /\ view = b.visibility
      BY <2>5, DepartmentsAssumption DEF Follows, DeriveVisibility
    <3>2. Reconciled(b).links = b.links
      <4> HIDE DEF code, view
      <4> QED BY <2>4, <3>1
    <3> HIDE DEF code, view
    <3> QED BY <2>4, <2>5, <3>1, <3>2 DEF Follows
  <2> QED BY <2>4, <2>5
<1>2. ASSUME NEW b \in KBs
      PROVE  /\ kb'[b] \in KB
             /\ kb'[b].state = "active" /\ b \notin reverted => Follows(kb'[b])
  <2>1. kb[b] \in KB /\ (kb[b].state = "active" /\ b \notin reverted => Follows(kb[b]))
    BY FollowsAll DEF DeptInv, DeptTypeOK
  <2>2. kb'[b] = IF kb[b].state = "none" THEN kb[b] ELSE Reconciled(kb[b])
    BY DEF Restart
  <2> QED BY <1>1, <2>1, <2>2
<1>3. DeptTypeOK'
  <2>1. kb' \in [KBs -> KB]
    BY <1>2 DEF Restart
  <2>2. requests' \in 0..MaxAdmin
    BY RequestCounted DEF Restart, DeptInv
  <2>3. departments' \subseteq Codes
    BY DepartmentsAssumption DEF Restart, DeptInv, DeptTypeOK
  <2> QED BY <2>1, <2>2, <2>3 DEF Restart, DeptInv, DeptTypeOK
<1>4. ColumnsFollowLinks'
  BY <1>2 DEF ColumnsFollowLinks, Follows, Restart
<1>5. Guest \in departments'
  BY DEF Restart, DeptInv
<1> QED BY <1>3, <1>4, <1>5 DEF DeptInv

\* A new set of links for a base, of any codes.
LEMMA LinksFollow ==
    ASSUME DeptInv, NEW b \in KBs
    PROVE  /\ \A c \in Codes : AddLink(c, b) \/ RemoveLink(c, b) => DeptInv'
           /\ \A codes \in SUBSET Codes : CreateKB(b, codes) \/ ReplaceLinks(b, codes) => DeptInv'
<1> DEFINE Writes(old, codes) == /\ kb' = [kb EXCEPT ![b] = Linked(old, codes)]
                                 /\ requests' \in 0..MaxAdmin
                                 /\ UNCHANGED <<departments, member, kept>>
                                 /\ reverted' = reverted \/ reverted' = reverted \ {b}
<1>1. kb[b] \in KB /\ kb[b].links \subseteq Codes
  BY DEF DeptInv, DeptTypeOK, KB
<1>2. [NoKB EXCEPT !.state = "active"] \in KB
  BY DepartmentsAssumption DEF NoKB, KB, States, Visibilities
<1>3. ASSUME NEW old \in KB, NEW codes \in SUBSET Codes, Writes(old, codes) PROVE DeptInv'
  <2>1. Linked(old, codes) \in KB /\ Follows(Linked(old, codes))
    BY LinkedFollows
  <2> QED BY <1>3, <2>1, OneBase DEF DeptInv, DeptTypeOK
<1>4. ASSUME NEW c \in Codes, AddLink(c, b) PROVE Writes(kb[b], kb[b].links \cup {c})
  BY <1>4, RequestCounted DEF AddLink, SetKB, DeptInv
<1>5. ASSUME NEW c \in Codes, RemoveLink(c, b) PROVE Writes(kb[b], kb[b].links \ {c})
  BY <1>5, RequestCounted DEF RemoveLink, SetKB, DeptInv
<1>6. ASSUME NEW codes \in SUBSET Codes, CreateKB(b, codes) PROVE Writes([NoKB EXCEPT !.state = "active"], codes)
  BY <1>6, RequestCounted DEF CreateKB, SetKB, DeptInv
<1>7. ASSUME NEW codes \in SUBSET Codes, ReplaceLinks(b, codes) PROVE Writes(kb[b], codes)
  BY <1>7, RequestCounted DEF ReplaceLinks, SetKB, DeptInv
<1> HIDE DEF Writes
<1>8. \A c \in Codes : kb[b].links \cup {c} \in SUBSET Codes /\ kb[b].links \ {c} \in SUBSET Codes
  BY <1>1
<1> QED BY <1>1, <1>2, <1>3, <1>4, <1>5, <1>6, <1>7, <1>8

\* What else becomes of a base: its columns are left alone, or it is not in use,
\* or a rollback has written its visibility.
LEMMA BaseFollows ==
    ASSUME DeptInv, NEW b \in KBs
    PROVE  /\ DeleteKB(b) \/ PurgeKB(b) \/ TakeSnapshot(b) => DeptInv'
           /\ \A v \in Visibilities : Rollback(b, v) => DeptInv'
<1>1. kb[b] \in KB
  BY DEF DeptInv, DeptTypeOK
<1>2. CASE DeleteKB(b)
  <2>1. [kb[b] EXCEPT !.state = "deleted"] \in KB /\ [kb[b] EXCEPT !.state = "deleted"].state = "deleted"
    BY <1>1 DEF KB, States
  <2> QED BY <1>2, <2>1, OneBase, RequestCounted DEF DeleteKB, SetKB, DeptInv, DeptTypeOK
<1>3. CASE PurgeKB(b)
  <2>1. NoKB \in KB /\ NoKB.state = "none"
    BY DepartmentsAssumption DEF NoKB, KB, States, Visibilities
  <2>2. kept' \in [KBs -> SUBSET Visibilities]
    BY <1>3 DEF PurgeKB, DeptInv, DeptTypeOK
  <2> QED BY <1>3, <2>1, <2>2, OneBase, RequestCounted DEF PurgeKB, DeptInv, DeptTypeOK
<1>4. CASE TakeSnapshot(b)
  <2>1. kept' \in [KBs -> SUBSET Visibilities]
    BY <1>1, <1>4 DEF TakeSnapshot, DeptInv, DeptTypeOK, KB
  <2> QED BY <1>4, <2>1, RequestCounted DEF TakeSnapshot, DeptInv, DeptTypeOK, ColumnsFollowLinks
<1>5. ASSUME NEW v \in Visibilities, Rollback(b, v) PROVE DeptInv'
  <2>1. [kb[b] EXCEPT !.visibility = v] \in KB
    BY <1>1 DEF KB
  <2>2. kept' \in [KBs -> SUBSET Visibilities]
    BY <1>1, <1>5 DEF Rollback, DeptInv, DeptTypeOK, KB
  <2> QED BY <1>5, <2>1, <2>2, OneBase, RequestCounted DEF Rollback, DeptInv, DeptTypeOK
<1> QED BY <1>2, <1>3, <1>4, <1>5

\* Every request and every start of the application keeps the invariant.
LEMMA DeptStep == DeptInv /\ [DeptNext]_dept_vars => DeptInv'
<1> SUFFICES ASSUME DeptInv, [DeptNext]_dept_vars PROVE DeptInv'
  OBVIOUS
<1>1. ASSUME NEW c \in Codes, CreateDepartment(c) PROVE DeptInv'
  BY <1>1, RequestCounted DEF CreateDepartment, DeptInv, DeptTypeOK, ColumnsFollowLinks
<1>2. ASSUME NEW c \in Codes, NEW u \in Users, AddMember(c, u) \/ RemoveMember(c, u) PROVE DeptInv'
  BY <1>2, RequestCounted DEF AddMember, RemoveMember, DeptInv, DeptTypeOK, ColumnsFollowLinks
<1>3. ASSUME NEW u \in Users, NEW c \in Codes \cup {NoCode}, UpdateUser(u, c) PROVE DeptInv'
  BY <1>3, RequestCounted DEF UpdateUser, DeptInv, DeptTypeOK, ColumnsFollowLinks
<1>4. CASE UNCHANGED dept_vars
  BY <1>4 DEF dept_vars, DeptInv, DeptTypeOK, ColumnsFollowLinks
<1>5. ASSUME NEW b \in KBs, NEW c \in Codes, AddLink(c, b) \/ RemoveLink(c, b) PROVE DeptInv'
  BY <1>5, LinksFollow
<1>6. ASSUME NEW b \in KBs, NEW codes \in SUBSET Codes, CreateKB(b, codes) \/ ReplaceLinks(b, codes) PROVE DeptInv'
  BY <1>6, LinksFollow
<1>7. ASSUME NEW b \in KBs, NEW v \in Visibilities, DeleteKB(b) \/ PurgeKB(b) \/ TakeSnapshot(b) \/ Rollback(b, v)
      PROVE DeptInv'
  BY <1>7, BaseFollows
<1>8. \E v : v \in Visibilities
  BY DEF Visibilities
<1> QED BY <1>1, <1>2, <1>3, <1>4, <1>5, <1>6, <1>7, <1>8, RenameFollows, DeleteFollows, RestartFollows DEF DeptNext

\* The invariant of the departments always holds.
LEMMA DeptAlways == DeptSpec => []DeptInv
<1> QED BY DeptStarts, DeptStep, PTL DEF DeptSpec

\* Every variable of the departments keeps its type (department.py).
THEOREM DepartmentsTyped == DeptSpec => []DeptTypeOK
<1>1. DeptInv => DeptTypeOK
  BY DEF DeptInv
<1> QED BY <1>1, DeptAlways, PTL

\* Whatever is renamed, deleted, linked, restored and restarted: the visibility
\* and the first department of a base agree with its links, unless a rollback
\* wrote the visibility (department.py, seed_departments).
THEOREM LinksDecide == DeptSpec => []ColumnsFollowLinks
<1>1. DeptInv => ColumnsFollowLinks
  BY DEF DeptInv
<1> QED BY <1>1, DeptAlways, PTL

\* A department that gets a code nobody uses keeps every user's bases
\* (rename_department).
THEOREM RenamingKeepsAccess == DeptSpec => RenameKeepsAccess
<1>1. ASSUME DeptInv, NEW old \in Codes, NEW new \in Codes, RenameDepartment(old, new), ~Used(new)
      PROVE  (\A u \in Users : May(u)' = May(u)) /\ GuestMay' = GuestMay
  <2>1. old # Guest /\ new # Guest /\ old # NoCode /\ new # NoCode
    BY <1>1, DepartmentsAssumption DEF RenameDepartment, DeptInv
  <2>2. ASSUME NEW b \in KBs
        PROVE  /\ kb'[b].state = kb[b].state
               /\ kb'[b].links = {Rename(c, old, new) : c \in kb[b].links}
               /\ new \notin kb[b].links /\ NoCode \notin kb[b].links
    BY <1>1, DepartmentsAssumption DEF RenameDepartment, DeptInv, DeptTypeOK, KB, Used
  <2>3. ASSUME NEW b \in KBs, NEW c \in Codes \cup {NoCode}, c # new
        PROVE  Rename(c, old, new) \in kb'[b].links <=> c \in kb[b].links
    BY <2>1, <2>2, <2>3 DEF Rename
  <2>4. ASSUME NEW u \in Users
        PROVE  /\ member[u] \in Codes \cup {NoCode} /\ member[u] # new
               /\ member'[u] = Rename(member[u], old, new)
    BY <1>1 DEF RenameDepartment, DeptInv, DeptTypeOK, Used
  <2>5. Rename(Guest, old, new) = Guest /\ Guest \in Codes
    BY <2>1, DepartmentsAssumption DEF Rename
  <2>6. ASSUME NEW b \in KBs PROVE Live(b)' <=> Live(b)
    BY <2>2 DEF Live
  <2>7. GuestMay' = GuestMay
    BY <2>1, <2>3, <2>5, <2>6 DEF GuestMay
  <2>8. ASSUME NEW u \in Users, NEW b \in KBs
        PROVE  ({Guest, member[u]} \cap kb[b].links # {})' <=> {Guest, member[u]} \cap kb[b].links # {}
    <3>1. Guest \in kb'[b].links <=> Guest \in kb[b].links
      BY <2>1, <2>3, <2>5
    <3>2. member'[u] \in kb'[b].links <=> member[u] \in kb[b].links
      BY <2>3, <2>4
    <3> QED BY <3>1, <3>2
  <2> QED BY <2>6, <2>7, <2>8 DEF May
<1> DEFINE Same == \A old, new \in Codes : RenameDepartment(old, new) /\ ~Used(new) =>
                       /\ \A u \in Users : May(u)' = May(u)
                       /\ GuestMay' = GuestMay
<1>2. DeptInv => Same
  BY <1>1
<1>3. [][Same]_dept_vars => RenameKeepsAccess
  BY DEF RenameKeepsAccess
<1> HIDE DEF Same
<1> QED BY <1>2, <1>3, DeptAlways, PTL

-----------------------------------------------------------------------------
(* Accounts: one super administrator *)

\* Roles that are referred to are there.
Grounded == \A u \in Members : \A n \in account[u].roles : account[u].there /\ role[n].there

\* The account super has the role super_admin, and no other has.
SuperAlone == \A u \in Members : "super_admin" \in account[u].roles <=> u = Super

AccountsInv == /\ AccountsTypeOK
               /\ served => /\ account[Super].there /\ account[Super].status = "active"
                            /\ SuperAlone
                            /\ \A n \in Builtin : role[n].there /\ role[n].builtin

\* What the invariant says of the accounts and roles themselves.
LEMMA AccountFacts ==
    ASSUME AccountsTypeOK, NEW u \in Members
    PROVE  /\ account[u] \in Account /\ account[u].there \in BOOLEAN
           /\ account[u].status \in {"active", "disabled"} /\ account[u].roles \subseteq Names
           /\ account[u].roles # {} => account[u].there
  BY DEF AccountsTypeOK, Account

\* The names of roles the application itself knows are different.
LEMMA RoleNames ==
    /\ "super_admin" \in Builtin /\ "guest" \in Builtin /\ "admin" \in Builtin
    /\ Builtin \subseteq Names /\ Super \in Members
    /\ \A n \in DOMAIN Successor : n \in Names /\ n \notin Builtin /\ Successor[n] \in Builtin
                                   /\ Successor[n] # "super_admin"
  BY AccountsAssumption

\* The first start satisfies the invariant of the accounts.
LEMMA AccountsStart == AccountsInit => AccountsInv
<1> SUFFICES ASSUME AccountsInit PROVE AccountsInv
  OBVIOUS
<1>1. NoAccount \in Account /\ NoAccount.roles = {}
  BY DEF NoAccount, Account
<1>2. NoRole \in Role /\ [NoRole EXCEPT !.there = TRUE, !.enabled = TRUE] \in Role
  BY DEF NoRole, Role
<1>3. role \in [Names -> Role]
  BY <1>2 DEF AccountsInit
<1>4. account \in [Members -> Account]
  <2>1. [there : {TRUE}, status : {"disabled"}, roles : OldRoles] \subseteq Account
    BY AccountsAssumption DEF Account
  <2>2. account = [u \in Members |-> NoAccount]
          \/ account \in [Members -> {NoAccount} \cup [there : {TRUE}, status : {"disabled"}, roles : OldRoles]]
    BY DEF AccountsInit
  <2> QED BY <1>1, <2>1, <2>2
<1>5. Grounded
  <2>1. CASE account = [u \in Members |-> NoAccount]
    BY <1>1, <2>1 DEF Grounded
  <2>2. CASE /\ role = [n \in Names |-> [NoRole EXCEPT !.there = TRUE, !.enabled = TRUE]]
             /\ account \in [Members -> {NoAccount} \cup [there : {TRUE}, status : {"disabled"}, roles : OldRoles]]
    <3>1. ASSUME NEW u \in Members PROVE account[u].roles # {} => account[u].there
      BY <1>1, <2>2
    <3>2. ASSUME NEW n \in Names PROVE role[n].there
      BY <2>2 DEF NoRole
    <3>3. ASSUME NEW u \in Members PROVE account[u].roles \subseteq Names
      BY <1>4 DEF Account
    <3> QED BY <3>1, <3>2, <3>3 DEF Grounded
  <2> QED BY <2>1, <2>2 DEF AccountsInit
<1>6. /\ level \in [Names -> Levels \cup {NoLevel}] /\ override \in [Members -> Levels \cup {NoLevel}]
      /\ logged \subseteq Members /\ served = FALSE /\ account_requests \in 0..MaxAccountRequests
  BY AccountsAssumption DEF AccountsInit
<1> QED BY <1>3, <1>4, <1>5, <1>6 DEF AccountsInv, AccountsTypeOK, Grounded

\* The start of the service takes super_admin from all but super, and replaces
\* the retired roles.
LEMMA StartKeeps ==
    ASSUME AccountsInv, StartService
    PROVE  AccountsInv'
<1>1. ASSUME NEW roles \in SUBSET Names
      PROVE  /\ Migrated(roles) \subseteq Names \ DOMAIN Successor
             /\ "super_admin" \in Migrated(roles) <=> "super_admin" \in roles
             /\ \A n \in Migrated(roles) : n \in roles \/ n \in Builtin
             /\ Migrated(roles) # {} => roles # {}
  BY <1>1, RoleNames DEF Migrated
<1>2. ASSUME NEW roles \in SUBSET Names
      PROVE  /\ WithoutSuper(roles) \subseteq Names /\ "super_admin" \notin WithoutSuper(roles)
             /\ \A n \in WithoutSuper(roles) : n \in roles \/ n \in Builtin
             /\ WithoutSuper(roles) # {} => roles # {}
  BY <1>2, RoleNames DEF WithoutSuper
<1> HIDE DEF Migrated, WithoutSuper
<1>3. ASSUME NEW u \in Members, u # Super
      PROVE  /\ account'[u] \in Account /\ "super_admin" \notin account'[u].roles
             /\ account'[u].roles \subseteq Names \ DOMAIN Successor
             /\ \A n \in account'[u].roles : account'[u].there /\ (n \in account[u].roles \/ n \in Builtin)
  <2> DEFINE new == Migrated(WithoutSuper(account[u].roles))
  <2>1. account'[u] = [account[u] EXCEPT !.roles = new]
    BY <1>3 DEF StartService, SeededAccounts
  <2>2. /\ account[u] \in Account /\ account[u].roles \in SUBSET Names
        /\ account[u].roles # {} => account[u].there
    BY AccountFacts DEF AccountsInv
  <2>3. /\ new \subseteq Names \ DOMAIN Successor /\ "super_admin" \notin new
        /\ \A n \in new : n \in account[u].roles \/ n \in Builtin
        /\ new # {} => account[u].roles # {}
    BY <1>1, <1>2, <2>2
  <2> HIDE DEF new
  <2>4. /\ account'[u].roles = new /\ account'[u].there = account[u].there /\ account'[u] \in Account
    BY <2>1, <2>2, <2>3 DEF Account
  <2> QED BY <2>2, <2>3, <2>4
<1>4. /\ account'[Super] \in Account /\ account'[Super].there /\ account'[Super].status = "active"
      /\ "super_admin" \in account'[Super].roles
      /\ account'[Super].roles \subseteq Names \ DOMAIN Successor
      /\ \A n \in account'[Super].roles : n \in account[Super].roles \/ n \in Builtin
  <2> DEFINE new == Migrated(account[Super].roles \cup {"super_admin"})
  <2>1. account'[Super] = [there |-> TRUE, status |-> "active", roles |-> new]
    BY RoleNames DEF StartService, SeededAccounts
  <2>2. account[Super].roles \cup {"super_admin"} \in SUBSET Names
    BY AccountFacts, RoleNames DEF AccountsInv
  <2>3. /\ new \subseteq Names \ DOMAIN Successor /\ "super_admin" \in new
        /\ \A n \in new : n \in account[Super].roles \/ n \in Builtin
    BY <1>1, <2>2, RoleNames
  <2> HIDE DEF new
  <2> QED BY <2>1, <2>3 DEF Account
<1>5. ASSUME NEW n \in Names
      PROVE  /\ role'[n] \in Role
             /\ n \in Builtin => role'[n].there /\ role'[n].builtin
             /\ n \notin DOMAIN Successor /\ role[n].there => role'[n].there
  <2>1. role[n] \in Role
    BY DEF AccountsInv, AccountsTypeOK
  <2>2. role'[n] = IF n \in DOMAIN Successor THEN NoRole ELSE SeededRoles[n]
    BY DEF StartService
  <2>3. CASE n \in DOMAIN Successor
    BY <2>2, <2>3, RoleNames DEF NoRole, Role
  <2>4. CASE n \notin DOMAIN Successor /\ n \in Builtin
    BY <2>1, <2>2, <2>4, AccountsAssumption DEF SeededRoles, Role
  <2>5. CASE n \notin DOMAIN Successor /\ n \notin Builtin
    BY <2>1, <2>2, <2>5 DEF SeededRoles
  <2> QED BY <2>3, <2>4, <2>5
<1>6. account' \in [Members -> Account] /\ role' \in [Names -> Role]
  BY <1>3, <1>4, <1>5 DEF StartService, SeededAccounts
<1>7. Grounded'
  BY <1>3, <1>4, <1>5 DEF Grounded, AccountsInv, AccountsTypeOK
<1>8. level' \in [Names -> Levels \cup {NoLevel}]
  BY AccountsAssumption DEF StartService, EnsureDefaults, AccountsInv, AccountsTypeOK
<1>9. account_requests' \in 0..MaxAccountRequests
  BY AccountsAssumption DEF StartService, AccountsInv, AccountsTypeOK
<1>10. AccountsTypeOK'
  BY <1>6, <1>7, <1>8, <1>9 DEF StartService, AccountsInv, AccountsTypeOK, Grounded
<1>11. SuperAlone'
  BY <1>3, <1>4 DEF SuperAlone
<1> QED BY <1>4, <1>5, <1>10, <1>11, RoleNames DEF AccountsInv

\* What a request leaves of the rest.
Rest == /\ level' \in [Names -> Levels \cup {NoLevel}]
        /\ override' \in [Members -> Levels \cup {NoLevel}]
        /\ logged' \subseteq Members /\ served' = served
        /\ account_requests' \in 0..MaxAccountRequests

\* Who sends a request is an enabled account.
LEMMA RequestBy ==
    ASSUME AccountsInv, NEW operator \in Members, NEW code, By(operator, code)
    PROVE  /\ served /\ served' = served /\ account_requests' \in 0..MaxAccountRequests
           /\ logged \cup {operator} \subseteq Members
  BY AccountsAssumption DEF By, AccountsInv, AccountsTypeOK

\* Requests that change neither users nor roles.
LEMMA LevelsOnly ==
    ASSUME AccountsInv, Rest, UNCHANGED <<account, role>>
    PROVE  AccountsInv'
  BY DEF AccountsInv, AccountsTypeOK, Rest, SuperAlone

\* A request that writes another user than super, or super without its roles.
LEMMA UserKeeps ==
    ASSUME AccountsInv, Rest, NEW u \in Members, u # Super, NEW new \in Account,
           account' = [account EXCEPT ![u] = new], role' = role,
           "super_admin" \notin new.roles, \A n \in new.roles : new.there /\ role[n].there
    PROVE  AccountsInv'
<1>1. account' \in [Members -> Account] /\ account'[u] = new /\ \A v \in Members : v # u => account'[v] = account[v]
  BY DEF AccountsInv, AccountsTypeOK
<1>2. Grounded'
  BY <1>1 DEF AccountsInv, AccountsTypeOK, Grounded
<1>3. AccountsTypeOK'
  BY <1>1, <1>2 DEF AccountsInv, AccountsTypeOK, Grounded, Rest
<1>4. served => account'[Super] = account[Super] /\ SuperAlone'
  BY <1>1, RoleNames DEF SuperAlone, AccountsInv
<1> QED BY <1>3, <1>4 DEF AccountsInv, Rest

\* A request that writes a role.
LEMMA RoleKeeps ==
    ASSUME AccountsInv, Rest, NEW n \in Names, NEW new \in Role,
           role' = [role EXCEPT ![n] = new], account' = account,
           new.there \/ \A u \in Members : n \notin account[u].roles,
           served => (n \in Builtin => new.there /\ new.builtin)
    PROVE  AccountsInv'
<1>1. role' \in [Names -> Role] /\ role'[n] = new /\ \A m \in Names : m # n => role'[m] = role[m]
  BY DEF AccountsInv, AccountsTypeOK
<1>2. \A u \in Members : account[u].roles \subseteq Names
  BY AccountFacts DEF AccountsInv
<1>3. Grounded'
  BY <1>1, <1>2 DEF AccountsInv, AccountsTypeOK, Grounded
<1>4. AccountsTypeOK'
  BY <1>1, <1>3 DEF AccountsInv, AccountsTypeOK, Grounded, Rest
<1>5. served => SuperAlone'
  BY DEF AccountsInv, SuperAlone
<1>6. served => \A m \in Builtin : role'[m].there /\ role'[m].builtin
  BY <1>1, RoleNames DEF AccountsInv
<1> QED BY <1>4, <1>5, <1>6 DEF AccountsInv, Rest

\* A role with another name; the users who have it keep it.
LEMMA RenameKeeps ==
    ASSUME AccountsInv, NEW operator \in Members, NEW n \in Names, NEW new \in Names,
           NEW enabled \in BOOLEAN, UpdateRole(operator, n, new, enabled)
    PROVE  AccountsInv'
<1> DEFINE named(u) == {IF r = n THEN new ELSE r : r \in account[u].roles}
<1>1. served /\ Rest
  BY RequestBy DEF UpdateRole, Rest, AccountsInv, AccountsTypeOK
<1>2. role[n] \in Role /\ role[n].there /\ (new # n => ~role[n].builtin /\ ~role[new].there)
  BY DEF UpdateRole, AccountsInv, AccountsTypeOK
<1>3. \/ new = n
      \/ n \notin Builtin /\ new \notin Builtin
  BY <1>1, <1>2 DEF AccountsInv
<1>4. ASSUME NEW u \in Members
      PROVE  /\ account'[u] \in Account /\ account'[u].roles = named(u)
             /\ account'[u].there = account[u].there /\ account'[u].status = account[u].status
             /\ "super_admin" \in named(u) <=> "super_admin" \in account[u].roles
  <2>1. account'[u] = [account[u] EXCEPT !.roles = named(u)]
    BY DEF UpdateRole
  <2>2. account[u] \in Account /\ account[u].roles \subseteq Names
    BY AccountFacts DEF AccountsInv
  <2>3. named(u) \subseteq Names /\ ("super_admin" \in named(u) <=> "super_admin" \in account[u].roles)
    BY <1>3, <2>2, RoleNames
  <2> HIDE DEF named
  <2> QED BY <2>1, <2>2, <2>3 DEF Account
<1>5. ASSUME NEW r \in Names
      PROVE  /\ role'[r] \in Role
             /\ r = new => role'[r].there /\ role'[r].builtin = role[n].builtin
             /\ r # new /\ r # n => role'[r] = role[r]
  <2>1. role[r] \in Role
    BY DEF AccountsInv, AccountsTypeOK
  <2>2. CASE r = new
    BY <1>2, <2>2 DEF UpdateRole, Role
  <2>3. CASE r # new /\ r = n
    BY <2>3 DEF UpdateRole, NoRole, Role
  <2>4. CASE r # new /\ r # n
    BY <2>1, <2>4 DEF UpdateRole
  <2> QED BY <2>2, <2>3, <2>4
<1>6. account' \in [Members -> Account] /\ role' \in [Names -> Role]
  BY <1>4, <1>5 DEF UpdateRole
<1>7. Grounded'
  <2> SUFFICES ASSUME NEW u \in Members, NEW r \in named(u) PROVE account'[u].there /\ role'[r].there
    BY <1>4 DEF Grounded
  <2>1. PICK old \in account[u].roles : r = IF old = n THEN new ELSE old
    OBVIOUS
  <2>2. account[u].there /\ role[old].there /\ old \in Names
    BY <2>1, AccountFacts DEF AccountsInv, AccountsTypeOK, Grounded
  <2> QED BY <1>4, <1>5, <2>1, <2>2
<1>8. AccountsTypeOK'
  BY <1>1, <1>6, <1>7 DEF AccountsInv, AccountsTypeOK, Grounded, Rest
<1>9. SuperAlone'
  BY <1>1, <1>4 DEF AccountsInv, SuperAlone
<1>10. ASSUME NEW m \in Builtin PROVE role'[m].there /\ role'[m].builtin
  BY <1>1, <1>3, <1>5, RoleNames DEF AccountsInv
<1> QED BY <1>1, <1>4, <1>8, <1>9, <1>10, RoleNames DEF AccountsInv, Rest

\* Every request and every start of the application keeps the invariant.
LEMMA AccountsStep == AccountsInv /\ [AccountsNext]_account_vars => AccountsInv'
<1> SUFFICES ASSUME AccountsInv, [AccountsNext]_account_vars PROVE AccountsInv'
  OBVIOUS
<1> USE RoleNames
<1>1. /\ override \in [Members -> Levels \cup {NoLevel}] /\ level \in [Names -> Levels \cup {NoLevel}]
      /\ logged \subseteq Members /\ account_requests \in 0..MaxAccountRequests
  BY DEF AccountsInv, AccountsTypeOK
<1>2. ASSUME NEW u \in Members, Register(u) PROVE AccountsInv'
  <2> DEFINE new == [there |-> TRUE, status |-> "active", roles |-> {"guest"}]
  <2>1. Rest
    BY <1>1, <1>2, AccountsAssumption DEF Register, SetAccount, Rest
  <2>2. u # Super /\ account' = [account EXCEPT ![u] = new] /\ role' = role /\ role["guest"].there
    BY <1>2 DEF Register, SetAccount, AccountsInv
  <2>3. new \in Account
    BY DEF Account
  <2> QED BY <2>1, <2>2, <2>3, UserKeeps
<1>3. ASSUME NEW u \in Members, Login(u) PROVE AccountsInv'
  BY <1>1, <1>3, LevelsOnly DEF Login, Rest
<1>4. ASSUME NEW operator \in Members, NEW u \in Members, NEW roles \in SUBSET Names, CreateUser(operator, u, roles)
      PROVE  AccountsInv'
  <2> DEFINE new == [there |-> TRUE, status |-> "active", roles |-> IF roles = {} THEN {"guest"} ELSE roles]
  <2>1. Rest
    BY <1>1, <1>4, RequestBy DEF CreateUser, SetAccount, Rest
  <2>2. u # Super /\ account' = [account EXCEPT ![u] = new] /\ role' = role
    BY <1>4 DEF CreateUser, SetAccount
  <2>3. new \in Account /\ "super_admin" \notin new.roles /\ \A n \in new.roles : new.there /\ role[n].there
    BY <1>4 DEF CreateUser, Account
  <2> QED BY <2>1, <2>2, <2>3, UserKeeps
<1>5. ASSUME NEW operator \in Members, NEW u \in Members, NEW status \in {"active", "disabled"},
             SetUserStatus(operator, u, status)
      PROVE  AccountsInv'
  <2> DEFINE new == [account[u] EXCEPT !.status = status]
  <2>1. Rest /\ served
    BY <1>1, <1>5, RequestBy DEF SetUserStatus, SetAccount, Rest
  <2>2. u # Super /\ account' = [account EXCEPT ![u] = new] /\ role' = role
    BY <1>5 DEF SetUserStatus, SetAccount, CanManage
  <2>3. new \in Account /\ new.roles = account[u].roles /\ new.there = account[u].there
    BY AccountFacts DEF AccountsInv, Account
  <2>4. "super_admin" \notin new.roles /\ \A n \in new.roles : new.there /\ role[n].there
    BY <2>1, <2>2, <2>3 DEF AccountsInv, AccountsTypeOK, SuperAlone
  <2> QED BY <2>1, <2>2, <2>3, <2>4, UserKeeps
<1>6. ASSUME NEW operator \in Members, NEW u \in Members, NEW roles \in SUBSET Names, SetRoles(operator, u, roles)
      PROVE  AccountsInv'
  <2> DEFINE new == [account[u] EXCEPT !.roles = roles]
  <2>1. Rest
    BY <1>1, <1>6, RequestBy DEF SetRoles, SetAccount, Rest
  <2>2. u # Super /\ account' = [account EXCEPT ![u] = new] /\ role' = role /\ account[u].there
    BY <1>6 DEF SetRoles, SetAccount, CanManage
  <2>3. new \in Account /\ new.roles = roles /\ new.there = account[u].there
    BY AccountFacts DEF AccountsInv, Account
  <2>4. "super_admin" \notin roles /\ \A n \in roles : role[n].there
    BY <1>6 DEF SetRoles
  <2> QED BY <2>1, <2>2, <2>3, <2>4, UserKeeps
<1>7. ASSUME NEW operator \in Members, NEW u \in Members, DeleteUser(operator, u) PROVE AccountsInv'
  <2>1. Rest
    BY <1>1, <1>7, RequestBy DEF DeleteUser, Rest
  <2>2. NoAccount \in Account /\ NoAccount.roles = {}
    BY DEF NoAccount, Account
  <2> QED BY <1>7, <2>1, <2>2, UserKeeps DEF DeleteUser, CanManage
<1>8. ASSUME NEW operator \in Members, NEW u \in Members, NEW l \in Levels \cup {NoLevel}, SetOverride(operator, u, l)
      PROVE  AccountsInv'
  BY <1>1, <1>8, RequestBy, LevelsOnly DEF SetOverride, Rest
<1>9. ASSUME NEW operator \in Members, NEW users \in SUBSET Members, DeleteLogs(operator, users) PROVE AccountsInv'
  BY <1>1, <1>9, RequestBy, LevelsOnly DEF DeleteLogs, Rest
<1>10. ASSUME NEW operator \in Members, NEW n \in Names, NEW codes \in CodeLists, CreateRole(operator, n, codes)
       PROVE  AccountsInv'
  <2> DEFINE new == [there |-> TRUE, enabled |-> TRUE, builtin |-> FALSE, codes |-> codes]
  <2>1. Rest /\ served
    BY <1>1, <1>10, RequestBy DEF CreateRole, SetRole, Rest
  <2>2. new \in Role
    BY AccountsAssumption DEF Role
  <2>3. role' = [role EXCEPT ![n] = new] /\ account' = account /\ n \notin Builtin
    BY <1>10, <2>1 DEF CreateRole, SetRole, AccountsInv
  <2> QED BY <2>1, <2>2, <2>3, RoleKeeps
<1>11. ASSUME NEW operator \in Members, NEW n \in Names, NEW codes \in CodeLists, SetPermissions(operator, n, codes)
       PROVE  AccountsInv'
  <2> DEFINE new == [role[n] EXCEPT !.codes = codes]
  <2>1. Rest
    BY <1>1, <1>11, RequestBy DEF SetPermissions, SetRole, Rest
  <2>2. new \in Role /\ new.there = role[n].there /\ new.builtin = role[n].builtin
    BY AccountsAssumption DEF AccountsInv, AccountsTypeOK, Role
  <2>3. role' = [role EXCEPT ![n] = new] /\ account' = account /\ role[n].there
    BY <1>11 DEF SetPermissions, SetRole
  <2>4. served => (n \in Builtin => new.there /\ new.builtin)
    BY <2>2 DEF AccountsInv
  <2> HIDE DEF new
  <2> QED BY <2>1, <2>2, <2>3, <2>4, RoleKeeps
<1>12. ASSUME NEW operator \in Members, NEW n \in Names, DeleteRole(operator, n) PROVE AccountsInv'
  <2>1. Rest /\ served
    BY <1>1, <1>12, RequestBy DEF DeleteRole, SetRole, Rest
  <2>2. NoRole \in Role
    BY DEF NoRole, Role
  <2>3. role' = [role EXCEPT ![n] = NoRole] /\ account' = account /\ n \notin Builtin
    BY <1>12, <2>1 DEF DeleteRole, SetRole, AccountsInv
  <2> QED BY <1>12, <2>1, <2>2, <2>3, RoleKeeps DEF DeleteRole
<1>13. ASSUME NEW operator \in Members, NEW n \in Names, NEW l \in Levels, SetRoleLevel(operator, n, l) PROVE AccountsInv'
  BY <1>1, <1>13, RequestBy, LevelsOnly DEF SetRoleLevel, Rest
<1>14. ASSUME NEW operator \in Members, ListRoleLevels(operator) PROVE AccountsInv'
  <2>1. level' \in [Names -> Levels \cup {NoLevel}]
    BY <1>1, <1>14, AccountsAssumption DEF ListRoleLevels, EnsureDefaults
  <2> QED BY <1>1, <1>14, <2>1, RequestBy, LevelsOnly DEF ListRoleLevels, Rest
<1>15. CASE UNCHANGED account_vars
  BY <1>1, <1>15, LevelsOnly DEF account_vars, Rest
<1> QED BY <1>2, <1>3, <1>4, <1>5, <1>6, <1>7, <1>8, <1>9, <1>10, <1>11, <1>12, <1>13, <1>14, <1>15,
           StartKeeps, RenameKeeps DEF AccountsNext

\* The invariant of the accounts always holds.
LEMMA AccountsAlways == AccountsSpec => []AccountsInv
<1> QED BY AccountsStart, AccountsStep, PTL DEF AccountsSpec

\* Every variable of the accounts keeps its type, and roles that users have are
\* there (roles.py, users.py, seed.py).
THEOREM AccountsTyped == AccountsSpec => []AccountsTypeOK
<1>1. AccountsInv => AccountsTypeOK
  BY DEF AccountsInv
<1> QED BY <1>1, AccountsAlways, PTL

\* Once the service runs there is one super administrator, it is active, and no
\* request makes another or takes its role away (core/super_admin_policy.py).
THEOREM SuperIsOne == AccountsSpec => []OneSuper
<1>1. AccountsInv => OneSuper
  BY RoleNames DEF AccountsInv, OneSuper, SuperAlone
<1> QED BY <1>1, AccountsAlways, PTL

\* Where every enabled role of a user keeps its level, so does the user.
LEMMA LevelFollows ==
    ASSUME NEW u \in Members, EnabledRoles(u)' = EnabledRoles(u), override'[u] = override[u],
           \A n \in EnabledRoles(u) : RoleLevel(n)' = RoleLevel(n)
    PROVE  UserMaxLevel(u)' = UserMaxLevel(u)
<1>1. {RoleLevel(n) : n \in EnabledRoles(u)}' = {RoleLevel(n) : n \in EnabledRoles(u)}
  OBVIOUS
<1> QED BY <1>1 DEF UserMaxLevel

\* Inserting the defaults that are missing changes the level of no role.
LEMMA LevelsStand ==
    ASSUME AccountsTypeOK, level' = EnsureDefaults, NEW n \in Names
    PROVE  RoleLevel(n)' = RoleLevel(n)
<1>1. LevelOf[n] # NoLevel /\ LevelOf[n] \in Levels
  BY AccountsAssumption DEF Levels, NoLevel
<1>2. level'[n] = IF level[n] = NoLevel /\ LevelOf[n] # 0 THEN LevelOf[n] ELSE level[n]
  BY DEF EnsureDefaults
<1> QED BY <1>1, <1>2 DEF RoleLevel

\* A start leaves everybody some role, and the roles it does not retire.
LEMMA StartLeavesRoles ==
    ASSUME AccountsInv, StartService, NEW u \in Members, account[u].there
    PROVE  /\ account[u].roles # {} => account'[u].roles # {}
           /\ served /\ account[u].roles \cap DOMAIN Successor = {} => account'[u].roles = account[u].roles
<1> DEFINE given == IF u = Super THEN account[u].roles \cup {"super_admin"} ELSE WithoutSuper(account[u].roles)
<1>1. account'[u].roles = Migrated(given)
  BY AccountFacts DEF StartService, SeededAccounts, Account
<1>2. account[u].roles # {} => given # {}
  BY DEF WithoutSuper
<1>3. given # {} => Migrated(given) # {}
  BY DEF Migrated
<1>4. ASSUME served, account[u].roles \cap DOMAIN Successor = {} PROVE Migrated(given) = account[u].roles
  <2>1. given = account[u].roles
    BY <1>4 DEF WithoutSuper, AccountsInv, SuperAlone
  <2>2. \A n \in given : n \notin DOMAIN Successor
    BY <1>4, <2>1
  <2> HIDE DEF given
  <2>3. Migrated(given) = given
    BY <2>2 DEF Migrated
  <2> QED BY <2>1, <2>3
<1> HIDE DEF given
<1> QED BY <1>1, <1>2, <1>3, <1>4

\* No start of the service and no look at the levels takes the last role of a
\* user or changes the level of one (roles.py, seed.py, sensitivity.py).
THEOREM HousekeepingHarmless == AccountsSpec => HousekeepingKeeps
<1>1. ASSUME AccountsInv, StartService, NEW u \in Members, account[u].there, served,
             account[u].roles \cap DOMAIN Successor = {}
      PROVE  UserMaxLevel(u)' = UserMaxLevel(u)
  <2>1. account'[u].roles = account[u].roles
    BY <1>1, StartLeavesRoles
  <2>2. \A n \in account[u].roles : n \in Names /\ role[n].there
    BY <1>1, AccountFacts DEF AccountsInv, AccountsTypeOK
  <2>3. ASSUME NEW n \in account[u].roles PROVE role'[n].enabled = role[n].enabled
    <3>1. n \in Names /\ role[n].there /\ n \notin DOMAIN Successor /\ role[n].enabled \in BOOLEAN
      BY <1>1, <2>2 DEF AccountsInv, AccountsTypeOK, Role
    <3>2. role'[n] = SeededRoles[n]
      BY <1>1, <3>1 DEF StartService
    <3> QED BY <3>1, <3>2 DEF SeededRoles
  <2>4. EnabledRoles(u)' = EnabledRoles(u)
    BY <2>1, <2>3 DEF EnabledRoles
  <2>5. \A n \in EnabledRoles(u) : RoleLevel(n)' = RoleLevel(n)
    BY <1>1, <2>2, LevelsStand DEF EnabledRoles, StartService, AccountsInv
  <2> QED BY <1>1, <2>4, <2>5, LevelFollows DEF StartService
<1>2. ASSUME AccountsInv, NEW operator \in Members, ListRoleLevels(operator), NEW u \in Members
      PROVE  UserMaxLevel(u)' = UserMaxLevel(u) /\ account'[u].roles = account[u].roles
  <2>1. account' = account /\ role' = role /\ override' = override /\ level' = EnsureDefaults
    BY <1>2 DEF ListRoleLevels
  <2>2. EnabledRoles(u)' = EnabledRoles(u) /\ EnabledRoles(u) \subseteq Names
    BY <1>2, <2>1, AccountFacts DEF EnabledRoles, AccountsInv
  <2>3. \A n \in EnabledRoles(u) : RoleLevel(n)' = RoleLevel(n)
    BY <1>2, <2>1, <2>2, LevelsStand DEF AccountsInv
  <2> QED BY <2>1, <2>2, <2>3, LevelFollows
<1> DEFINE Keeps == StartService \/ (\E u \in Members : ListRoleLevels(u)) =>
        \A u \in Members : account[u].there =>
            /\ account[u].roles # {} => account'[u].roles # {}
            /\ served /\ account[u].roles \cap DOMAIN Successor = {} => UserMaxLevel(u)' = UserMaxLevel(u)
<1>3. AccountsInv => [Keeps]_account_vars
  BY <1>1, <1>2, StartLeavesRoles
<1>4. [][Keeps]_account_vars => HousekeepingKeeps
  BY DEF HousekeepingKeeps
<1> HIDE DEF Keeps
<1> QED BY <1>3, <1>4, AccountsAlways, PTL

-----------------------------------------------------------------------------
(* ModelConfigs: one default of a type *)

ModelRows == [there : {TRUE}, enabled : BOOLEAN, default : BOOLEAN, params : Params]
ChangeRows == [stage : {"loaded", "seeking", "cleared"}, id : ModelIds, to : Change,
               seen : ModelRows, found : SUBSET ModelIds]

\* A request that inserts its row inserts no default.
InsertsPlain == \A a \in Admins :
    Changing(a) /\ ~Made(change[a].id) => change[a].seen.default = FALSE

\* A type is claimed by one request at a time, unless it is contested.
ClaimedOnce == \A t \in ModelTypes \ contested : \A a, b \in Claims(t) : a = b

\* A request past its UPDATE has found whatever default of its type there is.
FoundAll == \A a \in Admins :
    Changing(a) /\ change[a].stage # "loaded" =>
        /\ change[a].to.default = TRUE
        /\ TypeOf[change[a].id] \notin contested => Defaults(TypeOf[change[a].id]) \subseteq change[a].found

OneDefault == \A t \in ModelTypes \ contested : \A i, j \in Defaults(t) : i = j

RowsTyped == /\ model \in [ModelIds -> ModelRows \cup {NoModel}]
             /\ change \in [Admins -> ChangeRows \cup {Nothing}]
             /\ versions \in Seq([model : ModelIds, params : Params])
             /\ changes \in 0..MaxChanges /\ contested \subseteq ModelTypes

ModelsInv == RowsTyped /\ InsertsPlain /\ ClaimedOnce /\ FoundAll /\ OneDefault

\* What the invariant says of one row.
LEMMA ModelRowFacts ==
    ASSUME RowsTyped, NEW i \in ModelIds
    PROVE  /\ Made(i) => model[i] \in ModelRows /\ model[i].default \in BOOLEAN
           /\ ~Made(i) => model[i] = NoModel
           /\ TypeOf[i] \in ModelTypes
<1>1. model[i] \in ModelRows \/ model[i] = NoModel
  BY DEF RowsTyped
<1>2. ASSUME NEW x \in ModelRows PROVE x.there = TRUE /\ x.default \in BOOLEAN
  BY DEF ModelRows
<1>3. NoModel.there = FALSE
  BY DEF NoModel
<1>4. TypeOf[i] \in ModelTypes
  BY DEF ModelTypes
<1> QED BY <1>1, <1>2, <1>3, <1>4 DEF Made

\* What it says of one request.
LEMMA ChangeFacts ==
    ASSUME RowsTyped, NEW a \in Admins, Changing(a)
    PROVE  /\ change[a] \in ChangeRows
           /\ change[a].id \in ModelIds /\ change[a].to \in Change /\ change[a].seen \in ModelRows
           /\ change[a].found \subseteq ModelIds /\ change[a].stage \in {"loaded", "seeking", "cleared"}
           /\ TypeOf[change[a].id] \in ModelTypes
  BY DEF RowsTyped, ChangeRows, Changing, ModelTypes

\* The types of the invariant carry those the run checks.
LEMMA TypesFollow ==
    ASSUME RowsTyped
    PROVE  ModelsTypeOK
<1>1. \A i \in ModelIds : model[i] = NoModel \/ model[i] \in ModelRows
  BY DEF RowsTyped
<1>2. \A a \in Admins : change[a] = Nothing \/ change[a] \in ChangeRows
  BY DEF RowsTyped
<1>3. ASSUME NEW a \in Admins, change[a] \in ChangeRows
      PROVE  /\ change[a].stage \in {"loaded", "seeking", "cleared"}
             /\ change[a].id \in ModelIds /\ change[a].to \in Change
             /\ change[a].found \subseteq ModelIds
  BY <1>3 DEF ChangeRows
<1> QED BY <1>1, <1>2, <1>3 DEF RowsTyped, ModelsTypeOK, ModelRows

\* The registry is seeded with one default for every type.
LEMMA ModelsStart == ModelsInit => ModelsInv
<1> SUFFICES ASSUME ModelsInit PROVE ModelsInv
  OBVIOUS
<1> DEFINE p == CHOOSE q \in Params : TRUE
           Least(i) == \A j \in ModelIds : TypeOf[j] = TypeOf[i] => i <= j
<1>1. \A i \in ModelIds : model[i] = IF Least(i) THEN ModelRow(TRUE, TRUE, p) ELSE NoModel
  <2> DEFINE empty == [i \in ModelIds |-> NoModel]
  <2>1. \A j \in ModelIds : empty[j] = NoModel /\ ~empty[j].there
    BY DEF NoModel
  <2>2. model = Seed(empty)
    BY DEF ModelsInit
  <2> HIDE DEF empty
  <2>3. \A i \in ModelIds : Seed(empty)[i] = IF Least(i) THEN ModelRow(TRUE, TRUE, p) ELSE empty[i]
    <3> SUFFICES ASSUME NEW i \in ModelIds
                 PROVE  Seed(empty)[i] = IF Least(i) THEN ModelRow(TRUE, TRUE, p) ELSE empty[i]
      OBVIOUS
    <3>1. ~\E j \in ModelIds : TypeOf[j] = TypeOf[i] /\ empty[j].there
      BY <2>1
    <3> QED BY <3>1 DEF Seed
  <2> QED BY <2>1, <2>2, <2>3
<1>2. p \in Params
  BY ModelConfigsAssumption
<1> HIDE DEF p
<1>3. RowsTyped
  <2>1. ModelRow(TRUE, TRUE, p) \in ModelRows
    BY <1>2 DEF ModelRow, ModelRows
  <2>2. DOMAIN model = ModelIds /\ model = [i \in ModelIds |-> model[i]]
    BY DEF ModelsInit, Seed
  <2>3. \A i \in ModelIds : model[i] \in ModelRows \cup {NoModel}
    BY <1>1, <2>1
  <2>4. change \in [Admins -> ChangeRows \cup {Nothing}] /\ versions = <<>> /\ changes = 0 /\ contested = {}
    BY DEF ModelsInit
  <2> QED BY <2>2, <2>3, <2>4, ModelConfigsAssumption DEF RowsTyped
<1>4. \A a \in Admins : ~Changing(a)
  BY DEF ModelsInit, Changing
<1>6. OneDefault
  <2>1. ASSUME NEW t \in ModelTypes, NEW i \in Defaults(t), NEW j \in Defaults(t) PROVE i = j
    <3>1. i \in ModelIds /\ j \in ModelIds /\ TypeOf[i] = TypeOf[j] /\ Made(i) /\ Made(j)
      BY DEF Defaults
    <3>2. NoModel.there = FALSE
      BY DEF NoModel
    <3>3. Least(i) /\ Least(j)
      BY <1>1, <3>1, <3>2 DEF Made
    <3> QED BY <3>1, <3>3, ModelConfigsAssumption
  <2> QED BY <2>1 DEF OneDefault
<1>7. InsertsPlain /\ ClaimedOnce /\ FoundAll
  BY <1>4 DEF InsertsPlain, ClaimedOnce, FoundAll, Claims
<1> QED BY <1>3, <1>6, <1>7 DEF ModelsInv

\* A request that begins: it claims its type alone, or contests it.
LEMMA StartChange ==
    ASSUME ModelsInv, NEW a \in Admins, NEW i \in ModelIds, NEW to \in Change, NEW seen \in ModelRows,
           Start(a, i, to, seen), ~Made(i) => seen.default = FALSE
    PROVE  ModelsInv'
<1> USE DEF ModelsInv
<1> DEFINE x == [stage |-> "loaded", id |-> i, to |-> to, seen |-> seen, found |-> {}]
<1>1. /\ ~Changing(a) /\ model' = model /\ versions' = versions
      /\ change' = [change EXCEPT ![a] = x]
      /\ changes' = changes + 1 /\ changes < MaxChanges
      /\ contested' = IF to.default = TRUE /\ Claims(TypeOf[i]) # {} THEN contested \cup {TypeOf[i]} ELSE contested
  BY DEF Start, Count
<1>2. x \in ChangeRows /\ x.stage = "loaded" /\ x.id = i /\ x.to = to /\ x.seen = seen
  BY DEF ChangeRows
<1> HIDE DEF x
<1>3. change'[a] = x /\ \A b \in Admins \ {a} : change'[b] = change[b]
  BY <1>1 DEF RowsTyped
<1>5. contested' \subseteq ModelTypes /\ contested \subseteq contested'
  BY <1>1 DEF RowsTyped, ModelTypes
<1>4. RowsTyped'
  <2>1. change' \in [Admins -> ChangeRows \cup {Nothing}]
    BY <1>1, <1>2 DEF RowsTyped
  <2>2. changes' \in 0..MaxChanges
    BY <1>1, ModelConfigsAssumption DEF RowsTyped
  <2> QED BY <1>1, <1>5, <2>1, <2>2 DEF RowsTyped
<1>7. InsertsPlain'
  BY <1>1, <1>2, <1>3 DEF InsertsPlain, Changing, Made
<1>8. \A t \in ModelTypes : Claims(t)' \subseteq Claims(t) \cup {b \in {a} : t = TypeOf[i] /\ to.default = TRUE}
  BY <1>2, <1>3 DEF Claims, Changing
<1>9. ClaimedOnce'
  <2>1. ASSUME NEW t \in ModelTypes \ contested', NEW b \in Claims(t)', NEW c \in Claims(t)' PROVE b = c
    <3>1. t \in ModelTypes \ contested
      BY <1>5
    <3>2. CASE t = TypeOf[i] /\ to.default = TRUE
      <4>1. Claims(t) = {}
        BY <1>1, <3>2
      <4> QED BY <1>8, <3>1, <4>1
    <3>3. CASE ~(t = TypeOf[i] /\ to.default = TRUE)
      BY <1>8, <3>1, <3>3 DEF ClaimedOnce
    <3> QED BY <3>2, <3>3
  <2> QED BY <2>1 DEF ClaimedOnce
<1>10. \A t : Defaults(t)' = Defaults(t)
  BY <1>1 DEF Defaults, Made
<1>11. FoundAll'
  <2>1. ASSUME NEW b \in Admins, change'[b] # Nothing, change'[b].stage # "loaded"
        PROVE  /\ change'[b].to.default = TRUE
               /\ (TypeOf[change[b].id] \notin contested => Defaults(TypeOf[change[b].id]) \subseteq change[b].found)'
    <3>1. b # a
      BY <1>2, <1>3, <2>1
    <3>2. change'[b] = change[b] /\ Changing(b)
      BY <1>3, <2>1, <3>1 DEF Changing
    <3>3. change[b].to.default = TRUE /\ (TypeOf[change[b].id] \notin contested => Defaults(TypeOf[change[b].id]) \subseteq change[b].found)
      BY <2>1, <3>2 DEF FoundAll
    <3>4. Defaults(TypeOf[change[b].id])' = Defaults(TypeOf[change[b].id])
      BY <1>1, <3>2 DEF Defaults, Made
    <3> QED BY <1>5, <3>2, <3>3, <3>4
  <2> QED BY <2>1 DEF FoundAll, Changing
<1>12. OneDefault'
  BY <1>5, <1>10 DEF OneDefault
<1> QED BY <1>4, <1>7, <1>9, <1>11, <1>12

\* The requests administrators may begin are of the kind StartChange is about.
LEMMA RequestsStart ==
    ASSUME ModelsInv, NEW a \in Admins, NEW i \in ModelIds,
           \/ \E e, d \in BOOLEAN, p \in Params : CreateModel(a, i, e, d, p)
           \/ \E to \in Change : UpdateModel(a, i, to)
           \/ \E b \in BOOLEAN : SetStatus(a, i, b) \/ SetDefault(a, i, b)
    PROVE  ModelsInv'
<1>1. Made(i) => model[i] \in ModelRows
  BY ModelRowFacts DEF ModelsInv
<1>2. CASE \E e, d \in BOOLEAN, p \in Params : CreateModel(a, i, e, d, p)
  <2>1. PICK e \in BOOLEAN, d \in BOOLEAN, p \in Params : CreateModel(a, i, e, d, p)
    BY <1>2
  <2> DEFINE to == [enabled |-> Keep, default |-> IF d THEN TRUE ELSE Keep, params |-> Keep]
             seen == ModelRow(e, FALSE, p)
  <2>2. to \in Change
    BY DEF Change
  <2>3. seen \in ModelRows /\ seen.default = FALSE
    BY DEF ModelRows, ModelRow
  <2>4. Start(a, i, to, seen)
    BY <2>1 DEF CreateModel
  <2> HIDE DEF to, seen
  <2> QED BY <2>2, <2>3, <2>4, StartChange
<1>3. CASE \E to \in Change : UpdateModel(a, i, to)
  BY <1>1, <1>3, StartChange DEF UpdateModel
<1>4. CASE \E b \in BOOLEAN : SetStatus(a, i, b) \/ SetDefault(a, i, b)
  <2>1. PICK b \in BOOLEAN : SetStatus(a, i, b) \/ SetDefault(a, i, b)
    BY <1>4
  <2> DEFINE status == [enabled |-> b, default |-> IF b THEN Keep ELSE FALSE, params |-> Keep]
             claim == [enabled |-> Keep, default |-> b, params |-> Keep]
  <2>2. status \in Change /\ claim \in Change
    BY DEF Change
  <2>3. Made(i) /\ (Start(a, i, status, model[i]) \/ Start(a, i, claim, model[i]))
    BY <2>1 DEF SetStatus, SetDefault
  <2> HIDE DEF status, claim
  <2> QED BY <1>1, <2>2, <2>3, StartChange
<1> QED BY <1>2, <1>3, <1>4

\* A request that goes on, by its UPDATE or to its end, leaves the others and
\* what is claimed alone.
LEMMA ChangeGoesOn ==
    ASSUME ModelsInv, NEW a \in Admins, NEW x \in ChangeRows \cup {Nothing}, Changing(a),
           change' = [change EXCEPT ![a] = x],
           UNCHANGED <<versions, changes, contested>>,
           model' \in [ModelIds -> ModelRows \cup {NoModel}],
           x # Nothing => x.id = change[a].id /\ x.to = change[a].to /\ x.seen = change[a].seen,
           \A i \in ModelIds : Made(i) => Made(i)'
    PROVE  /\ RowsTyped' /\ InsertsPlain' /\ ClaimedOnce'
           /\ change'[a] = x /\ \A b \in Admins \ {a} : change'[b] = change[b]
<1> USE DEF ModelsInv
<1>1. change'[a] = x /\ \A b \in Admins \ {a} : change'[b] = change[b]
  BY DEF RowsTyped
<1>2. RowsTyped'
  BY DEF RowsTyped
<1>3. InsertsPlain'
  <2>1. ASSUME NEW b \in Admins, change'[b] # Nothing, ~model'[change'[b].id].there
        PROVE  change'[b].seen.default = FALSE
    <3>1. Changing(b) /\ change'[b].id = change[b].id /\ change'[b].seen = change[b].seen
      BY <1>1, <2>1 DEF Changing
    <3>2. ~Made(change[b].id)
      BY <2>1, <3>1, ChangeFacts DEF Made
    <3> QED BY <3>1, <3>2 DEF InsertsPlain
  <2> QED BY <2>1 DEF InsertsPlain, Changing, Made
<1>4. \A t : Claims(t)' \subseteq Claims(t)
  BY <1>1 DEF Claims, Changing
<1>5. ClaimedOnce'
  BY <1>4 DEF ClaimedOnce
<1> QED BY <1>1, <1>2, <1>3, <1>5

\* Where no default appears but that of a request which has found all others of
\* its type, the defaults stay unique.
LEMMA DefaultsStay ==
    ASSUME ModelsInv, NEW a \in Admins, NEW x \in ChangeRows \cup {Nothing}, Changing(a),
           change'[a] = x, \A b \in Admins \ {a} : change'[b] = change[b], contested' = contested,
           \A t \in ModelTypes : Defaults(t)' \subseteq Defaults(t),
           (x # Nothing /\ x.stage # "loaded") =>
              /\ x.to.default = TRUE
              /\ TypeOf[x.id] \notin contested => Defaults(TypeOf[x.id]) \subseteq x.found
    PROVE  FoundAll' /\ OneDefault'
<1> USE DEF ModelsInv
<1>1. ASSUME NEW b \in Admins, change'[b] # Nothing, change'[b].stage # "loaded"
      PROVE  /\ change'[b].to.default = TRUE
             /\ (TypeOf[change[b].id] \notin contested => Defaults(TypeOf[change[b].id]) \subseteq change[b].found)'
  <2> DEFINE y == change'[b]
  <2>1. y.to.default = TRUE /\ (TypeOf[y.id] \notin contested => Defaults(TypeOf[y.id]) \subseteq y.found)
    BY <1>1 DEF FoundAll, Changing
  <2>2. TypeOf[y.id] \in ModelTypes
    <3>1. CASE b = a
      BY <1>1, <3>1 DEF ChangeRows, ModelTypes
    <3>2. CASE b # a
      BY <1>1, <3>2, ChangeFacts DEF Changing
    <3> QED BY <3>1, <3>2
  <2>3. Defaults(TypeOf[change[b].id])' \subseteq Defaults(TypeOf[y.id])
    <3>1. \A t \in ModelTypes : t = TypeOf[y.id] => Defaults(TypeOf[change[b].id])' = Defaults(t)'
      BY DEF Defaults
    <3> QED BY <2>2, <3>1
  <2> QED BY <2>1, <2>3
<1>2. FoundAll'
  BY <1>1 DEF FoundAll, Changing
<1>3. OneDefault'
  BY DEF OneDefault
<1> QED BY <1>2, <1>3

\* The two halves of the UPDATE that takes the default from other rows.
LEMMA TakeDefaults ==
    ASSUME ModelsInv, NEW a \in Admins, SeekDefaults(a) \/ ClearDefaults(a)
    PROVE  ModelsInv'
<1> USE DEF ModelsInv
<1> DEFINE c == change[a]
           marked == Defaults(TypeOf[c.id])
           x == IF SeekDefaults(a) THEN [c EXCEPT !.stage = "seeking", !.found = marked]
                ELSE [c EXCEPT !.stage = "cleared", !.found = c.found \cap marked]
<1>1. /\ Changing(a) /\ change' = [change EXCEPT ![a] = x]
      /\ UNCHANGED <<model, versions, changes, contested>>
      /\ SeekDefaults(a) => c.to.default = TRUE
      /\ ~SeekDefaults(a) => c.stage = "seeking"
  BY DEF SeekDefaults, ClearDefaults
<1>2. c \in ChangeRows /\ marked \subseteq ModelIds
  BY <1>1, ChangeFacts DEF Defaults
<1>3. /\ x \in ChangeRows /\ x.id = c.id /\ x.to = c.to /\ x.seen = c.seen
      /\ x.found = IF SeekDefaults(a) THEN marked ELSE c.found \cap marked
  BY <1>2 DEF ChangeRows
<1> HIDE DEF x
<1>4. /\ RowsTyped' /\ InsertsPlain' /\ ClaimedOnce'
      /\ change'[a] = x /\ \A b \in Admins \ {a} : change'[b] = change[b]
  <2>1. model' \in [ModelIds -> ModelRows \cup {NoModel}] /\ \A i \in ModelIds : Made(i) => Made(i)'
    BY <1>1 DEF RowsTyped, Made
  <2> QED BY <1>1, <1>3, <2>1, ChangeGoesOn
<1>5. \A t : Defaults(t)' = Defaults(t)
  BY <1>1 DEF Defaults, Made
<1>6. c.to.default = TRUE /\ (TypeOf[c.id] \notin contested => marked \subseteq x.found)
  BY <1>1, <1>3 DEF FoundAll
<1>7. FoundAll' /\ OneDefault'
  BY <1>1, <1>3, <1>4, <1>5, <1>6, DefaultsStay
<1> QED BY <1>4, <1>7

\* An abandoned request changes nothing.
LEMMA AbandonChange ==
    ASSUME ModelsInv, NEW a \in Admins, AbortChange(a)
    PROVE  ModelsInv'
<1> USE DEF ModelsInv
<1>1. /\ Changing(a) /\ change' = [change EXCEPT ![a] = Nothing]
      /\ UNCHANGED <<model, versions, changes, contested>>
  BY DEF AbortChange
<1>2. model' \in [ModelIds -> ModelRows \cup {NoModel}] /\ \A i \in ModelIds : Made(i) => Made(i)'
  BY <1>1 DEF RowsTyped, Made
<1>3. /\ RowsTyped' /\ InsertsPlain' /\ ClaimedOnce'
      /\ change'[a] = Nothing /\ \A b \in Admins \ {a} : change'[b] = change[b]
  BY <1>1, <1>2, ChangeGoesOn
<1>4. \A t : Defaults(t)' = Defaults(t)
  BY <1>1 DEF Defaults, Made
<1>5. FoundAll' /\ OneDefault'
  BY <1>1, <1>3, <1>4, DefaultsStay
<1> QED BY <1>3, <1>5

\* The rows after a commit: only that of the request may become a default, and
\* only when it claims to be one.
LEMMA CommittedRows ==
    ASSUME ModelsInv, NEW a \in Admins, CommitChange(a)
    PROVE  /\ model' \in [ModelIds -> ModelRows \cup {NoModel}]
           /\ \A i \in ModelIds : Made(i) => Made(i)'
           /\ \A i \in ModelIds : i # change[a].id /\ Made(i)' /\ model'[i].default =>
                  /\ Made(i) /\ model[i].default
                  /\ i \notin change[a].found
           /\ change[a].to.default # TRUE /\ model'[change[a].id].default =>
                  Made(change[a].id) /\ model[change[a].id].default
<1> USE DEF ModelsInv
<1> DEFINE c == change[a]
           read == IF Made(c.id) THEN model[c.id] ELSE c.seen
           row == RowAfter(read, c.seen, c.to)
<1>1. /\ Changing(a)
      /\ model' = [i \in ModelIds |->
             CASE i = c.id -> row
               [] i \in c.found \ {c.id} -> [model[i] EXCEPT !.default = FALSE]
               [] OTHER -> model[i]]
  BY DEF CommitChange
<1>2. /\ c.id \in ModelIds /\ c.to \in Change /\ c.seen \in ModelRows /\ c.found \subseteq ModelIds
  BY <1>1, ChangeFacts
<1>3. read \in ModelRows
  BY <1>2, ModelRowFacts
<1>4. /\ row \in ModelRows
      /\ row.default => c.to.default = TRUE \/ read.default
  <2>1. /\ read.enabled \in BOOLEAN /\ read.default \in BOOLEAN /\ read.params \in Params
        /\ c.to.enabled \in BOOLEAN \cup {Keep} /\ c.to.default \in BOOLEAN \cup {Keep}
        /\ c.to.params \in Params \cup {Keep}
    BY <1>2, <1>3 DEF ModelRows, Change
  <2>2. /\ Written(read, c.seen, c.to, "enabled") \in BOOLEAN
        /\ Written(read, c.seen, c.to, "params") \in Params
        /\ Written(read, c.seen, c.to, "default") \in {c.to.default, read.default} \cap BOOLEAN
    BY <2>1 DEF Written
  <2> DEFINE d == IF c.to.default = TRUE THEN TRUE ELSE Written(read, c.seen, c.to, "default")
  <2>3. d \in BOOLEAN /\ (d = TRUE => c.to.default = TRUE \/ read.default = TRUE)
    BY <2>1, <2>2
  <2>4. row = ModelRow(Written(read, c.seen, c.to, "enabled"), d, Written(read, c.seen, c.to, "params"))
    BY DEF RowAfter
  <2> HIDE DEF d, row, read
  <2> QED BY <2>2, <2>3, <2>4 DEF ModelRow, ModelRows
<1>5. c.to.default # TRUE /\ row.default => Made(c.id) /\ model[c.id].default
  BY <1>1, <1>4 DEF InsertsPlain
<1> HIDE DEF row, read
<1>6. ASSUME NEW i \in ModelIds
      PROVE  /\ i = c.id => model'[i] = row
             /\ i # c.id => model'[i] = IF i \in c.found THEN [model[i] EXCEPT !.default = FALSE] ELSE model[i]
  BY <1>1
<1>7. ASSUME NEW i \in ModelIds, NEW r, r = [model[i] EXCEPT !.default = FALSE]
      PROVE  /\ r \in ModelRows \cup {NoModel}
             /\ r.there = model[i].there
             /\ r \in ModelRows => r.default = FALSE
  <2>1. CASE Made(i)
    BY <1>7, <2>1, ModelRowFacts DEF ModelRows
  <2>2. CASE ~Made(i)
    <3>1. model[i] = NoModel
      BY <2>2, ModelRowFacts
    <3>2. r = NoModel
      BY <1>7, <3>1 DEF NoModel
    <3>3. r \notin ModelRows
      BY <3>2 DEF NoModel, ModelRows
    <3> QED BY <3>1, <3>2, <3>3
  <2> QED BY <2>1, <2>2
<1>8. ASSUME NEW i \in ModelIds PROVE model'[i] \in ModelRows \cup {NoModel}
  BY <1>4, <1>6, <1>7, ModelRowFacts
<1>9. \A r \in ModelRows : r.there
  BY DEF ModelRows
<1>10. ~NoModel.there
  BY DEF NoModel
<1>11. ASSUME NEW i \in ModelIds, Made(i) PROVE Made(i)'
  BY <1>4, <1>6, <1>7, <1>9, <1>11 DEF Made
<1>12. ASSUME NEW i \in ModelIds, i # c.id, Made(i)', model'[i].default
       PROVE  Made(i) /\ model[i].default /\ i \notin c.found
  BY <1>6, <1>7, <1>10, <1>12 DEF Made
<1>13. model' \in [ModelIds -> ModelRows \cup {NoModel}]
  <2>1. model' = [i \in ModelIds |-> model'[i]]
    BY <1>1
  <2> QED BY <1>8, <2>1
<1> QED BY <1>2, <1>5, <1>6, <1>11, <1>12, <1>13

\* A commit makes its row the default only when it has found all others of an
\* uncontested type, and then no other request is about to.
LEMMA CommitStep ==
    ASSUME ModelsInv, NEW a \in Admins, CommitChange(a)
    PROVE  ModelsInv'
<1> USE DEF ModelsInv
<1> DEFINE c == change[a]
           own == TypeOf[c.id]
           claims == c.to.default = TRUE
<1>1. /\ Changing(a) /\ change' = [change EXCEPT ![a] = Nothing]
      /\ UNCHANGED <<versions, changes, contested>>
      /\ claims => c.stage = "cleared"
  BY DEF CommitChange
<1>2. /\ RowsTyped' /\ InsertsPlain' /\ ClaimedOnce'
      /\ change'[a] = Nothing /\ \A b \in Admins \ {a} : change'[b] = change[b]
  <2>1. /\ model' \in [ModelIds -> ModelRows \cup {NoModel}]
        /\ \A i \in ModelIds : Made(i) => Made(i)'
    BY CommittedRows
  <2> QED BY <1>1, <2>1, ChangeGoesOn
<1>3. ASSUME NEW t \in ModelTypes, ~(claims /\ t = own) PROVE Defaults(t)' \subseteq Defaults(t)
  <2>1. ASSUME NEW i \in ModelIds, TypeOf[i] = t, Made(i)', model'[i].default
        PROVE  Made(i) /\ model[i].default
    <3>1. CASE i # c.id
      BY <2>1, <3>1, CommittedRows
    <3>2. CASE i = c.id
      BY <1>3, <2>1, <3>2, CommittedRows
    <3> QED BY <3>1, <3>2
  <2> QED BY <2>1 DEF Defaults
<1>4. ASSUME NEW t \in ModelTypes \ contested, claims, t = own PROVE Defaults(t)' \subseteq {c.id}
  <2>1. Defaults(t) \subseteq c.found
    BY <1>1, <1>4 DEF FoundAll
  <2>2. ASSUME NEW i \in ModelIds, TypeOf[i] = t, Made(i)', model'[i].default PROVE i = c.id
    <3>1. i # c.id => i \in Defaults(t) /\ i \notin c.found
      BY <2>2, CommittedRows DEF Defaults
    <3> QED BY <2>1, <3>1
  <2> QED BY <2>2 DEF Defaults
<1>5. ASSUME NEW t \in ModelTypes, t \notin contested, NEW i \in Defaults(t)', NEW j \in Defaults(t)'
      PROVE  i = j
  <2>1. CASE claims /\ t = own
    BY <1>4, <1>5, <2>1
  <2>2. CASE ~(claims /\ t = own)
    BY <1>3, <1>5, <2>2 DEF OneDefault
  <2> QED BY <2>1, <2>2
<1>6. ASSUME NEW b \in Admins, change'[b] # Nothing, change'[b].stage # "loaded"
      PROVE  /\ change'[b].to.default = TRUE
             /\ (TypeOf[change[b].id] \notin contested => Defaults(TypeOf[change[b].id]) \subseteq change[b].found)'
  <2>1. b # a /\ change'[b] = change[b] /\ Changing(b)
    BY <1>2, <1>6 DEF Changing
  <2> DEFINE t == TypeOf[change[b].id]
  <2>2. change[b].to.default = TRUE /\ (t \notin contested => Defaults(t) \subseteq change[b].found)
    BY <1>6, <2>1 DEF FoundAll
  <2>3. t \in ModelTypes
    BY <2>1, ChangeFacts
  <2>4. claims /\ t = own => t \in contested
    BY <1>1, <2>1, <2>2, <2>3 DEF ClaimedOnce, Claims
  <2>5. t \notin contested => \A s \in ModelTypes : s = t => Defaults(s)' \subseteq Defaults(s)
    BY <1>3, <2>4
  <2>6. Defaults(TypeOf[change[b].id])' \subseteq Defaults(t) \/ t \in contested
    BY <2>1, <2>3, <2>5 DEF Defaults
  <2> QED BY <1>1, <2>1, <2>2, <2>6
<1>7. FoundAll'
  BY <1>6 DEF FoundAll, Changing
<1>8. OneDefault'
  BY <1>1, <1>5 DEF OneDefault
<1> QED BY <1>2, <1>7, <1>8

\* Publishing changes parameters, not who is the default.
LEMMA PublishStep ==
    ASSUME ModelsInv, NEW i \in ModelIds, NEW p \in Params, Publish(i, p)
    PROVE  ModelsInv'
<1> USE DEF ModelsInv
<1>1. /\ Made(i) /\ change' = change /\ contested' = contested
      /\ versions' = Append(versions, [model |-> i, params |-> p])
      /\ model' = [model EXCEPT ![i].params = p]
      /\ changes < MaxChanges /\ changes' = changes + 1
  BY DEF Publish, Count
<1>2. model[i] \in ModelRows
  BY <1>1, ModelRowFacts
<1> DEFINE r == [model[i] EXCEPT !.params = p]
<1>3. r \in ModelRows /\ r.there = model[i].there /\ r.default = model[i].default
  BY <1>2 DEF ModelRows
<1>4. model' = [model EXCEPT ![i] = r]
  BY <1>1
<1> HIDE DEF r
<1>5. \A j \in ModelIds : model'[j].there = model[j].there /\ model'[j].default = model[j].default
  BY <1>3, <1>4 DEF RowsTyped
<1>6. RowsTyped'
  <2>1. versions' \in Seq([model : ModelIds, params : Params])
    BY <1>1 DEF RowsTyped
  <2>2. changes' \in 0..MaxChanges
    BY <1>1, ModelConfigsAssumption DEF RowsTyped
  <2> QED BY <1>1, <1>3, <1>4, <2>1, <2>2 DEF RowsTyped
<1>7. \A t : Defaults(t)' = Defaults(t)
  BY <1>5 DEF Defaults, Made
<1>8. InsertsPlain'
  <2>1. ASSUME NEW b \in Admins, Changing(b), ~model'[change[b].id].there PROVE change[b].seen.default = FALSE
    <3>1. ~Made(change[b].id)
      BY <1>5, <2>1, ChangeFacts DEF Made
    <3> QED BY <2>1, <3>1 DEF InsertsPlain
  <2> QED BY <1>1, <2>1 DEF InsertsPlain, Changing, Made
<1>9. ClaimedOnce'
  BY <1>1 DEF ClaimedOnce, Claims, Changing
<1>10. FoundAll'
  <2>1. ASSUME NEW b \in Admins, Changing(b), change[b].stage # "loaded"
        PROVE  /\ change[b].to.default = TRUE
               /\ TypeOf[change[b].id] \notin contested => Defaults(TypeOf[change[b].id]) \subseteq change[b].found
    BY <2>1 DEF FoundAll
  <2>2. ASSUME NEW b \in Admins PROVE Defaults(TypeOf[change[b].id])' = Defaults(TypeOf[change[b].id])
    BY <1>1, <1>5 DEF Defaults, Made
  <2> QED BY <1>1, <2>1, <2>2 DEF FoundAll, Changing
<1>11. OneDefault'
  BY <1>1, <1>7 DEF OneDefault
<1> QED BY <1>6, <1>8, <1>9, <1>10, <1>11

\* Every step of a request keeps the invariant.
LEMMA ModelsStep == ModelsInv /\ [ModelsNext]_model_vars => ModelsInv'
<1> SUFFICES ASSUME ModelsInv, [ModelsNext]_model_vars PROVE ModelsInv'
  OBVIOUS
<1>1. ASSUME NEW a \in Admins, NEW i \in ModelIds,
             \/ \E e, d \in BOOLEAN, p \in Params : CreateModel(a, i, e, d, p)
             \/ \E to \in Change : UpdateModel(a, i, to)
             \/ \E b \in BOOLEAN : SetStatus(a, i, b) \/ SetDefault(a, i, b)
      PROVE  ModelsInv'
  BY <1>1, RequestsStart
<1>2. ASSUME NEW a \in Admins, SeekDefaults(a) \/ ClearDefaults(a) \/ CommitChange(a) \/ AbortChange(a)
      PROVE  ModelsInv'
  BY <1>2, TakeDefaults, CommitStep, AbandonChange
<1>3. ASSUME NEW i \in ModelIds, NEW p \in Params, Publish(i, p) PROVE ModelsInv'
  BY <1>3, PublishStep
<1>4. ASSUME NEW n \in DOMAIN versions, RollbackVersion(n) PROVE ModelsInv'
  <2>1. versions[n] \in [model : ModelIds, params : Params]
    <3> DEFINE Version == [model : ModelIds, params : Params]
    <3>1. versions \in Seq(Version)
      BY DEF ModelsInv, RowsTyped
    <3> HIDE DEF Version
    <3>2. DOMAIN versions = 1..Len(versions)
      BY <3>1
    <3>3. versions[n] \in Version
      BY <1>4, <3>1, <3>2, ElementOfSeq
    <3> QED BY <3>3 DEF Version
  <2>2. versions[n].model \in ModelIds /\ versions[n].params \in Params
    BY <2>1
  <2> QED BY <1>4, <2>2, PublishStep DEF RollbackVersion
<1>5. CASE UNCHANGED model_vars
  BY <1>5 DEF model_vars, ModelsInv, RowsTyped, InsertsPlain, ClaimedOnce, FoundAll, OneDefault,
              Made, Changing, Claims, Defaults
<1> QED BY <1>1, <1>2, <1>3, <1>4, <1>5 DEF ModelsNext

\* The invariant of the registry always holds.
LEMMA ModelsAlways == ModelsSpec => []ModelsInv
  BY ModelsStart, ModelsStep, PTL DEF ModelsSpec

\* Every variable of the model registry keeps its type (model_config.py).
THEOREM ModelsTyped == ModelsSpec => []ModelsTypeOK
<1>1. ModelsInv => ModelsTypeOK
  BY TypesFollow DEF ModelsInv
<1> QED BY <1>1, ModelsAlways, PTL

\* A type of models has at most one default while no two requests claim it at
\* a time, however others overlap (_set_default of model_config.py).
THEOREM OneDefaultModel == ModelsSpec => []UncontestedDefault
<1>1. ASSUME OneDefault PROVE UncontestedDefault
  <2>1. ASSUME NEW t \in ModelTypes \ contested PROVE Cardinality(Defaults(t)) <= 1
    <3>1. CASE Defaults(t) = {}
      BY <3>1, FS_EmptySet
    <3>2. CASE Defaults(t) # {}
      <4>1. PICK i \in Defaults(t) : TRUE
        BY <3>2
      <4>2. Defaults(t) = {i}
        BY <1>1, <4>1 DEF OneDefault
      <4>3. Cardinality({i}) = 1
        BY FS_Singleton
      <4> QED BY <4>2, <4>3
    <3> QED BY <3>1, <3>2
  <2> QED BY <2>1 DEF UncontestedDefault
<1>2. ModelsInv => UncontestedDefault
  BY <1>1 DEF ModelsInv
<1> QED BY <1>2, ModelsAlways, PTL

-----------------------------------------------------------------------------
(* FaqVerify: the verification of FAQs *)

CallsCounted == begun <= CountToday

VerifyInv == VerifyTypeOK /\ CallsCounted /\ DisabledStaysSilent

-----------------------------------------------------------------------------
\* The count of today is a number up to the limit.
LEMMA CountBounded ==
    ASSUME VerifyTypeOK
    PROVE  /\ CountToday \in 0..DailyLimit /\ DailyLimit \in Nat \ {0}
           /\ UnderDailyLimit => CountToday + 1 \in 0..DailyLimit
  BY FaqVerifyAssumption DEF VerifyTypeOK, CountToday, UnderDailyLimit

\* A row is not the mark of a deleted one.
LEMMA RowFields ==
    ASSUME VerifyTypeOK, NEW f \in Faqs, faq[f] # Deleted
    PROVE  /\ faq[f] \in FaqRow
           /\ faq[f].status \in {"active", "pending_review", "disabled"}
           /\ faq[f].is_active \in BOOLEAN /\ faq[f].drifted \in BOOLEAN
  BY DEF VerifyTypeOK, FaqRow, Deleted

\* The verification starts with no call begun.
LEMMA VerifyStarts == VerifyInit => VerifyInv
<1> SUFFICES ASSUME VerifyInit PROVE VerifyInv
  OBVIOUS
<1> DEFINE generated == {[status |-> s, is_active |-> TRUE, drifted |-> FALSE] :
                           s \in {"active", "pending_review"}}
<1>1. faq \in [Faqs -> FaqRow \cup {Deleted}]
  <2>1. generated \subseteq FaqRow
    <3>1. ASSUME NEW s \in {"active", "pending_review"}
          PROVE  [status |-> s, is_active |-> TRUE, drifted |-> FALSE] \in FaqRow
      BY DEF FaqRow
    <3> QED BY <3>1, Zenon
  <2>2. faq \in [Faqs -> generated]
    BY DEF VerifyInit
  <2> HIDE DEF generated
  <2> QED BY <2>1, <2>2
<1>2. VerifyTypeOK
  BY <1>1, FaqVerifyAssumption DEF VerifyInit, VerifyTypeOK
<1>3. CallsCounted /\ DisabledStaysSilent
  BY DEF VerifyInit, CallsCounted, CountToday, DisabledStaysSilent
<1> QED BY <1>2, <1>3 DEF VerifyInv

\* The queue refuses FAQs when the day is full; the count is that of today.
LEMMA EnqueueVerified ==
    ASSUME VerifyInv, NEW f \in Faqs, EnqueueFaq(f)
    PROVE  VerifyInv'
<1>1. daily' = [day |-> now, count |-> CountToday] /\ waiting' \in Seq(Faqs) /\ Len(waiting') <= MaxWaiting
      /\ UNCHANGED <<faq, checker, now, begun, decided, decisions>>
  BY FaqVerifyAssumption DEF EnqueueFaq, VerifyInv, VerifyTypeOK
<1>2. VerifyTypeOK'
  BY <1>1, CountBounded DEF VerifyInv, VerifyTypeOK
<1>3. CountToday' = CountToday
  BY <1>1 DEF CountToday
<1> QED BY <1>1, <1>2, <1>3 DEF VerifyInv, CallsCounted, DisabledStaysSilent, Answering

\* A call begins with the day it is counted on.
LEMMA TakeVerified ==
    ASSUME VerifyInv, NEW c \in Checkers, TakeFaq(c)
    PROVE  VerifyInv'
<1> DEFINE f == Head(waiting)
           calls == UnderDailyLimit /\ faq[f] # Deleted /\ faq[f].is_active /\ faq[f].status # "disabled"
<1>1. /\ daily' = [day |-> now, count |-> IF UnderDailyLimit THEN CountToday + 1 ELSE CountToday]
      /\ waiting' = Tail(waiting) /\ waiting # <<>>
      /\ UNCHANGED <<faq, now, decided, decisions>>
  BY DEF TakeFaq
<1>2. /\ calls => checker' = [checker EXCEPT ![c] = [faq |-> f, read |-> faq[f]]] /\ begun' = begun + 1
      /\ ~calls => UNCHANGED <<checker, begun>>
  BY DEF TakeFaq
<1>3. f \in Faqs /\ waiting' \in Seq(Faqs) /\ Len(waiting') <= MaxWaiting
  BY <1>1, FaqVerifyAssumption DEF VerifyInv, VerifyTypeOK
<1>4. CountToday' = daily'.count /\ daily'.count \in 0..DailyLimit
  BY <1>1, CountBounded DEF VerifyInv, CountToday
<1>5. begun' <= CountToday'
  <2>1. begun \in Nat /\ CountToday \in Nat /\ begun <= CountToday
    BY CountBounded DEF VerifyInv, VerifyTypeOK, CallsCounted
  <2>2. CASE calls
    BY <1>1, <1>2, <1>4, <2>1, <2>2
  <2>3. CASE ~calls
    BY <1>1, <1>2, <1>4, <2>1, <2>3
  <2> QED BY <2>2, <2>3
<1>6. VerifyTypeOK'
  <2>1. begun' \in Nat /\ daily' \in [day : 0..MaxToday, count : 0..DailyLimit]
    BY <1>1, <1>2, <1>4 DEF VerifyInv, VerifyTypeOK
  <2>2. \A k \in Checkers : checker'[k] = Resting \/ checker'[k] \in [faq : Faqs, read : FaqRow]
    <3>1. CASE calls
      <4>1. faq[f] \in FaqRow
        BY <1>3, <3>1, RowFields DEF VerifyInv
      <4>2. [faq |-> f, read |-> faq[f]] \in [faq : Faqs, read : FaqRow]
        BY <1>3, <4>1
      <4>3. checker' = [checker EXCEPT ![c] = [faq |-> f, read |-> faq[f]]]
        BY <1>2, <3>1
      <4> TAKE k \in Checkers
      <4>4. CASE k = c
        BY <4>2, <4>3, <4>4 DEF VerifyInv, VerifyTypeOK
      <4>5. CASE k # c
        BY <4>3, <4>5 DEF VerifyInv, VerifyTypeOK
      <4> QED BY <4>4, <4>5
    <3>2. CASE ~calls
      BY <1>2, <3>2 DEF VerifyInv, VerifyTypeOK
    <3> QED BY <3>1, <3>2
  <2> QED BY <1>1, <1>3, <2>1, <2>2 DEF VerifyInv, VerifyTypeOK
<1>7. DisabledStaysSilent'
  BY <1>1 DEF VerifyInv, DisabledStaysSilent, Answering
<1> QED BY <1>5, <1>6, <1>7 DEF VerifyInv, CallsCounted

\* A verdict makes no FAQ answer: it never writes active, nor is_active.
LEMMA VerdictVerified ==
    ASSUME VerifyInv, NEW c \in Checkers, ReportDrift(c)
    PROVE  VerifyInv'
<1> DEFINE f == checker[c].faq
<1>1. f \in Faqs /\ faq[f] # Deleted /\ faq[f] \in FaqRow
  BY RowFields DEF ReportDrift, VerifyInv, VerifyTypeOK
<1>2. /\ checker' = [checker EXCEPT ![c] = Resting]
      /\ UNCHANGED <<waiting, daily, now, begun, decided, decisions>>
  BY DEF ReportDrift
<1>3. PICK s \in {"pending_review", faq[f].status} :
        faq' = [faq EXCEPT ![f] = [faq[f] EXCEPT !.drifted = TRUE, !.status = s]]
  <2>1. CASE checker[c].read.status = "active"
    BY <1>1, <2>1 DEF ReportDrift, VerifyInv, VerifyTypeOK, FaqRow
  <2>2. CASE checker[c].read.status # "active"
    BY <1>1, <2>2 DEF ReportDrift, VerifyInv, VerifyTypeOK, FaqRow
  <2> QED BY <2>1, <2>2
<1>4. /\ faq'[f] \in FaqRow /\ faq'[f].status = s /\ faq'[f].is_active = faq[f].is_active
      /\ \A g \in Faqs : g # f => faq'[g] = faq[g]
      /\ faq' \in [Faqs -> FaqRow \cup {Deleted}]
  BY <1>1, <1>3 DEF VerifyInv, VerifyTypeOK, FaqRow
<1>5. VerifyTypeOK'
  BY <1>2, <1>4 DEF VerifyInv, VerifyTypeOK
<1>6. DisabledStaysSilent'
  BY <1>1, <1>2, <1>4 DEF VerifyInv, VerifyTypeOK, DisabledStaysSilent, Answering
<1> QED BY <1>2, <1>5, <1>6 DEF VerifyInv, CallsCounted, CountToday

\* What a person decides is remembered as long as nobody decides otherwise.
LEMMA DecideVerified ==
    ASSUME VerifyInv, NEW f \in Faqs, NEW r \in FaqRow \cup {Deleted}, Decide(f, r)
    PROVE  VerifyInv'
<1>1. VerifyTypeOK'
  BY FaqVerifyAssumption DEF Decide, VerifyInv, VerifyTypeOK
<1>2. DisabledStaysSilent'
  BY DEF Decide, VerifyInv, VerifyTypeOK, DisabledStaysSilent, Answering
<1> QED BY <1>1, <1>2 DEF Decide, VerifyInv, CallsCounted, CountToday

\* What people do to FAQs keeps the invariant.
LEMMA PeopleVerified ==
    ASSUME VerifyInv, NEW f \in Faqs,
           \/ ApproveFaq(f) \/ DisableFaq(f) \/ DeleteFaq(f) \/ EditAnswer(f)
           \/ \E s \in {"active", "disabled"}, is_active \in BOOLEAN : PutFaq(f, s, is_active)
    PROVE  VerifyInv'
<1>1. faq[f] \in FaqRow \/ faq[f] = Deleted
  BY DEF VerifyInv, VerifyTypeOK
<1>2. CASE ApproveFaq(f)
  <2>1. faq[f] \in FaqRow
    BY <1>1, <1>2 DEF ApproveFaq, Decide
  <2>2. [faq[f] EXCEPT !.status = "active", !.is_active = TRUE] \in FaqRow
    BY <2>1 DEF FaqRow
  <2> QED BY <1>2, <2>2, DecideVerified DEF ApproveFaq
<1>3. CASE DisableFaq(f)
  <2>1. faq[f] \in FaqRow
    BY <1>1, <1>3 DEF DisableFaq, Decide
  <2>2. [faq[f] EXCEPT !.status = "disabled", !.is_active = FALSE] \in FaqRow
    BY <2>1 DEF FaqRow
  <2> QED BY <1>3, <2>2, DecideVerified DEF DisableFaq
<1>4. CASE DeleteFaq(f)
  BY <1>4, DecideVerified DEF DeleteFaq
<1>5. CASE EditAnswer(f)
  <2>1. faq[f] \in FaqRow
    BY <1>1, <1>5 DEF EditAnswer, Decide
  <2>2. [faq[f] EXCEPT !.drifted = FALSE] \in FaqRow
    BY <2>1 DEF FaqRow
  <2> QED BY <1>5, <2>2, DecideVerified DEF EditAnswer
<1>6. ASSUME NEW s \in {"active", "disabled"}, NEW is_active \in BOOLEAN, PutFaq(f, s, is_active)
      PROVE  VerifyInv'
  <2> DEFINE drifted == faq[f].drifted /\ s # "active"
             r == [faq[f] EXCEPT !.status = s, !.is_active = is_active, !.drifted = drifted]
  <2>1. faq[f] \in FaqRow /\ drifted \in BOOLEAN
    BY <1>1, <1>6 DEF PutFaq, Decide
  <2>2. Decide(f, r)
    BY <1>6, <2>1 DEF PutFaq, FaqRow
  <2>3. r \in FaqRow
    <3> HIDE DEF drifted
    <3> QED BY <2>1 DEF FaqRow
  <2> QED BY <2>2, <2>3, DecideVerified
<1> QED BY <1>2, <1>3, <1>4, <1>5, <1>6

\* Every step of a verification keeps the invariant.
LEMMA VerifyStep == VerifyInv /\ [VerifyNext]_verify_vars => VerifyInv'
<1> SUFFICES ASSUME VerifyInv, [VerifyNext]_verify_vars PROVE VerifyInv'
  OBVIOUS
<1>1. CASE UNCHANGED verify_vars
  BY <1>1 DEF verify_vars, VerifyInv, VerifyTypeOK, CallsCounted, CountToday, DisabledStaysSilent, Answering
<1>2. ASSUME NEW c \in Checkers, LeaveFaq(c) PROVE VerifyInv'
  BY <1>2 DEF LeaveFaq, VerifyInv, VerifyTypeOK, CallsCounted, CountToday, DisabledStaysSilent, Answering
<1>3. CASE RestartVerify
  <2>1. VerifyTypeOK'
    BY <1>3, FaqVerifyAssumption DEF RestartVerify, VerifyInv, VerifyTypeOK
  <2>2. CallsCounted' /\ DisabledStaysSilent'
    BY <1>3 DEF RestartVerify, VerifyInv, CallsCounted, CountToday, DisabledStaysSilent, Answering
  <2> QED BY <2>1, <2>2 DEF VerifyInv
<1>4. CASE NextToday
  <2>1. VerifyTypeOK'
    BY <1>4, FaqVerifyAssumption DEF NextToday, VerifyInv, VerifyTypeOK
  <2>2. CallsCounted'
    BY <1>4, <2>1, CountBounded, FaqVerifyAssumption
       DEF NextToday, VerifyInv, VerifyTypeOK, CallsCounted, CountToday
  <2> QED BY <1>4, <2>1, <2>2 DEF NextToday, VerifyInv, DisabledStaysSilent, Answering
<1>5. CASE VerifyNext
  BY <1>2, <1>3, <1>4, <1>5, EnqueueVerified, TakeVerified, VerdictVerified, PeopleVerified DEF VerifyNext
<1> QED BY <1>1, <1>5

-----------------------------------------------------------------------------
(* Theorems *)

\* Every variable of the verification keeps its type (faq_verify_service.py).
THEOREM VerificationTyped == VerifySpec => []VerifyTypeOK
<1>1. VerifyInv => VerifyTypeOK
  BY DEF VerifyInv
<1> QED BY <1>1, VerifyStarts, VerifyStep, PTL DEF VerifySpec

\* No process makes more model calls in a day than the limit, and no verdict
\* makes a FAQ answer that a person has silenced (_worker, verify_one).
THEOREM VerificationKept == VerifySpec => []VerifyKept
<1>1. VerifyInv => VerifyKept
  BY CountBounded DEF VerifyInv, VerifyTypeOK, CallsCounted, VerifyKept, DailyLimitKept
<1> QED BY <1>1, VerifyStarts, VerifyStep, PTL DEF VerifySpec

-----------------------------------------------------------------------------
(* Feedback: the ratings of answers *)

Under(p) == rating[p] \in Rating /\ rating[p].stage # "read"

\* Only one request at a time holds the row of a message.
OneUpdater == \A p, q \in Raters :
    Under(p) /\ Under(q) /\ Updates(p) /\ Updates(q) /\ rating[p].message = rating[q].message
        => p = q

\* A request that clears a rating and wrote no fact finds none at its commit.
NothingToClear == \A p \in Raters :
    Under(p) /\ ~rating[p].touches =>
        /\ rating[p].value = "none"
        /\ Updates(p) /\ rating[p].message \notin crossed => fact[rating[p].message] = "none"

\* The count a request has read is one of rejects that were committed.
CountedFair == \A p \in Raters :
    Under(p) /\ rating[p].stage = "counting" =>
        /\ CountsAgainst(p)
        /\ rating[p].count <= said_useless[AnswerFrom[rating[p].message]]

FeedbackInv == /\ FeedbackTypeOK /\ FeedbackAgrees /\ RejectsHonest
               /\ OneUpdater /\ NothingToClear /\ CountedFair

-----------------------------------------------------------------------------
(* Types *)

\* A request is either none or a record of its stage.
LEMMA RatingStages ==
    ASSUME FeedbackTypeOK, NEW p \in Raters
    PROVE  /\ rating[p] \in Rating <=> rating[p] # NoRating
           /\ rating[p].stage # "idle" <=> rating[p] # NoRating
           /\ rating[p] \in Rating => /\ rating[p].stage \in {"read", "written", "counting"}
                                      /\ rating[p].message \in RatedMessages
                                      /\ rating[p].value \in Ratings /\ rating[p].seen \in Ratings
                                      /\ rating[p].touches \in BOOLEAN /\ rating[p].count \in Nat
  BY DEF FeedbackTypeOK, Rating, NoRating

\* A message that counts against a FAQ was answered from one.
LEMMA AnsweredFrom ==
    ASSUME NEW m \in RatedMessages, AnswerFrom[m] # NoFaqUsed
    PROVE  AnswerFrom[m] \in RatedFaqs
  BY FeedbackAssumption

\* No rating, fact or request exists at the start.
LEMMA StartTyped == FeedbackInit => FeedbackInv
  BY FeedbackAssumption
     DEF FeedbackInit, FeedbackInv, FeedbackTypeOK, FeedbackAgrees, RejectsHonest, OneUpdater,
         NothingToClear, CountedFair, Under, Ratings, NoRating, Rating

-----------------------------------------------------------------------------
(* Steps *)

\* Reading a message disturbs nothing: the request is not yet under way.
LEMMA ReadKeeps ==
    ASSUME FeedbackInv, NEW p \in Raters, NEW m \in RatedMessages, NEW value \in Ratings,
           ReadMessage(p, m, value)
    PROVE  FeedbackInv'
<1>1. FeedbackTypeOK'
  BY FeedbackAssumption DEF FeedbackInv, FeedbackTypeOK, ReadMessage, Rating
<1>2. \A q \in Raters : Under(q)' => q # p /\ Under(q) /\ rating'[q] = rating[q]
  BY DEF FeedbackInv, FeedbackTypeOK, ReadMessage, Under
<1>3. FeedbackAgrees' /\ RejectsHonest'
  BY DEF FeedbackInv, FeedbackAgrees, RejectsHonest, ReadMessage
<1>4. OneUpdater' /\ NothingToClear' /\ CountedFair'
  BY <1>2 DEF FeedbackInv, OneUpdater, NothingToClear, CountedFair, CountsAgainst, Updates, ReadMessage
<1> QED BY <1>1, <1>3, <1>4 DEF FeedbackInv

\* Writing takes the row of the message, and finds whether there is a fact.
LEMMA WriteKeeps ==
    ASSUME FeedbackInv, NEW p \in Raters, WriteRating(p)
    PROVE  FeedbackInv'
<1> DEFINE x == rating[p]
           touched == x.value # "none" \/ fact[x.message] # "none"
<1>1. /\ x \in Rating /\ x.stage = "read" /\ x.message \in RatedMessages
      /\ rating' = [rating EXCEPT ![p] = [x EXCEPT !.stage = "written", !.touches = touched]]
      /\ UNCHANGED <<told, fact, reject_count, refused, said_useless, crossed, ratings>>
  BY RatingStages DEF FeedbackInv, WriteRating
<1>2. /\ rating'[p] \in Rating /\ rating'[p].stage = "written" /\ rating'[p].touches = touched
      /\ rating'[p].message = x.message /\ rating'[p].value = x.value /\ rating'[p].seen = x.seen
  BY <1>1 DEF FeedbackInv, FeedbackTypeOK, Rating
<1>3. \A q \in Raters : q # p => rating'[q] = rating[q]
  BY <1>1 DEF FeedbackInv, FeedbackTypeOK
<1>4. FeedbackTypeOK'
  BY <1>1, <1>2, <1>3 DEF FeedbackInv, FeedbackTypeOK
<1>5. FeedbackAgrees' /\ RejectsHonest'
  BY <1>1 DEF FeedbackInv, FeedbackAgrees, RejectsHonest
<1>6. OneUpdater'
  <2>1. Updates(p) => \A q \in Raters :
            ~(Under(q) /\ Updates(q) /\ rating[q].message = x.message)
    BY RatingStages DEF FeedbackInv, WriteRating, HoldsMessage, InRequest, Under
  <2>2. Updates(p)' <=> Updates(p)
    BY <1>2 DEF Updates
  <2> QED BY <1>1, <1>2, <1>3, <2>1, <2>2 DEF FeedbackInv, OneUpdater, Under, Updates
<1>7. NothingToClear'
  <2> SUFFICES ASSUME NEW q \in Raters, Under(q)', ~rating'[q].touches
               PROVE  /\ rating'[q].value = "none"
                      /\ Updates(q)' /\ rating'[q].message \notin crossed
                            => fact[rating'[q].message] = "none"
    BY <1>1 DEF NothingToClear
  <2>1. CASE q = p
    <3>1. ~touched
      BY <1>2, <2>1
    <3> QED BY <1>2, <2>1, <3>1
  <2>2. CASE q # p
    BY <1>3, <2>2 DEF FeedbackInv, NothingToClear, Under, Updates
  <2> QED BY <2>1, <2>2
<1>8. CountedFair'
  BY <1>1, <1>2, <1>3 DEF FeedbackInv, CountedFair, CountsAgainst, Under
<1> QED BY <1>4, <1>5, <1>6, <1>7, <1>8 DEF FeedbackInv

\* The count that is read is not above the rejects committed so far.
LEMMA CountKeeps ==
    ASSUME FeedbackInv, NEW p \in Raters, ReadRejects(p)
    PROVE  FeedbackInv'
<1> DEFINE x == rating[p]
           f == AnswerFrom[x.message]
<1>1. /\ x \in Rating /\ x.stage = "written" /\ x.message \in RatedMessages /\ f \in RatedFaqs
      /\ rating' = [rating EXCEPT ![p] = [x EXCEPT !.stage = "counting", !.count = reject_count[f]]]
      /\ UNCHANGED <<told, fact, reject_count, refused, said_useless, crossed, ratings>>
  BY RatingStages, AnsweredFrom DEF FeedbackInv, ReadRejects, CountsAgainst
<1>2. /\ rating'[p] \in Rating /\ rating'[p].stage = "counting" /\ rating'[p].count = reject_count[f]
      /\ rating'[p].message = x.message /\ rating'[p].value = x.value /\ rating'[p].seen = x.seen
      /\ rating'[p].touches = x.touches
  BY <1>1 DEF FeedbackInv, FeedbackTypeOK, Rating
<1>3. \A q \in Raters : q # p => rating'[q] = rating[q]
  BY <1>1 DEF FeedbackInv, FeedbackTypeOK
<1>4. FeedbackTypeOK'
  BY <1>1, <1>2, <1>3 DEF FeedbackInv, FeedbackTypeOK
<1>5. FeedbackAgrees' /\ RejectsHonest'
  BY <1>1 DEF FeedbackInv, FeedbackAgrees, RejectsHonest
<1>6. \A q \in Raters : /\ Under(q)' <=> Under(q)
                        /\ Updates(q)' <=> Updates(q)
                        /\ CountsAgainst(q)' <=> CountsAgainst(q)
                        /\ rating'[q].message = rating[q].message
                        /\ rating'[q].value = rating[q].value
                        /\ rating'[q].touches = rating[q].touches
  BY <1>1, <1>2, <1>3 DEF Under, Updates, CountsAgainst
<1>7. OneUpdater'
  BY <1>6 DEF FeedbackInv, OneUpdater
<1>8. NothingToClear'
  BY <1>1, <1>6 DEF FeedbackInv, NothingToClear
<1>9. CountedFair'
  <2>1. CountsAgainst(p)
    BY DEF ReadRejects
  <2>2. rating'[p].count <= said_useless[f]
    BY <1>1, <1>2 DEF FeedbackInv, RejectsHonest
  <2> QED BY <1>1, <1>2, <1>3, <1>6, <2>1, <2>2 DEF FeedbackInv, CountedFair
<1> QED BY <1>4, <1>5, <1>7, <1>8, <1>9 DEF FeedbackInv

\* A commit writes message, fact and count together.
LEMMA CommitKeeps ==
    ASSUME FeedbackInv, NEW p \in Raters, CommitRating(p)
    PROVE  FeedbackInv'
<1> DEFINE x == rating[p]
           m == x.message
           f == AnswerFrom[m]
<1>1. /\ x \in Rating /\ Under(p) /\ m \in RatedMessages /\ x.value \in Ratings /\ x.count \in Nat
      /\ CountsAgainst(p) => f \in RatedFaqs /\ x.stage = "counting"
  BY RatingStages, AnsweredFrom DEF FeedbackInv, CommitRating, CountsAgainst, Under
<1>2. /\ told' = IF Updates(p) THEN [told EXCEPT ![m] = x.value] ELSE told
      /\ fact' = IF x.touches THEN [fact EXCEPT ![m] = x.value] ELSE fact
      /\ crossed' = IF ~Updates(p) /\ x.touches /\ told[m] # x.value THEN crossed \cup {m} ELSE crossed
      /\ rating' = [rating EXCEPT ![p] = NoRating] /\ ratings' = ratings
  BY DEF CommitRating
<1>3. /\ CountsAgainst(p) =>
           /\ reject_count' = [reject_count EXCEPT ![f] = x.count + 1]
           /\ said_useless' = [said_useless EXCEPT ![f] = @ + 1]
           /\ refused' = IF Disables(x.count) THEN refused \cup {f} ELSE refused
      /\ ~CountsAgainst(p) => UNCHANGED <<reject_count, said_useless, refused>>
  BY DEF CommitRating
<1>4. \A q \in Raters : Under(q)' => q # p /\ Under(q) /\ rating'[q] = rating[q]
  BY <1>2 DEF FeedbackInv, FeedbackTypeOK, Under, Rating, NoRating
<1>5. FeedbackTypeOK'
  <2>1. /\ told' \in [RatedMessages -> Ratings] /\ fact' \in [RatedMessages -> Ratings]
        /\ crossed' \subseteq RatedMessages /\ rating' \in [Raters -> Rating \cup {NoRating}]
    BY <1>1, <1>2 DEF FeedbackInv, FeedbackTypeOK
  <2>2. /\ reject_count' \in [RatedFaqs -> Nat] /\ said_useless' \in [RatedFaqs -> Nat]
        /\ refused' \subseteq RatedFaqs
    BY <1>1, <1>3 DEF FeedbackInv, FeedbackTypeOK
  <2> QED BY <1>2, <2>1, <2>2 DEF FeedbackInv, FeedbackTypeOK
<1>6. FeedbackAgrees'
  <2> SUFFICES ASSUME NEW n \in RatedMessages, n \notin crossed' PROVE told'[n] = fact'[n]
    BY DEF FeedbackAgrees
  <2>1. n \notin crossed /\ told[n] = fact[n]
    BY <1>2 DEF FeedbackInv, FeedbackAgrees
  <2>2. told \in [RatedMessages -> Ratings] /\ fact \in [RatedMessages -> Ratings]
    BY DEF FeedbackInv, FeedbackTypeOK
  <2>3. CASE n # m
    BY <1>2, <2>1, <2>2, <2>3
  <2>4. CASE n = m /\ Updates(p) /\ x.touches
    BY <1>2, <2>2, <2>4
  <2>5. CASE n = m /\ Updates(p) /\ ~x.touches
    <3>1. x.value = "none" /\ fact[m] = "none"
      BY <1>1, <2>1, <2>5 DEF FeedbackInv, NothingToClear
    <3> QED BY <1>2, <2>2, <2>5, <3>1
  <2>6. CASE n = m /\ ~Updates(p) /\ x.touches
    BY <1>2, <2>2, <2>6
  <2>7. CASE n = m /\ ~Updates(p) /\ ~x.touches
    BY <1>2, <2>1, <2>7
  <2> QED BY <2>3, <2>4, <2>5, <2>6, <2>7
<1>7. RejectsHonest'
  <2>1. CASE ~CountsAgainst(p)
    BY <1>3, <2>1 DEF FeedbackInv, RejectsHonest
  <2>2. CASE CountsAgainst(p)
    <3>1. x.count <= said_useless[f] /\ f \in RatedFaqs /\ said_useless[f] \in Nat /\ RejectLimit \in Nat
      BY <1>1, <2>2, FeedbackAssumption DEF FeedbackInv, FeedbackTypeOK, CountedFair
    <3>2. reject_count'[f] = x.count + 1 /\ said_useless'[f] = said_useless[f] + 1
      BY <1>1, <1>3, <2>2 DEF FeedbackInv, FeedbackTypeOK
    <3>3. reject_count'[f] <= said_useless'[f]
      BY <1>1, <3>1, <3>2
    <3>4. f \in refused' => said_useless'[f] >= RejectLimit
      <4>1. CASE f \in refused
        BY <3>1, <3>2, <4>1 DEF FeedbackInv, RejectsHonest
      <4>2. CASE f \in refused' /\ f \notin refused
        BY <1>1, <1>3, <2>2, <3>1, <3>2, <4>2 DEF Disables
      <4> QED BY <4>1, <4>2
    <3>5. ASSUME NEW g \in RatedFaqs, g # f
          PROVE  /\ reject_count'[g] <= said_useless'[g]
                 /\ g \in refused' => said_useless'[g] >= RejectLimit
      <4>1. /\ reject_count'[g] = reject_count[g] /\ said_useless'[g] = said_useless[g]
            /\ g \in refused' => g \in refused
        BY <1>3, <2>2, <3>5 DEF FeedbackInv, FeedbackTypeOK
      <4> QED BY <4>1 DEF FeedbackInv, RejectsHonest
    <3> QED BY <3>3, <3>4, <3>5 DEF RejectsHonest
  <2> QED BY <2>1, <2>2
<1>8. OneUpdater'
  BY <1>4 DEF FeedbackInv, OneUpdater, Updates
<1>9. NothingToClear'
  <2> SUFFICES ASSUME NEW q \in Raters, Under(q)', ~rating'[q].touches
               PROVE  /\ rating'[q].value = "none"
                      /\ Updates(q)' /\ rating'[q].message \notin crossed'
                            => fact'[rating'[q].message] = "none"
    BY DEF NothingToClear
  <2>1. q # p /\ Under(q) /\ rating'[q] = rating[q] /\ rating[q].message \in RatedMessages
    BY <1>4, RatingStages DEF FeedbackInv, Under
  <2>2. rating[q].value = "none"
    BY <2>1 DEF FeedbackInv, NothingToClear
  <2>3. ASSUME Updates(q), rating[q].message \notin crossed'
        PROVE  fact'[rating[q].message] = "none"
    <3>1. rating[q].message \notin crossed /\ fact[rating[q].message] = "none"
      BY <1>2, <2>1, <2>3 DEF FeedbackInv, NothingToClear
    <3>2. told[rating[q].message] = "none"
      BY <2>1, <3>1 DEF FeedbackInv, FeedbackAgrees
    <3>3. CASE rating[q].message # m \/ ~x.touches
      BY <1>2, <2>1, <3>1, <3>3 DEF FeedbackInv, FeedbackTypeOK
    <3>4. CASE rating[q].message = m /\ x.touches
      <4>1. ~Updates(p)
        BY <1>1, <2>1, <2>3, <3>4 DEF FeedbackInv, OneUpdater
      <4>2. told[m] = x.value
        BY <1>2, <2>3, <3>4, <4>1
      <4> QED BY <1>2, <2>1, <3>2, <3>4, <4>2 DEF FeedbackInv, FeedbackTypeOK
    <3> QED BY <3>3, <3>4
  <2> QED BY <2>1, <2>2, <2>3 DEF Updates
<1>10. CountedFair'
  <2>1. \A g \in RatedFaqs : said_useless[g] \in Nat /\ said_useless'[g] \in Nat
                             /\ said_useless[g] <= said_useless'[g]
    BY <1>1, <1>3 DEF FeedbackInv, FeedbackTypeOK
  <2> SUFFICES ASSUME NEW q \in Raters, Under(q)', rating'[q].stage = "counting"
               PROVE  /\ CountsAgainst(q)'
                      /\ rating'[q].count <= said_useless'[AnswerFrom[rating'[q].message]]
    BY DEF CountedFair
  <2>2. Under(q) /\ rating'[q] = rating[q] /\ rating[q].message \in RatedMessages /\ rating[q].count \in Nat
    BY <1>4, RatingStages DEF FeedbackInv, Under
  <2>3. CountsAgainst(q) /\ rating[q].count <= said_useless[AnswerFrom[rating[q].message]]
    BY <2>2 DEF FeedbackInv, CountedFair
  <2>4. AnswerFrom[rating[q].message] \in RatedFaqs
    BY <2>2, <2>3, AnsweredFrom DEF CountsAgainst
  <2> QED BY <2>1, <2>2, <2>3, <2>4 DEF CountsAgainst
<1> QED BY <1>5, <1>6, <1>7, <1>8, <1>9, <1>10 DEF FeedbackInv

\* A rollback only ends the request.
LEMMA FailKeeps ==
    ASSUME FeedbackInv, NEW p \in Raters, FailRating(p)
    PROVE  FeedbackInv'
<1>1. FeedbackTypeOK'
  BY DEF FeedbackInv, FeedbackTypeOK, FailRating
<1>2. \A q \in Raters : Under(q)' => q # p /\ Under(q) /\ rating'[q] = rating[q]
  BY DEF FeedbackInv, FeedbackTypeOK, FailRating, Under, Rating, NoRating
<1>3. FeedbackAgrees' /\ RejectsHonest'
  BY DEF FeedbackInv, FeedbackAgrees, RejectsHonest, FailRating
<1>4. OneUpdater' /\ NothingToClear' /\ CountedFair'
  BY <1>2 DEF FeedbackInv, OneUpdater, NothingToClear, CountedFair, CountsAgainst, Updates, FailRating
<1> QED BY <1>1, <1>3, <1>4 DEF FeedbackInv

\* Enabling a FAQ again only shortens the list of the disabled.
LEMMA EnableKeeps ==
    ASSUME FeedbackInv, NEW f \in RatedFaqs, EnableRefused(f)
    PROVE  FeedbackInv'
  BY DEF FeedbackInv, FeedbackTypeOK, FeedbackAgrees, RejectsHonest, OneUpdater, NothingToClear,
         CountedFair, CountsAgainst, Under, Updates, EnableRefused

\* Every statement and commit of a rating keeps the invariant.
LEMMA FeedbackStep == FeedbackInv /\ [FeedbackNext]_feedback_vars => FeedbackInv'
<1> SUFFICES ASSUME FeedbackInv, [FeedbackNext]_feedback_vars PROVE FeedbackInv'
  OBVIOUS
<1>1. CASE UNCHANGED feedback_vars
  BY <1>1 DEF feedback_vars, FeedbackInv, FeedbackTypeOK, FeedbackAgrees, RejectsHonest, OneUpdater,
              NothingToClear, CountedFair, CountsAgainst, Under, Updates
<1>2. CASE FeedbackNext
  BY <1>2, ReadKeeps, WriteKeeps, CountKeeps, CommitKeeps, FailKeeps, EnableKeeps DEF FeedbackNext
<1> QED BY <1>1, <1>2

-----------------------------------------------------------------------------
(* Theorems *)

\* Every variable of the ratings keeps its type (submit_feedback).
THEOREM RatingsTyped == FeedbackSpec => []FeedbackTypeOK
<1>1. FeedbackInv => FeedbackTypeOK
  BY DEF FeedbackInv
<1> QED BY <1>1, StartTyped, FeedbackStep, PTL DEF FeedbackSpec

\* Message and fact agree, and no FAQ is disabled before its limit, whatever
\* the number of overlapping requests (submit_feedback, record_reject).
THEOREM RatingsKept == FeedbackSpec => []FeedbackKept
<1>1. FeedbackInv => FeedbackKept
  BY DEF FeedbackInv, FeedbackKept
<1> QED BY <1>1, StartTyped, FeedbackStep, PTL DEF FeedbackSpec

-----------------------------------------------------------------------------
(* RoleShadow: the closing of the window is recorded once *)

\* One process at a time records, the first; nobody has before.
OneAuditor ==
    /\ \A p, q \in Observers : observer[p] = "auditing" /\ observer[q] = "auditing" => p = q
    /\ \A p \in Observers : observer[p] = "auditing" => audits = 0
    /\ closed_key = FALSE => audits = 0 /\ \A p \in Observers : observer[p] # "auditing"

\* Every window begins with the first one or after it, and a closing is claimed
\* only when the first window is over.
AfterFirst ==
    /\ started_at # NoDay => opened # NoDay /\ opened <= started_at
    /\ opened # NoDay => opened <= shadow_day
    /\ closed_key = TRUE => opened # NoDay /\ shadow_day - opened >= WindowDays

ShadowInv == ShadowTypeOK /\ audits <= 1 /\ OneAuditor /\ AfterFirst

\* There is no window at the start.
LEMMA ShadowStarts == ShadowInit => ShadowInv
<1> SUFFICES ASSUME ShadowInit PROVE ShadowInv
  OBVIOUS
<1>1. ShadowTypeOK
  <2>1. 0 \in 0..MaxShadowDay /\ 0 \in 0..MaxOutages
    BY RoleShadowAssumption
  <2>2. observer \in [Observers -> {"idle", "closing", "auditing"}]
    BY DEF ShadowInit
  <2>3. closed_key \in BOOLEAN /\ redis \in BOOLEAN /\ audits \in Nat
    BY DEF ShadowInit
  <2> QED BY <2>1, <2>2, <2>3 DEF ShadowInit, ShadowTypeOK
<1>2. OneAuditor /\ AfterFirst
  BY RoleShadowAssumption DEF ShadowInit, OneAuditor, AfterFirst
<1>3. audits <= 1
  BY DEF ShadowInit
<1> QED BY <1>1, <1>2, <1>3 DEF ShadowInv

\* Every step of a process, of Redis and of time keeps the invariant.
LEMMA ShadowStep == ShadowInv /\ [ShadowNext]_shadow_vars => ShadowInv'
<1> SUFFICES ASSUME ShadowInv, [ShadowNext]_shadow_vars PROVE ShadowInv'
  OBVIOUS
<1> USE RoleShadowAssumption DEF ShadowInv, ShadowTypeOK, OneAuditor, AfterFirst
<1>1. CASE OpenWindow
  BY <1>1 DEF OpenWindow
<1>2. CASE ExpireStart
  BY <1>2 DEF ExpireStart
<1>3. CASE ToggleRedis
  BY <1>3 DEF ToggleRedis
<1>4. CASE NextShadowDay
  BY <1>4 DEF NextShadowDay
<1>5. ASSUME NEW p \in Observers, SeeClosed(p) PROVE ShadowInv'
  BY <1>5 DEF SeeClosed
<1>6. ASSUME NEW p \in Observers, ClaimAudit(p) PROVE ShadowInv'
  <2>1. CASE closed_key' = closed_key /\ observer' = [observer EXCEPT ![p] = "idle"]
    BY <1>6, <2>1 DEF ClaimAudit
  <2>2. CASE closed_key = FALSE /\ closed_key' = TRUE /\ observer' = [observer EXCEPT ![p] = "auditing"]
    <3>1. started_at # NoDay /\ shadow_day - started_at >= WindowDays
      BY <1>6, <2>2 DEF ClaimAudit, WindowExpired
    <3>2. UNCHANGED <<shadow_day, started_at, redis, audits, opened, outages>>
      BY <1>6 DEF ClaimAudit
    <3> QED BY <2>2, <3>1, <3>2
  <2> QED BY <1>6, <2>1, <2>2 DEF ClaimAudit
<1>7. ASSUME NEW p \in Observers, WriteAudit(p) PROVE ShadowInv'
  BY <1>7 DEF WriteAudit
<1>8. ASSUME NEW p \in Observers, LoseAudit(p) PROVE ShadowInv'
  BY <1>8 DEF LoseAudit
<1>9. CASE UNCHANGED shadow_vars
  BY <1>9 DEF shadow_vars
<1> QED BY <1>1, <1>2, <1>3, <1>4, <1>5, <1>6, <1>7, <1>8, <1>9 DEF ShadowNext

\* The closing of the shadow window is recorded once, by whichever process and
\* after whichever outages, and not before the first window is over
\* (maybe_audit_shadow_window_closed of role_cache_shadow.py).
THEOREM ClosingRecordedOnce == ShadowSpec => []AuditedOnce
<1>1. ShadowInv => AuditedOnce
  BY DEF ShadowInv, ShadowTypeOK, OneAuditor, AfterFirst, AuditedOnce
<1> QED BY <1>1, ShadowStarts, ShadowStep, PTL DEF ShadowSpec

-----------------------------------------------------------------------------
(* Role caches: shares *)

\* If each member of T is the value at n members of S at most, S has n times as
\* many members as T at most.
LEMMA SharesAddUp ==
    ASSUME NEW S, NEW T, IsFiniteSet(S), IsFiniteSet(T), NEW f \in [S -> T], NEW n \in Nat,
           \A t \in T : Cardinality({s \in S : f[s] = t}) <= n
    PROVE  Cardinality(S) <= n * Cardinality(T)
<1> DEFINE share(t) == {s \in S : f[s] = t}
           place == [t \in T |-> CHOOSE g : g \in Bijection(share(t), 1..Cardinality(share(t)))]
           pair == [s \in S |-> <<f[s], place[f[s]][s]>>]
<1>1. ASSUME NEW t \in T
      PROVE  /\ Cardinality(share(t)) \in 0..n
             /\ place[t] \in Bijection(share(t), 1..Cardinality(share(t)))
  <2>1. IsFiniteSet(share(t))
    BY FS_Subset
  <2>2. Cardinality(share(t)) \in Nat /\ ExistsBijection(1..Cardinality(share(t)), share(t))
    BY <2>1, FS_CardinalityType
  <2>3. ExistsBijection(share(t), 1..Cardinality(share(t)))
    BY <2>2, Fun_ExistsBijSymmetric
  <2>4. \E g : g \in Bijection(share(t), 1..Cardinality(share(t)))
    BY <2>3, Fun_ExistsBij
  <2>5. place[t] = CHOOSE g : g \in Bijection(share(t), 1..Cardinality(share(t)))
    OBVIOUS
  <2>6. place[t] \in Bijection(share(t), 1..Cardinality(share(t)))
    BY <2>4, <2>5, Zenon
  <2>7. Cardinality(share(t)) <= n
    OBVIOUS
  <2> QED BY <2>2, <2>6, <2>7
<1> HIDE DEF place
<1>2. ASSUME NEW s \in S PROVE f[s] \in T /\ place[f[s]][s] \in 1..n
  <2>1. f[s] \in T /\ s \in share(f[s])
    OBVIOUS
  <2>2. place[f[s]] \in [share(f[s]) -> 1..Cardinality(share(f[s]))]
    BY <1>1, <2>1 DEF Bijection, Injection
  <2>3. place[f[s]][s] \in 1..Cardinality(share(f[s])) /\ Cardinality(share(f[s])) \in 0..n
    BY <1>1, <2>1, <2>2
  <2> HIDE DEF share
  <2> QED BY <2>1, <2>3
<1>3. ASSUME NEW s \in S, NEW r \in S, pair[s] = pair[r] PROVE s = r
  <2>1. f[s] = f[r] /\ place[f[s]][s] = place[f[r]][r] /\ f[s] \in T
    BY <1>3
  <2>2. s \in share(f[s]) /\ r \in share(f[s])
    BY <2>1
  <2>3. IsInjective(place[f[s]]) /\ DOMAIN place[f[s]] = share(f[s])
    BY <1>1, <2>1 DEF Bijection, Injection
  <2> QED BY <2>1, <2>2, <2>3 DEF IsInjective
<1>4. pair \in [S -> T \X (1..n)]
  BY <1>2
<1>5. pair \in Injection(S, T \X (1..n))
  BY <1>3, <1>4, Fun_IsInj
<1>6. IsFiniteSet(1..n) /\ Cardinality(1..n) = n
  BY FS_Interval
<1>7. /\ IsFiniteSet(T \X (1..n))
      /\ Cardinality(T \X (1..n)) = Cardinality(T) * n
  BY <1>6, FS_Product
<1>8. Cardinality(S) <= Cardinality(T \X (1..n))
  BY <1>5, <1>7, FS_Injection
<1>9. Cardinality(T) \in Nat
  BY FS_CardinalityType
<1> QED BY <1>7, <1>8, <1>9

-----------------------------------------------------------------------------
(* Role caches: the invariant *)

\* What an analysis will have deleted or written over when it commits.
Replaced(p) == {q \in DocumentEntries : q \in analysis[p].targets /\ entry[q].row = analysis[p].known[q].row}
Taken(p) == IF analysis[p].stage = "deleting" THEN Replaced(p) ELSE analysis[p].gone

\* Two transactions hold no row or key in common.
HoldsApart == \A p, r \in Analysts : p # r => Holds(p) \cap Holds(r) = {}

\* What an analysis of its kind does at its stage; the rows a history analysis
\* will insert stay away until it commits.
JobFits(p) ==
    LET x == analysis[p] IN
    /\ x.stage \in {"reading", "deleting"} => x.gone = {}
    /\ x.source = "history_frequent" =>
         /\ x.stage \notin {"deleting", "deleted"} /\ x.gone = {}
         /\ \A q \in CacheQuestions : x.known[q] = NoEntry
         /\ x.stage = "flushed" => \A q \in x.items : entry[q] = NoEntry
    /\ x.source = "document_generated" /\ x.stage # "reading" =>
         x.items # {} /\ Cardinality(x.items) <= DocumentLimit
JobsFit == \A p \in Analysts : analysis[p] # NoAnalysis => JobFits(p)

\* The questions from documents can be shared out to those who wrote them, the
\* limit at most to each; whoever analyses again takes his share away.
SharedOut(share) == \A p \in Analysts :
    LET own == {q \in DocumentEntries : share[q] = p} IN
    /\ Cardinality(own) <= DocumentLimit
    /\ Replacing(p) => own \subseteq Taken(p)
OwnedApart == \E share \in [DocumentEntries -> Analysts] : SharedOut(share)

\* One that has met no other takes all of them away.
AloneTakesAll == \A p \in Analysts : Replacing(p) /\ ~analysis[p].met =>
    /\ \A r \in Analysts \ {p} : ~Replacing(r)
    /\ DocumentEntries \subseteq Taken(p)
AloneLeavesFew == latest = "alone" => Cardinality(DocumentEntries) <= DocumentLimit

CacheInv ==
    /\ RoleCachesTypeOK /\ HoldsApart /\ JobsFit /\ OwnedApart /\ AloneTakesAll
    /\ AloneLeavesFew /\ NeverEmptied

\* What the type says of one analysis.
LEMMA JobRecord ==
    ASSUME RoleCachesTypeOK, NEW p \in Analysts
    PROVE  /\ analysis[p] # NoAnalysis => analysis[p] \in CacheJob
           /\ analysis[p] = NoAnalysis => analysis[p].stage = "none"
           /\ \A s : Analyzing(p, s) => analysis[p].stage = s
           /\ Replacing(p) => analysis[p] \in CacheJob /\ analysis[p].source = "document_generated"
  BY DEF RoleCachesTypeOK, NoAnalysis, Analyzing, Replacing

\* The start.
LEMMA CachesStart == RoleCachesInit => CacheInv
<1> SUFFICES ASSUME RoleCachesInit PROVE CacheInv
  OBVIOUS
<1>1. DocumentEntries = {}
  BY DEF RoleCachesInit, DocumentEntries, NoEntry
<1>2. RoleCachesTypeOK
  BY RoleCachesAssumption DEF RoleCachesInit, RoleCachesTypeOK
<1>3. \A p \in Analysts : analysis[p] = NoAnalysis
  BY DEF RoleCachesInit
<1>4. HoldsApart /\ JobsFit /\ AloneTakesAll
  BY <1>3 DEF HoldsApart, Holds, JobsFit, AloneTakesAll, Replacing
<1>5. OwnedApart
  <2> DEFINE share == [q \in DocumentEntries |-> CHOOSE p \in Analysts : TRUE]
  <2>1. share \in [DocumentEntries -> Analysts]
    BY <1>1
  <2>2. ASSUME NEW p \in Analysts PROVE {q \in DocumentEntries : share[q] = p} = {} /\ ~Replacing(p)
    BY <1>1, <1>3 DEF Replacing
  <2> HIDE DEF share
  <2>3. Cardinality({}) <= DocumentLimit
    BY FS_EmptySet, RoleCachesAssumption
  <2>4. SharedOut(share)
    BY <2>2, <2>3, Zenon DEF SharedOut
  <2> QED BY <2>1, <2>4 DEF OwnedApart
<1> QED BY <1>2, <1>4, <1>5 DEF CacheInv, RoleCachesInit, AloneLeavesFew, NeverEmptied

\* A step of one analysis that writes no row.
LEMMA JobGoesOn ==
    ASSUME CacheInv, NEW p \in Analysts, NEW x \in CacheJob \cup {NoAnalysis},
           analysis' = [analysis EXCEPT ![p] = x],
           entry' = entry, latest' = latest, numbered' \in 0..MaxAnalyses,
           x # NoAnalysis => JobFits(p)',
           \A r \in Analysts \ {p} : Holds(r) \cap Holds(p)' = {},
           Replacing(p)' => /\ Replacing(p) /\ Taken(p) \subseteq Taken(p)'
                            /\ x.met = analysis[p].met
    PROVE  CacheInv'
<1>1. RoleCachesTypeOK'
  BY DEF CacheInv, RoleCachesTypeOK
<1>2. analysis'[p] = x /\ \A r \in Analysts \ {p} : analysis'[r] = analysis[r]
  BY DEF CacheInv, RoleCachesTypeOK
<1>3. /\ DocumentEntries' = DocumentEntries
      /\ \A r \in Analysts \ {p} : /\ Holds(r)' = Holds(r) /\ Replacing(r)' = Replacing(r)
                                   /\ Taken(r)' = Taken(r) /\ JobFits(r)' = JobFits(r)
  BY <1>2 DEF DocumentEntries, Holds, Replacing, Taken, Replaced, JobFits
<1>4. HoldsApart'
  BY <1>3 DEF CacheInv, HoldsApart
<1>5. JobsFit'
  BY <1>2, <1>3 DEF CacheInv, JobsFit
<1>6. OwnedApart'
  <2>1. PICK share \in [DocumentEntries -> Analysts] : SharedOut(share)
    BY DEF CacheInv, OwnedApart
  <2>2. \A r \in Analysts : Replacing(r)' => Replacing(r) /\ Taken(r) \subseteq Taken(r)'
    BY <1>3
  <2>3. SharedOut(share)'
    BY <1>3, <2>1, <2>2 DEF SharedOut
  <2> QED BY <1>3, <2>1, <2>3 DEF OwnedApart
<1>7. AloneTakesAll'
  <2> SUFFICES ASSUME NEW r \in Analysts, Replacing(r)', ~analysis'[r].met
               PROVE  /\ \A s \in Analysts \ {r} : ~Replacing(s)'
                      /\ (DocumentEntries \subseteq Taken(r))'
    BY DEF AloneTakesAll
  <2>1. Replacing(r) /\ ~analysis[r].met /\ Taken(r) \subseteq Taken(r)'
    BY <1>2, <1>3
  <2>2. /\ \A s \in Analysts \ {r} : ~Replacing(s)
        /\ DocumentEntries \subseteq Taken(r)
    BY <2>1 DEF CacheInv, AloneTakesAll
  <2> QED BY <1>3, <2>1, <2>2
<1> QED BY <1>1, <1>3, <1>4, <1>5, <1>6, <1>7 DEF CacheInv, AloneLeavesFew, NeverEmptied

\* Rows and keys change hands when an analysis seeks, deletes, plans and flushes.
LEMMA SeekKeeps ==
    ASSUME CacheInv, NEW p \in Analysts, NEW items \in SUBSET CacheQuestions, SeekOld(p, items)
    PROVE  CacheInv'
<1> DEFINE others == {r \in Analysts \ {p} : Replacing(r)}
<1>1. /\ analysis[p] \in CacheJob /\ analysis[p].stage = "reading"
      /\ analysis[p].source = "document_generated" /\ analysis[p].gone = {}
  BY JobRecord DEF CacheInv, SeekOld, Analyzing, JobsFit, JobFits
<1>2. /\ analysis'[p] = [analysis[p] EXCEPT !.stage = "deleting", !.items = items,
                            !.targets = DocumentEntries, !.met = others # {}, !.known = entry]
      /\ \A r \in others : analysis'[r] = [analysis[r] EXCEPT !.met = TRUE]
      /\ \A r \in Analysts \ {p} : r \notin others => analysis'[r] = analysis[r]
  BY DEF SeekOld
<1>3. /\ analysis'[p] \in CacheJob /\ analysis'[p].stage = "deleting" /\ analysis'[p].items = items
      /\ analysis'[p].targets = DocumentEntries /\ analysis'[p].known = entry /\ analysis'[p].gone = {}
      /\ analysis'[p].met = (others # {}) /\ analysis'[p].source = "document_generated"
  <2> DEFINE met == others # {}
  <2>1. /\ DocumentEntries \in SUBSET CacheQuestions /\ met \in BOOLEAN
        /\ entry \in [CacheQuestions -> CacheEntry \cup {NoEntry}]
    BY DEF DocumentEntries, CacheInv, RoleCachesTypeOK
  <2>2. analysis'[p] = [analysis[p] EXCEPT !.stage = "deleting", !.items = items,
                          !.targets = DocumentEntries, !.met = met, !.known = entry]
    BY <1>2
  <2> HIDE DEF met
  <2>3. /\ analysis'[p] \in CacheJob /\ analysis'[p].stage = "deleting" /\ analysis'[p].items = items
        /\ analysis'[p].targets = DocumentEntries /\ analysis'[p].known = entry /\ analysis'[p].gone = {}
        /\ analysis'[p].met = met /\ analysis'[p].source = "document_generated"
    BY <1>1, <2>1, <2>2 DEF CacheJob
  <2> QED BY <2>3 DEF met
<1>4. ASSUME NEW r \in Analysts \ {p}
      PROVE  /\ analysis'[r] \in CacheJob \cup {NoAnalysis}
             /\ Holds(r)' = Holds(r) /\ Replacing(r)' = Replacing(r) /\ Taken(r)' = Taken(r)
             /\ analysis[r] # NoAnalysis /\ JobFits(r) => JobFits(r)'
             /\ analysis'[r] # NoAnalysis <=> analysis[r] # NoAnalysis
             /\ Replacing(r)' => analysis'[r].met
  <2>1. CASE r \in others
    <3>1. analysis[r] \in CacheJob /\ analysis'[r] = [analysis[r] EXCEPT !.met = TRUE]
      BY <1>2, <2>1, JobRecord DEF CacheInv
    <3>2. /\ analysis'[r] \in CacheJob /\ analysis'[r].met
          /\ analysis'[r].stage = analysis[r].stage /\ analysis'[r].source = analysis[r].source
          /\ analysis'[r].items = analysis[r].items /\ analysis'[r].targets = analysis[r].targets
          /\ analysis'[r].gone = analysis[r].gone /\ analysis'[r].known = analysis[r].known
      BY <3>1 DEF CacheJob
    <3>3. analysis[r] # NoAnalysis /\ analysis'[r] # NoAnalysis
      BY <3>1, <3>2 DEF CacheJob, NoAnalysis
    <3>4. entry' = entry
      BY DEF SeekOld
    <3>5. Holds(r)' = Holds(r) /\ Replacing(r)' = Replacing(r)
      BY <3>2, <3>3 DEF Holds, Replacing
    <3>6. Taken(r)' = Taken(r)
      BY <3>2, <3>4 DEF Taken, Replaced, DocumentEntries
    <3>7. JobFits(r) => JobFits(r)'
      BY <3>2, <3>4 DEF JobFits
    <3> QED BY <3>2, <3>3, <3>5, <3>6, <3>7
  <2>2. CASE r \notin others
    <3>1. analysis'[r] = analysis[r] /\ ~Replacing(r)
      BY <1>2, <2>2
    <3> QED BY <3>1 DEF Holds, Replacing, Taken, Replaced, JobFits, SeekOld, DocumentEntries, CacheInv, RoleCachesTypeOK
  <2> QED BY <2>1, <2>2
<1>5. analysis' \in [Analysts -> CacheJob \cup {NoAnalysis}]
  BY <1>3, <1>4 DEF SeekOld
<1>6. RoleCachesTypeOK'
  BY <1>5 DEF SeekOld, CacheInv, RoleCachesTypeOK
<1>7. analysis'[p] # NoAnalysis /\ Holds(p)' = {} /\ JobFits(p)'
  BY <1>3 DEF CacheJob, NoAnalysis, Holds, JobFits, SeekOld
<1>8. HoldsApart'
  BY <1>4, <1>7 DEF HoldsApart, CacheInv
<1>9. JobsFit'
  BY <1>4, <1>7 DEF JobsFit, CacheInv
<1>10. DocumentEntries' = DocumentEntries /\ Taken(p)' = DocumentEntries
  BY <1>3 DEF SeekOld, DocumentEntries, Taken, Replaced
<1>11. OwnedApart'
  <2>1. PICK share \in [DocumentEntries -> Analysts] : SharedOut(share)
    BY DEF CacheInv, OwnedApart
  <2>2. SharedOut(share)'
    BY <1>4, <1>10, <2>1 DEF SharedOut
  <2> QED BY <1>10, <2>1, <2>2 DEF OwnedApart
<1>12. AloneTakesAll'
  <2> SUFFICES ASSUME NEW r \in Analysts, Replacing(r)', ~analysis'[r].met
               PROVE  /\ \A s \in Analysts \ {r} : ~Replacing(s)'
                      /\ (DocumentEntries \subseteq Taken(r))'
    BY DEF AloneTakesAll
  <2>1. r = p
    BY <1>4
  <2>2. others = {}
    BY <1>3, <2>1
  <2> QED BY <1>4, <1>10, <2>1, <2>2
<1> QED BY <1>6, <1>8, <1>9, <1>10, <1>11, <1>12 DEF CacheInv, AloneLeavesFew, NeverEmptied, SeekOld

\* The other stages of an analysis that writes no row.
LEMMA StagesKeep ==
    ASSUME CacheInv, NEW p \in Analysts,
           \/ \E s \in {"document_generated", "history_frequent"} : StartAnalysis(p, s)
           \/ \E items \in SUBSET CacheQuestions : PlanHistory(p, items)
           \/ DeleteOld(p) \/ PlanRows(p) \/ FlushRows(p) \/ FailAnalysis(p)
    PROVE  CacheInv'
<1> USE DEF CacheInv
<1>1. ASSUME NEW s \in {"document_generated", "history_frequent"}, StartAnalysis(p, s) PROVE CacheInv'
  <2> DEFINE x == [stage |-> "reading", source |-> s, number |-> numbered + 1, items |-> {},
                   targets |-> {}, gone |-> {}, known |-> [q \in CacheQuestions |-> NoEntry], met |-> FALSE]
  <2>1. numbered + 1 \in 1..MaxAnalyses /\ numbered' \in 0..MaxAnalyses
    BY <1>1, RoleCachesAssumption DEF StartAnalysis, RoleCachesTypeOK
  <2>2. x \in CacheJob
    BY <2>1 DEF CacheJob
  <2>3. analysis' = [analysis EXCEPT ![p] = x] /\ analysis'[p] = x /\ entry' = entry /\ latest' = latest
    BY <1>1 DEF StartAnalysis, RoleCachesTypeOK
  <2>4. JobFits(p)' /\ Holds(p)' = {} /\ ~Replacing(p)'
    BY <2>3 DEF JobFits, Holds, Replacing
  <2> QED BY <2>1, <2>2, <2>3, <2>4, JobGoesOn
<1>2. ASSUME NEW items \in SUBSET CacheQuestions, PlanHistory(p, items) PROVE CacheInv'
  <2> DEFINE x == [analysis[p] EXCEPT !.stage = "planned", !.items = items]
  <2>1. /\ analysis[p] \in CacheJob /\ analysis[p].stage = "reading" /\ analysis[p] # NoAnalysis
        /\ analysis[p].source = "history_frequent" /\ analysis[p].gone = {} /\ JobFits(p)
    BY <1>2, JobRecord DEF PlanHistory, Analyzing, JobsFit, JobFits
  <2>2. x \in CacheJob /\ x.gone = {} /\ x.known = analysis[p].known /\ x.source = "history_frequent" /\ x.stage = "planned"
    BY <2>1 DEF CacheJob
  <2>3. /\ analysis' = [analysis EXCEPT ![p] = x] /\ analysis'[p] = x
        /\ entry' = entry /\ latest' = latest /\ numbered' = numbered
    BY <1>2 DEF PlanHistory, RoleCachesTypeOK
  <2> HIDE DEF x
  <2>4. JobFits(p)' /\ Holds(p)' = {} /\ ~Replacing(p)'
    BY <2>1, <2>2, <2>3 DEF JobFits, Holds, Replacing
  <2> QED BY <2>2, <2>3, <2>4, JobGoesOn DEF RoleCachesTypeOK
<1>3. ASSUME DeleteOld(p) PROVE CacheInv'
  <2> DEFINE gone == {q \in analysis[p].targets : entry[q] # NoEntry /\ entry[q].row = analysis[p].known[q].row}
             x == [analysis[p] EXCEPT !.stage = "deleted", !.gone = gone]
  <2>1. analysis[p] \in CacheJob /\ analysis[p].stage = "deleting" /\ analysis[p] # NoAnalysis /\ JobFits(p)
    BY <1>3, JobRecord DEF DeleteOld, Analyzing, JobsFit
  <2>2. analysis[p].source = "document_generated"
    BY <2>1 DEF CacheJob, JobFits
  <2>3. /\ x \in CacheJob /\ x.gone = gone /\ x.source = "document_generated" /\ x.stage = "deleted"
        /\ x.items = analysis[p].items /\ x.met = analysis[p].met
    BY <2>1, <2>2 DEF CacheJob
  <2>4. /\ analysis' = [analysis EXCEPT ![p] = x] /\ analysis'[p] = x
        /\ entry' = entry /\ latest' = latest /\ numbered' = numbered
    BY <1>3 DEF DeleteOld, RoleCachesTypeOK
  <2>5. Replaced(p) \subseteq gone
    BY DEF Replaced, DocumentEntries, NoEntry
  <2>6. \A r \in Analysts \ {p} : Holds(r) \cap gone = {}
    BY <1>3 DEF DeleteOld, Unlocked
  <2> HIDE DEF x, gone
  <2>7. JobFits(p)' /\ Holds(p)' \subseteq gone
    BY <2>1, <2>2, <2>3, <2>4 DEF JobFits, Holds
  <2>8. Replacing(p) /\ Taken(p) \subseteq Taken(p)'
    BY <2>1, <2>2, <2>3, <2>4, <2>5 DEF Replacing, Taken
  <2> QED BY <2>3, <2>4, <2>6, <2>7, <2>8, JobGoesOn DEF RoleCachesTypeOK
<1>4. ASSUME PlanRows(p) PROVE CacheInv'
  <2> DEFINE known == [q \in CacheQuestions |-> IF q \in analysis[p].gone THEN NoEntry ELSE entry[q]]
             x == [analysis[p] EXCEPT !.stage = "planned", !.known = known]
  <2>1. analysis[p] \in CacheJob /\ analysis[p].stage = "deleted" /\ analysis[p] # NoAnalysis /\ JobFits(p)
    BY <1>4, JobRecord DEF PlanRows, Analyzing, JobsFit
  <2>2. analysis[p].source = "document_generated"
    BY <2>1 DEF CacheJob, JobFits
  <2>3. known \in [CacheQuestions -> CacheEntry \cup {NoEntry}]
    BY DEF RoleCachesTypeOK
  <2> HIDE DEF known
  <2>4. /\ x \in CacheJob /\ x.gone = analysis[p].gone /\ x.source = "document_generated" /\ x.stage = "planned"
        /\ x.items = analysis[p].items /\ x.met = analysis[p].met
    BY <2>1, <2>2, <2>3 DEF CacheJob
  <2>5. /\ analysis' = [analysis EXCEPT ![p] = x] /\ analysis'[p] = x
        /\ entry' = entry /\ latest' = latest /\ numbered' = numbered
    BY <1>4 DEF PlanRows, RoleCachesTypeOK, known
  <2> HIDE DEF x
  <2>6. analysis'[p] # NoAnalysis /\ JobFits(p)' /\ Holds(p)' = Holds(p)
    <3>1. x # NoAnalysis
      BY <2>4 DEF NoAnalysis
    <3> QED BY <2>1, <2>2, <2>4, <2>5, <3>1 DEF JobFits, Holds
  <2>7. Replacing(p) /\ Taken(p)' = Taken(p)
    BY <2>1, <2>2, <2>4, <2>5 DEF Replacing, Taken
  <2>8. \A r \in Analysts \ {p} : Holds(r) \cap Holds(p) = {}
    BY DEF HoldsApart
  <2> QED BY <2>4, <2>5, <2>6, <2>7, <2>8, JobGoesOn DEF RoleCachesTypeOK
<1>5. ASSUME FlushRows(p) PROVE CacheInv'
  <2> DEFINE x == [analysis[p] EXCEPT !.stage = "flushed"]
  <2>1. analysis[p] \in CacheJob /\ analysis[p].stage = "planned" /\ analysis[p] # NoAnalysis /\ JobFits(p)
    BY <1>5, JobRecord DEF FlushRows, Analyzing, JobsFit
  <2>2. /\ x \in CacheJob /\ x.gone = analysis[p].gone /\ x.source = analysis[p].source /\ x.stage = "flushed"
        /\ x.items = analysis[p].items /\ x.met = analysis[p].met /\ x.known = analysis[p].known
    BY <2>1 DEF CacheJob
  <2>3. /\ analysis' = [analysis EXCEPT ![p] = x] /\ analysis'[p] = x
        /\ entry' = entry /\ latest' = latest /\ numbered' = numbered
    BY <1>5 DEF FlushRows, RoleCachesTypeOK
  <2> HIDE DEF x
  <2>4. analysis[p].items \subseteq CacheQuestions
    BY <2>1 DEF CacheJob
  <2>5. x.source = "history_frequent" => \A q \in x.items : entry[q] = NoEntry
    BY <1>5, <2>1, <2>2, <2>4 DEF FlushRows, JobFits
  <2>6. JobFits(p)'
    BY <2>1, <2>2, <2>3, <2>5 DEF JobFits
  <2>7. Holds(p)' \subseteq Holds(p) \cup analysis[p].items
    BY <2>1, <2>2, <2>3 DEF Holds
  <2>8. \A r \in Analysts \ {p} : Holds(r) \cap Holds(p)' = {}
    BY <1>5, <2>7 DEF HoldsApart, FlushRows, Unlocked
  <2>9. Replacing(p)' => Replacing(p) /\ Taken(p)' = Taken(p)
    BY <2>1, <2>2, <2>3 DEF Replacing, Taken
  <2> QED BY <2>2, <2>3, <2>6, <2>8, <2>9, JobGoesOn DEF RoleCachesTypeOK
<1>6. ASSUME FailAnalysis(p) PROVE CacheInv'
  <2>1. /\ analysis' = [analysis EXCEPT ![p] = NoAnalysis] /\ analysis'[p] = NoAnalysis
        /\ entry' = entry /\ latest' = latest /\ numbered' = numbered
    BY <1>6 DEF FailAnalysis, RoleCachesTypeOK
  <2>2. Holds(p)' = {} /\ ~Replacing(p)'
    BY <2>1 DEF Holds, Replacing
  <2> QED BY <2>1, <2>2, JobGoesOn DEF RoleCachesTypeOK
<1> QED BY <1>1, <1>2, <1>3, <1>4, <1>5, <1>6

\* The commit of an analysis of the history changes no question from documents.
LEMMA HistoryCommits ==
    ASSUME CacheInv, NEW p \in Analysts, CommitAnalysis(p), analysis[p].source = "history_frequent"
    PROVE  /\ DocumentEntries' = DocumentEntries /\ latest' = latest
           /\ \A q \in DocumentEntries : entry'[q] = entry[q]
<1>1. /\ analysis[p] \in CacheJob /\ analysis[p].gone = {}
      /\ \A q \in analysis[p].items : entry[q] = NoEntry
  BY JobRecord DEF CacheInv, CommitAnalysis, Analyzing, JobsFit, JobFits
<1>2. ASSUME NEW q \in CacheQuestions
      PROVE  IF q \in analysis[p].items THEN entry'[q].source = "history_frequent" ELSE entry'[q] = entry[q]
  BY <1>1 DEF CommitAnalysis
<1>3. DOMAIN entry' = CacheQuestions
  BY DEF CommitAnalysis
<1> QED BY <1>1, <1>2 DEF CommitAnalysis, DocumentEntries, NoEntry

\* That of one of the documents leaves its questions and what it did not delete.
LEMMA DocumentsCommit ==
    ASSUME CacheInv, NEW p \in Analysts, CommitAnalysis(p), analysis[p].source # "history_frequent"
    PROVE  /\ DocumentEntries' = analysis[p].items \cup (DocumentEntries \ analysis[p].gone)
           /\ Replacing(p) /\ Taken(p) = analysis[p].gone /\ analysis[p].items \in SUBSET CacheQuestions
           /\ analysis[p].items # {} /\ Cardinality(analysis[p].items) <= DocumentLimit
           /\ latest' = IF analysis[p].met THEN "met" ELSE "alone"
<1>1. /\ analysis[p] \in CacheJob /\ analysis[p] # NoAnalysis /\ JobFits(p)
      /\ analysis[p].stage = "flushed"
  BY JobRecord DEF CacheInv, CommitAnalysis, Analyzing, JobsFit
<1>2. analysis[p].source = "document_generated"
  BY <1>1 DEF CacheJob
<1>3. ASSUME NEW q \in CacheQuestions
      PROVE  /\ q \in analysis[p].items => entry'[q].source = "document_generated"
             /\ q \notin analysis[p].items /\ q \in analysis[p].gone => entry'[q] = NoEntry
             /\ q \notin analysis[p].items /\ q \notin analysis[p].gone => entry'[q] = entry[q]
  BY <1>2 DEF CommitAnalysis
<1>4. analysis[p].items \in SUBSET CacheQuestions
  BY <1>1 DEF CacheJob
<1>5. DocumentEntries' = analysis[p].items \cup (DocumentEntries \ analysis[p].gone)
  BY <1>3, <1>4 DEF DocumentEntries, NoEntry
<1> QED BY <1>1, <1>2, <1>4, <1>5 DEF CommitAnalysis, Replacing, Taken, JobFits

\* A commit touches the rows and keys it holds, and no others.
LEMMA CommitTouches ==
    ASSUME CacheInv, NEW p \in Analysts, CommitAnalysis(p)
    PROVE  /\ \A q \in CacheQuestions \ Holds(p) : entry'[q] = entry[q]
           /\ analysis'[p] = NoAnalysis /\ \A r \in Analysts \ {p} : analysis'[r] = analysis[r]
           /\ RoleCachesTypeOK'
<1>1. analysis[p] \in CacheJob /\ analysis[p] # NoAnalysis /\ analysis[p].stage = "flushed"
  BY JobRecord DEF CacheInv, CommitAnalysis, Analyzing
<1>2. Holds(p) = analysis[p].gone \cup analysis[p].items
  BY <1>1 DEF Holds
<1>3. /\ analysis' = [analysis EXCEPT ![p] = NoAnalysis]
      /\ \A r \in Analysts \ {p} : analysis'[r] = analysis[r]
      /\ analysis'[p] = NoAnalysis
  BY DEF CommitAnalysis, CacheInv, RoleCachesTypeOK
<1>4. ASSUME NEW q \in CacheQuestions PROVE entry'[q] \in CacheEntry \cup {NoEntry}
  <2>1. entry[q] \in CacheEntry \cup {NoEntry} /\ analysis[p].known[q] \in CacheEntry \cup {NoEntry}
    BY <1>1 DEF CacheInv, RoleCachesTypeOK, CacheJob
  <2>2. analysis[p].source \in {"document_generated", "history_frequent"} /\ analysis[p].number \in 1..MaxAnalyses
    BY <1>1 DEF CacheJob
  <2>3. CASE q \in analysis[p].items
    <3>1. entry'[q] = [source |-> analysis[p].source,
                       row |-> IF analysis[p].known[q] = NoEntry THEN analysis[p].number ELSE analysis[p].known[q].row]
      BY <2>3 DEF CommitAnalysis
    <3>2. analysis[p].known[q] # NoEntry => analysis[p].known[q].row \in 1..MaxAnalyses
      BY <2>1 DEF CacheEntry
    <3> QED BY <2>2, <3>1, <3>2 DEF CacheEntry
  <2>4. CASE q \notin analysis[p].items
    BY <2>1, <2>4 DEF CommitAnalysis
  <2> QED BY <2>3, <2>4
<1>5. RoleCachesTypeOK'
  <2>1. entry' \in [CacheQuestions -> CacheEntry \cup {NoEntry}]
    BY <1>4 DEF CommitAnalysis
  <2>2. latest' \in {"none", "alone", "met"}
    BY DEF CommitAnalysis, CacheInv, RoleCachesTypeOK
  <2>3. analysis' \in [Analysts -> CacheJob \cup {NoAnalysis}] /\ numbered' = numbered
    BY <1>3 DEF CacheInv, RoleCachesTypeOK, CommitAnalysis
  <2> QED BY <2>1, <2>2, <2>3 DEF CacheInv, RoleCachesTypeOK
<1> QED BY <1>2, <1>3, <1>5 DEF CommitAnalysis

\* The commit.
LEMMA CommitKeepsCaches ==
    ASSUME CacheInv, NEW p \in Analysts, CommitAnalysis(p)
    PROVE  CacheInv'
<1> DEFINE x == analysis[p]
<1>1. /\ x \in CacheJob /\ x.stage = "flushed" /\ x # NoAnalysis
      /\ Holds(p) = x.gone \cup x.items
      /\ analysis'[p] = NoAnalysis /\ \A r \in Analysts \ {p} : analysis'[r] = analysis[r]
  <2>1. x \in CacheJob /\ x.stage = "flushed" /\ x # NoAnalysis
    BY JobRecord DEF CacheInv, CommitAnalysis, Analyzing
  <2> QED BY <2>1, CommitTouches DEF Holds
<1>2. Holds(p)' = {} /\ ~Replacing(p)'
  BY <1>1 DEF Holds, Replacing
<1>3. ASSUME NEW r \in Analysts \ {p}
      PROVE  /\ Holds(r)' = Holds(r) /\ Replacing(r)' = Replacing(r)
             /\ analysis[r] # NoAnalysis /\ JobFits(r) => JobFits(r)'
  <2>1. Holds(r)' = Holds(r) /\ Replacing(r)' = Replacing(r)
    BY <1>1 DEF Holds, Replacing
  <2>2. ASSUME analysis[r] # NoAnalysis, analysis[r].stage = "flushed", NEW q \in analysis[r].items
        PROVE  entry'[q] = entry[q]
    <3>1. q \in Holds(r) /\ q \in CacheQuestions
      BY <2>2, JobRecord DEF Holds, CacheInv, CacheJob
    <3>2. q \notin Holds(p)
      BY <3>1 DEF CacheInv, HoldsApart
    <3> QED BY <3>1, <3>2, CommitTouches
  <2>3. analysis[r] # NoAnalysis /\ JobFits(r) => JobFits(r)'
    BY <1>1, <2>2 DEF JobFits
  <2> QED BY <2>1, <2>3
<1>4. HoldsApart'
  BY <1>2, <1>3 DEF HoldsApart, CacheInv
<1>5. JobsFit'
  BY <1>1, <1>3 DEF JobsFit, CacheInv
<1>6. PICK share \in [DocumentEntries -> Analysts] : SharedOut(share)
  BY DEF CacheInv, OwnedApart
<1>7. ASSUME NEW r \in Analysts \ {p}, NEW q \in DocumentEntries \cap DocumentEntries',
             Replacing(r), q \in Taken(r), entry'[q] = entry[q]
      PROVE  q \in Taken(r)'
  BY <1>1, <1>7 DEF Taken, Replaced
<1>8. CASE x.source = "history_frequent"
  <2>1. /\ DocumentEntries' = DocumentEntries /\ latest' = latest
        /\ \A q \in DocumentEntries : entry'[q] = entry[q]
    BY <1>8, HistoryCommits
  <2>2. ASSUME NEW r \in Analysts, Replacing(r)'
        PROVE  r # p /\ Replacing(r) /\ DocumentEntries \cap Taken(r) \subseteq Taken(r)'
    BY <1>2, <1>3, <1>7, <2>1, <2>2
  <2>3. SharedOut(share)'
    BY <1>6, <2>1, <2>2 DEF SharedOut
  <2>4. OwnedApart'
    BY <1>6, <2>1, <2>3 DEF OwnedApart
  <2>5. AloneTakesAll'
    <3> SUFFICES ASSUME NEW r \in Analysts, Replacing(r)', ~analysis'[r].met
                 PROVE  /\ \A s \in Analysts \ {r} : ~Replacing(s)'
                        /\ (DocumentEntries \subseteq Taken(r))'
      BY DEF AloneTakesAll
    <3>1. r # p /\ Replacing(r) /\ ~analysis[r].met
      BY <1>1, <2>2
    <3>2. (\A s \in Analysts \ {r} : ~Replacing(s)) /\ DocumentEntries \subseteq Taken(r)
      BY <3>1 DEF CacheInv, AloneTakesAll
    <3> QED BY <1>2, <1>3, <2>1, <2>2, <3>2
  <2> QED BY <1>4, <1>5, <2>1, <2>4, <2>5, CommitTouches DEF CacheInv, AloneLeavesFew, NeverEmptied
<1>9. CASE x.source # "history_frequent"
  <2>1. /\ DocumentEntries' = x.items \cup (DocumentEntries \ x.gone)
        /\ Replacing(p) /\ Taken(p) = x.gone /\ x.items \in SUBSET CacheQuestions
        /\ x.items # {} /\ Cardinality(x.items) <= DocumentLimit
        /\ latest' = IF x.met THEN "met" ELSE "alone"
    BY <1>9, DocumentsCommit
  <2> HIDE DEF x
  <2> DEFINE next == [q \in DocumentEntries' |-> IF q \in x.items THEN p ELSE share[q]]
  <2>2. next \in [DocumentEntries' -> Analysts]
    BY <1>6, <2>1
  <2>3. {q \in DocumentEntries' : next[q] = p} \subseteq x.items
    <3>1. {q \in DocumentEntries : share[q] = p} \subseteq x.gone
      BY <1>6, <2>1 DEF SharedOut
    <3> QED BY <2>1, <3>1
  <2>4. Cardinality({q \in DocumentEntries' : next[q] = p}) <= DocumentLimit
    <3>1. IsFiniteSet(x.items)
      BY <2>1, FS_Subset, RoleCachesAssumption
    <3>2. Cardinality({q \in DocumentEntries' : next[q] = p}) <= Cardinality(x.items)
      BY <2>3, <3>1, FS_Subset
    <3>3. Cardinality(x.items) \in Nat /\ Cardinality({q \in DocumentEntries' : next[q] = p}) \in Nat
      BY <2>3, <3>1, FS_Subset, FS_CardinalityType
    <3> QED BY <2>1, <3>2, <3>3, RoleCachesAssumption
  <2>5. ASSUME NEW r \in Analysts \ {p}
        PROVE  /\ Cardinality({q \in DocumentEntries' : next[q] = r}) <= DocumentLimit
               /\ Replacing(r)' => {q \in DocumentEntries' : next[q] = r} \subseteq Taken(r)'
    <3> DEFINE before == {q \in DocumentEntries : share[q] = r}
               after == {q \in DocumentEntries' : next[q] = r}
    <3>1. after \subseteq before \ Holds(p)
      BY <1>1, <2>1
    <3>2. Cardinality(before) <= DocumentLimit /\ (Replacing(r) => before \subseteq Taken(r))
      BY <1>6 DEF SharedOut
    <3>3. before \subseteq CacheQuestions /\ before \subseteq DocumentEntries /\ after \subseteq DocumentEntries'
      BY DEF DocumentEntries
    <3> HIDE DEF before, after, next
    <3>4. IsFiniteSet(before) /\ IsFiniteSet(after)
      BY <3>1, <3>3, FS_Subset, RoleCachesAssumption
    <3>5. Cardinality(after) <= Cardinality(before) /\ Cardinality(after) \in Nat /\ Cardinality(before) \in Nat
      BY <3>1, <3>4, FS_Subset, FS_CardinalityType
    <3>6. Cardinality(after) <= DocumentLimit
      BY <3>2, <3>5, RoleCachesAssumption
    <3>7. \A q \in after : entry'[q] = entry[q]
      BY <3>1, <3>3, CommitTouches
    <3>8. Replacing(r)' => after \subseteq Taken(r)'
      BY <1>3, <1>7, <3>1, <3>2, <3>3, <3>7
    <3> QED BY <3>6, <3>8 DEF after
  <2>6. ASSUME NEW r \in Analysts
        PROVE  /\ Cardinality({q \in DocumentEntries' : next[q] = r}) <= DocumentLimit
               /\ Replacing(r)' => {q \in DocumentEntries' : next[q] = r} \subseteq Taken(r)'
    BY <1>2, <2>4, <2>5
  <2> HIDE DEF next
  <2>7. OwnedApart'
    BY <2>2, <2>6 DEF OwnedApart, SharedOut
  <2>8. AloneTakesAll'
    <3> SUFFICES ASSUME NEW r \in Analysts, Replacing(r)', ~analysis'[r].met
                 PROVE  FALSE
      BY DEF AloneTakesAll
    <3>1. r # p /\ Replacing(r) /\ ~analysis[r].met
      BY <1>1, <1>2, <1>3
    <3> QED BY <2>1, <3>1 DEF CacheInv, AloneTakesAll
  <2>9. AloneLeavesFew'
    <3> SUFFICES ASSUME ~x.met PROVE DocumentEntries' = x.items
      BY <2>1 DEF AloneLeavesFew
    <3>1. DocumentEntries \subseteq x.gone
      BY <2>1 DEF CacheInv, AloneTakesAll, x
    <3> QED BY <2>1, <3>1
  <2>10. NeverEmptied'
    BY <2>1 DEF NeverEmptied
  <2> QED BY <1>4, <1>5, <2>7, <2>8, <2>9, <2>10, CommitTouches DEF CacheInv
<1> QED BY <1>8, <1>9

LEMMA CachesStep == CacheInv /\ [RoleCachesNext]_cache_vars => CacheInv'
<1>1. ASSUME CacheInv, RoleCachesNext PROVE CacheInv'
  <2>1. PICK p \in Analysts :
          \/ \E s \in {"document_generated", "history_frequent"} : StartAnalysis(p, s)
          \/ \E items \in SUBSET CacheQuestions : SeekOld(p, items) \/ PlanHistory(p, items)
          \/ DeleteOld(p) \/ PlanRows(p) \/ FlushRows(p) \/ CommitAnalysis(p) \/ FailAnalysis(p)
    BY <1>1 DEF RoleCachesNext
  <2> QED BY <1>1, <2>1, SeekKeeps, StagesKeep, CommitKeepsCaches
<1>2. ASSUME CacheInv, UNCHANGED cache_vars PROVE CacheInv'
  <2> USE <1>2 DEF cache_vars
  <2>1. RoleCachesTypeOK' /\ HoldsApart' /\ JobsFit'
    BY DEF CacheInv, RoleCachesTypeOK, HoldsApart, Holds, JobsFit, JobFits
  <2>2. DocumentEntries' = DocumentEntries
    BY DEF DocumentEntries
  <2>3. \A p \in Analysts : Replacing(p)' = Replacing(p) /\ Taken(p)' = Taken(p)
    BY <2>2 DEF Replacing, Taken, Replaced
  <2>4. OwnedApart' /\ AloneTakesAll'
    BY <2>2, <2>3 DEF CacheInv, OwnedApart, SharedOut, AloneTakesAll
  <2> QED BY <2>1, <2>2, <2>4 DEF CacheInv, AloneLeavesFew, NeverEmptied
<1> QED BY <1>1, <1>2

LEMMA CachesAlways == RoleCachesSpec => []CacheInv
  BY CachesStart, CachesStep, PTL DEF RoleCachesSpec

\* Every variable of the role caches keeps its type.
THEOREM CachesTyped == RoleCachesSpec => []RoleCachesTypeOK
<1>1. CacheInv => RoleCachesTypeOK
  BY DEF CacheInv
<1> QED BY <1>1, CachesAlways, PTL

\* An analysis that met no other leaves the questions it made and no older ones,
\* analyses that meet leave no more than the limit for each that can be under way
\* at a time, and none leaves a role without questions (analyze_documents), for any
\* analyses, questions and limits.
THEOREM CachesKept == RoleCachesSpec => []RoleCachesKept
<1>1. ASSUME CacheInv PROVE RoleCachesKept
  <2>1. PICK share \in [DocumentEntries -> Analysts] : SharedOut(share)
    BY <1>1 DEF CacheInv, OwnedApart
  <2>2. IsFiniteSet(DocumentEntries)
    BY FS_Subset, RoleCachesAssumption DEF DocumentEntries
  <2>3. \A p \in Analysts : Cardinality({q \in DocumentEntries : share[q] = p}) <= DocumentLimit
    BY <2>1 DEF SharedOut
  <2>4. Cardinality(DocumentEntries) <= DocumentLimit * Cardinality(Analysts)
    BY <2>2, <2>3, SharesAddUp, RoleCachesAssumption
  <2> QED BY <1>1, <2>4 DEF CacheInv, AloneLeavesFew, RoleCachesKept, LimitKept
<1> QED BY <1>1, CachesAlways, PTL

-----------------------------------------------------------------------------
(* Snapshots: the invariant *)

Cleaned == {p \in Writers : txn[p].stage = "cleaned"}
Owns(D) == {txn[p].own : p \in D}
Gone(D) == UNION {txn[p].gone : p \in D}

\* What the quota will count when these transactions have committed: never more
\* than the limit and what the other writers can add meanwhile.
Left(D) == Quota((Active \cup (Owns(D) \ {0})) \ Gone(D))
Headroom == MaxCount + Cardinality(Writers) - 1
QuotaAhead == \A D \in SUBSET Cleaned : Cardinality(Left(D)) <= Headroom

\* An uncommitted row and the transaction that made it belong together.
OwnRows ==
    /\ \A p \in Writers : txn[p] # NoTxn /\ txn[p].own # 0 =>
         /\ txn[p].own \in DOMAIN snapshots
         /\ snapshots[txn[p].own].by = p /\ snapshots[txn[p].own].status = "uncommitted"
    /\ \A i \in DOMAIN snapshots : snapshots[i].status = "uncommitted" =>
         txn[snapshots[i].by] # NoTxn /\ txn[snapshots[i].by].own = i

\* A transaction keeps one snapshot of the quota at most, and what it deletes is
\* committed, none it keeps, and old if it is a protection snapshot.
Keeps(p) ==
    LET x == txn[p] IN
    /\ \/ x.keep = {} /\ x.own = 0 /\ x.target = 0
       \/ x.keep = {x.own} /\ x.target = 0
       \/ x.keep = {x.own, x.target} /\ x.own # 0 /\ snapshots[x.own].protection
    /\ x.stage = "made" => x.gone = {}
    /\ x.keep \subseteq DOMAIN snapshots
    /\ \A i \in x.gone :
         /\ i \in DOMAIN snapshots /\ i \notin x.keep /\ snapshots[i].status # "uncommitted"
         /\ snapshots[i].protection => today - snapshots[i].day > RetentionDays
AllKeep == \A p \in Writers : txn[p] # NoTxn => Keeps(p)

YoungStay == \A i \in DOMAIN snapshots : snapshots[i].protection /\ snapshots[i].status = "deleted" =>
    today - snapshots[i].day > RetentionDays

RetentionInv == RetentionTypeOK /\ QuotaAhead /\ OwnRows /\ AllKeep /\ YoungStay

-----------------------------------------------------------------------------
(* Snapshots: what is left *)

\* Without the n that have fewer than n before them, n less remain at least.
LEMMA OldestGo ==
    ASSUME NEW S, S \subseteq Nat, IsFiniteSet(S), NEW n \in Nat, n <= Cardinality(S),
           NEW rest, rest = {i \in S : ~(Cardinality({j \in S : j < i}) < n)}
    PROVE  IsFiniteSet(rest) /\ Cardinality(rest) <= Cardinality(S) - n
<1> DEFINE before(i) == {j \in S : j < i}
<1>1. IsFiniteSet(rest) /\ Cardinality(rest) \in Nat /\ Cardinality(S) \in Nat
  BY FS_Subset, FS_CardinalityType
<1>2. CASE rest = {}
  <2>1. Cardinality(rest) = 0
    BY <1>2, FS_EmptySet
  <2> QED BY <1>1, <2>1
<1>3. CASE rest # {}
  <2>1. PICK m \in rest : \A i \in rest : m <= i
    BY <1>3, LeastThereIs
  <2>2. before(m) \cap rest = {}
    <3> SUFFICES ASSUME NEW i \in rest, i < m PROVE FALSE
      OBVIOUS
    <3>1. i \in Nat /\ m \in Nat /\ m <= i
      BY <2>1
    <3> QED BY <3>1
  <2>3. IsFiniteSet(before(m)) /\ Cardinality(before(m)) \in Nat
    BY FS_Subset, FS_CardinalityType
  <2>4. Cardinality(before(m)) >= n
    BY <2>1, <2>3
  <2> DEFINE early == before(m)
  <2>5. early \cup rest \subseteq S
    OBVIOUS
  <2> HIDE DEF early
  <2>6. Cardinality(early \cup rest) = Cardinality(early) + Cardinality(rest)
    <3>1. Cardinality(early \cup rest) = Cardinality(early) + Cardinality(rest) - Cardinality(early \cap rest)
      BY <1>1, <2>3, FS_Union DEF early
    <3>2. Cardinality(early \cap rest) = 0
      BY <2>2, FS_EmptySet DEF early
    <3> QED BY <1>1, <2>3, <3>1, <3>2 DEF early
  <2>7. Cardinality(early \cup rest) <= Cardinality(S)
    BY <2>5, FS_Subset
  <2> QED BY <1>1, <2>3, <2>4, <2>6, <2>7 DEF early
<1> QED BY <1>2, <1>3

\* What the type says of one transaction.
LEMMA TxnRecord ==
    ASSUME RetentionTypeOK, NEW p \in Writers
    PROVE  /\ txn[p] # NoTxn => txn[p] \in Txn
           /\ txn[p] = NoTxn => txn[p].stage = "none"
           /\ txn[p].stage \in {"made", "expired", "cleaned"} => txn[p] \in Txn /\ txn[p] # NoTxn
  BY DEF RetentionTypeOK, NoTxn, Txn

LEMMA RowRecord ==
    ASSUME RetentionTypeOK, NEW i \in DOMAIN snapshots
    PROVE  /\ snapshots[i] \in Snapshot /\ i \in 1..MaxSnapshots /\ i \in Nat /\ i # 0
           /\ DOMAIN snapshots = 1..Len(snapshots) /\ Len(snapshots) \in 0..MaxSnapshots
  BY RetentionAssumption DEF RetentionTypeOK

\* Rows in the place of rows.
LEMMA SameRows ==
    ASSUME RetentionTypeOK, NEW table, table = [i \in DOMAIN snapshots |-> table[i]],
           \A i \in DOMAIN snapshots : table[i] \in Snapshot
    PROVE  table \in Seq(Snapshot) /\ Len(table) = Len(snapshots)
<1>1. DOMAIN snapshots = 1..Len(snapshots) /\ Len(snapshots) \in Nat
  BY DEF RetentionTypeOK
<1>2. table \in [1..Len(snapshots) -> Snapshot]
  BY <1>1
<1> QED BY <1>1, <1>2

\* What is left is among the snapshots.
LEMMA LeftFinite ==
    ASSUME RetentionTypeOK, OwnRows, NEW D \in SUBSET Cleaned
    PROVE  Left(D) \subseteq DOMAIN snapshots /\ IsFiniteSet(Left(D))
<1>1. Owns(D) \ {0} \subseteq DOMAIN snapshots
  BY TxnRecord DEF Owns, Cleaned, OwnRows
<1>2. Left(D) \subseteq DOMAIN snapshots
  BY <1>1 DEF Left, Quota, Active
<1>3. IsFiniteSet(DOMAIN snapshots)
  BY FS_Interval DEF RetentionTypeOK
<1> QED BY <1>2, <1>3, FS_Subset

\* A step after which no set of transactions leaves more than some set did before.
LEMMA LeftShrinks ==
    ASSUME RetentionInv,
           \A D \in SUBSET Cleaned' : \E B \in SUBSET Cleaned : Left(D)' \subseteq Left(B)
    PROVE  QuotaAhead'
<1> SUFFICES ASSUME NEW D \in SUBSET Cleaned' PROVE Cardinality(Left(D)') <= Headroom
  BY DEF QuotaAhead, Headroom
<1>1. PICK B \in SUBSET Cleaned : Left(D)' \subseteq Left(B)
  OBVIOUS
<1>2. IsFiniteSet(Left(B)) /\ Cardinality(Left(B)) <= Headroom
  BY LeftFinite DEF RetentionInv, QuotaAhead
<1>3. /\ Cardinality(Left(D)') <= Cardinality(Left(B)) /\ Cardinality(Left(B)) \in Nat
      /\ Cardinality(Left(D)') \in Nat /\ Cardinality(Writers) \in Nat
  BY <1>1, <1>2, FS_Subset, FS_CardinalityType, RetentionAssumption
<1> QED BY <1>2, <1>3, RetentionAssumption DEF Headroom

\* One where the rows counted do not grow and no transaction becomes cleaned.
LEMMA LeftStays ==
    ASSUME RetentionInv, DOMAIN snapshots \subseteq DOMAIN snapshots',
           \A i \in DOMAIN snapshots : snapshots'[i].protection = snapshots[i].protection,
           Active' \subseteq Active,
           \A p \in Writers : txn'[p].stage = "cleaned" => txn'[p] = txn[p]
    PROVE  QuotaAhead'
<1>1. Cleaned' \subseteq Cleaned
  BY DEF Cleaned
<1>2. ASSUME NEW D \in SUBSET Cleaned' PROVE Left(D)' \subseteq Left(D)
  <2>1. \A p \in D : txn'[p] = txn[p]
    BY DEF Cleaned
  <2>2. Owns(D)' = Owns(D) /\ Gone(D)' = Gone(D)
    BY <2>1 DEF Owns, Gone
  <2>3. Owns(D) \ {0} \subseteq DOMAIN snapshots /\ Active \subseteq DOMAIN snapshots
    BY <1>1, TxnRecord DEF Owns, Cleaned, OwnRows, Active, RetentionInv
  <2> QED BY <2>2, <2>3 DEF Left, Quota
<1> QED BY <1>1, <1>2, LeftShrinks

-----------------------------------------------------------------------------
(* Snapshots: the steps *)

LEMMA RetentionStarts == RetentionInit => RetentionInv
<1> SUFFICES ASSUME RetentionInit PROVE RetentionInv
  OBVIOUS
<1>1. /\ snapshots = <<>> /\ Len(snapshots) = 0 /\ DOMAIN snapshots = {} /\ today = 0
      /\ \A p \in Writers : txn[p] = NoTxn
  BY DEF RetentionInit
<1>2. RetentionTypeOK
  BY <1>1, RetentionAssumption DEF RetentionInit, RetentionTypeOK
<1>3. QuotaAhead
  <2> SUFFICES ASSUME NEW D \in SUBSET Cleaned PROVE Cardinality(Left(D)) <= Headroom
    BY DEF QuotaAhead
  <2>1. D = {}
    BY <1>1 DEF Cleaned, NoTxn
  <2>2. Left(D) = {}
    BY <1>1, <2>1 DEF Left, Quota, Active, Owns
  <2> QED BY <2>2, FS_EmptySet, FS_CardinalityType, RetentionAssumption DEF Headroom
<1> QED BY <1>1, <1>2, <1>3 DEF RetentionInv, OwnRows, AllKeep, YoungStay

\* A snapshot is made.
LEMMA MadeKeeps ==
    ASSUME RetentionInv, NEW p \in Writers, NEW protection \in BOOLEAN, NEW target \in 0..MaxSnapshots,
           NEW keep,
           txn[p] = NoTxn, Len(snapshots) < MaxSnapshots, today' = today,
           snapshots' = Append(snapshots, SnapshotRow(p, protection)),
           txn' = [txn EXCEPT ![p] = [stage |-> "made", own |-> Len(snapshots) + 1, target |-> target,
                                      keep |-> keep, gone |-> {}]],
           \/ target = 0 /\ keep = {Len(snapshots) + 1}
           \/ target \in DOMAIN snapshots /\ keep = {target, Len(snapshots) + 1} /\ protection
    PROVE  RetentionInv'
<1> DEFINE n == Len(snapshots)
           x == [stage |-> "made", own |-> n + 1, target |-> target, keep |-> keep, gone |-> {}]
<1>1. /\ snapshots \in Seq(Snapshot) /\ n \in 0..MaxSnapshots /\ n + 1 \in 1..MaxSnapshots
      /\ DOMAIN snapshots = 1..n
  BY RetentionAssumption DEF RetentionInv, RetentionTypeOK
<1>2. SnapshotRow(p, protection) \in Snapshot
  BY DEF SnapshotRow, Snapshot, RetentionInv, RetentionTypeOK
<1>3. /\ snapshots' \in Seq(Snapshot) /\ Len(snapshots') = n + 1 /\ DOMAIN snapshots' = 1..(n + 1)
      /\ snapshots'[n + 1] = SnapshotRow(p, protection)
      /\ \A i \in 1..n : snapshots'[i] = snapshots[i]
  BY <1>1, <1>2
<1>4. x \in Txn
  BY <1>1 DEF Txn
<1>5. txn' = [txn EXCEPT ![p] = x] /\ txn'[p] = x /\ \A q \in Writers \ {p} : txn'[q] = txn[q]
  BY DEF RetentionInv, RetentionTypeOK
<1>6. RetentionTypeOK'
  BY <1>1, <1>3, <1>4, <1>5 DEF RetentionInv, RetentionTypeOK
<1>7. QuotaAhead'
  <2>1. Active' \subseteq Active
    BY <1>1, <1>3 DEF Active, SnapshotRow
  <2>2. \A q \in Writers : txn'[q].stage = "cleaned" => txn'[q] = txn[q]
    BY <1>5
  <2> QED BY <1>1, <1>3, <2>1, <2>2, LeftStays
<1>8. OwnRows'
  <2>1. x # NoTxn
    BY DEF NoTxn
  <2>2. ASSUME NEW q \in Writers, txn'[q] # NoTxn, txn'[q].own # 0
        PROVE  /\ txn'[q].own \in DOMAIN snapshots'
               /\ snapshots'[txn'[q].own].by = q /\ snapshots'[txn'[q].own].status = "uncommitted"
    <3>1. CASE q = p
      BY <1>1, <1>3, <1>5, <3>1 DEF SnapshotRow
    <3>2. CASE q # p
      BY <1>1, <1>3, <1>5, <2>2, <3>2 DEF RetentionInv, OwnRows
    <3> QED BY <3>1, <3>2
  <2>3. ASSUME NEW i \in DOMAIN snapshots', snapshots'[i].status = "uncommitted"
        PROVE  txn'[snapshots'[i].by] # NoTxn /\ txn'[snapshots'[i].by].own = i
    <3>1. CASE i = n + 1
      BY <1>3, <1>5, <2>1, <3>1 DEF SnapshotRow
    <3>2. CASE i # n + 1
      <4>1. i \in DOMAIN snapshots /\ snapshots'[i] = snapshots[i]
        BY <1>1, <1>3, <3>2
      <4>2. snapshots[i].by \in Writers /\ snapshots[i].by # p
        BY <2>3, <4>1, RowRecord DEF Snapshot, RetentionInv, OwnRows
      <4> QED BY <1>5, <2>3, <4>1, <4>2 DEF RetentionInv, OwnRows
    <3> QED BY <3>1, <3>2
  <2> QED BY <2>2, <2>3 DEF OwnRows
<1>9. AllKeep'
  <2>1. Keeps(p)'
    <3>1. keep \subseteq DOMAIN snapshots' /\ n + 1 # 0
      BY <1>1, <1>3
    <3>2. protection => snapshots'[n + 1].protection
      BY <1>3 DEF SnapshotRow
    <3> HIDE DEF n
    <3> QED BY <1>5, <3>1, <3>2 DEF Keeps, n
  <2>2. ASSUME NEW q \in Writers \ {p}, txn'[q] # NoTxn PROVE Keeps(q)'
    <3>1. txn'[q] = txn[q] /\ Keeps(q) /\ txn[q] \in Txn
      BY <1>5, <2>2, TxnRecord DEF RetentionInv, AllKeep
    <3>2. txn[q].own # 0 => txn[q].own \in 1..n
      BY <1>1, <2>2, <3>1 DEF RetentionInv, OwnRows
    <3> QED BY <1>1, <1>3, <3>1, <3>2 DEF Keeps
  <2> QED BY <2>1, <2>2 DEF AllKeep
<1>10. YoungStay'
  BY <1>1, <1>3 DEF YoungStay, SnapshotRow, RetentionInv
<1> QED BY <1>6, <1>7, <1>8, <1>9, <1>10 DEF RetentionInv

\* A transaction without a snapshot begins, or one goes on before its last look at the quota.
LEMMA TxnGoesOn ==
    ASSUME RetentionInv, NEW p \in Writers, NEW x \in Txn, txn' = [txn EXCEPT ![p] = x],
           snapshots' = snapshots, today' = today,
           \/ txn[p] = NoTxn /\ x.own = 0
           \/ txn[p] # NoTxn /\ x.own = txn[p].own,
           Keeps(p)'
    PROVE  RetentionTypeOK' /\ OwnRows' /\ AllKeep' /\ YoungStay'
<1>1. txn'[p] = x /\ (\A q \in Writers \ {p} : txn'[q] = txn[q]) /\ x # NoTxn
  BY DEF RetentionInv, RetentionTypeOK, Txn, NoTxn
<1>2. RetentionTypeOK'
  BY DEF RetentionInv, RetentionTypeOK
<1>3. OwnRows'
  <2>1. ASSUME NEW i \in DOMAIN snapshots, snapshots[i].status = "uncommitted"
        PROVE  txn'[snapshots[i].by] # NoTxn /\ txn'[snapshots[i].by].own = i
    <3>1. /\ snapshots[i].by \in Writers /\ txn[snapshots[i].by] # NoTxn /\ txn[snapshots[i].by].own = i
          /\ i # 0
      BY <2>1, RowRecord DEF Snapshot, RetentionInv, OwnRows
    <3> QED BY <1>1, <3>1
  <2>2. ASSUME NEW q \in Writers, txn'[q] # NoTxn, txn'[q].own # 0
        PROVE  txn[q] # NoTxn /\ txn[q].own = txn'[q].own
    BY <1>1, <2>2
  <2> QED BY <2>1, <2>2 DEF OwnRows, RetentionInv
<1>4. AllKeep'
  <2>1. ASSUME NEW q \in Writers \ {p}, txn'[q] # NoTxn PROVE Keeps(q)'
    BY <1>1, <2>1 DEF RetentionInv, AllKeep, Keeps
  <2> QED BY <2>1 DEF AllKeep
<1>5. YoungStay'
  BY DEF YoungStay, RetentionInv
<1> QED BY <1>2, <1>3, <1>4, <1>5

\* cleanup_expired and the start of a policy cleanup.
LEMMA EarlyStagesKeep ==
    ASSUME RetentionInv, NEW p \in Writers, PolicyCleanup(p) \/ CleanupExpired(p)
    PROVE  RetentionInv'
<1>1. CASE PolicyCleanup(p)
  <2> DEFINE x == [stage |-> "made", own |-> 0, target |-> 0, keep |-> {}, gone |-> {}]
  <2>1. x \in Txn
    BY RetentionAssumption DEF Txn
  <2>2. /\ txn' = [txn EXCEPT ![p] = x] /\ txn[p] = NoTxn /\ snapshots' = snapshots /\ today' = today
        /\ txn'[p] = x /\ \A q \in Writers \ {p} : txn'[q] = txn[q]
    BY <1>1 DEF PolicyCleanup, RetentionInv, RetentionTypeOK
  <2>3. Keeps(p)'
    BY <2>2 DEF Keeps
  <2>4. QuotaAhead'
    <3>1. Active' = Active /\ \A q \in Writers : txn'[q].stage = "cleaned" => txn'[q] = txn[q]
      BY <2>2 DEF Active
    <3> QED BY <2>2, <3>1, LeftStays
  <2> QED BY <2>1, <2>2, <2>3, <2>4, TxnGoesOn DEF RetentionInv
<1>2. CASE CleanupExpired(p)
  <2> DEFINE gone == {i \in Seen(p) \ txn[p].keep : today - snapshots[i].day > RetentionDays}
             x == [txn[p] EXCEPT !.stage = "expired", !.gone = gone]
  <2>1. txn[p] \in Txn /\ txn[p] # NoTxn /\ txn[p].stage = "made" /\ Keeps(p)
    BY <1>2, TxnRecord DEF CleanupExpired, RetentionInv, AllKeep
  <2>2. gone \in SUBSET (1..MaxSnapshots)
    BY RowRecord DEF RetentionInv, Seen
  <2>3. \A i \in gone : i \in DOMAIN snapshots /\ i \notin txn[p].keep /\ today - snapshots[i].day > RetentionDays
    BY DEF Seen
  <2>4. ASSUME NEW i \in gone PROVE snapshots[i].status # "uncommitted"
    <3>1. CASE snapshots[i].status = "uncommitted"
      <4>1. snapshots[i].by = p
        BY <3>1 DEF Seen
      <4>2. txn[p].own = i /\ i # 0
        BY <2>3, <3>1, <4>1, RowRecord DEF RetentionInv, OwnRows
      <4> QED BY <2>1, <2>3, <4>2 DEF Keeps
    <3> QED BY <3>1
  <2>5. /\ txn' = [txn EXCEPT ![p] = x] /\ snapshots' = snapshots /\ today' = today
        /\ txn'[p] = x /\ \A q \in Writers \ {p} : txn'[q] = txn[q]
    BY <1>2 DEF CleanupExpired, RetentionInv, RetentionTypeOK
  <2> HIDE DEF gone
  <2>6. /\ x \in Txn /\ x.stage = "expired" /\ x.own = txn[p].own /\ x.target = txn[p].target
        /\ x.keep = txn[p].keep /\ x.gone = gone
    BY <2>1, <2>2 DEF Txn
  <2> HIDE DEF x
  <2>7. Keeps(p)'
    BY <2>1, <2>3, <2>4, <2>5, <2>6 DEF Keeps
  <2>8. QuotaAhead'
    <3>1. Active' = Active /\ \A q \in Writers : txn'[q].stage = "cleaned" => txn'[q] = txn[q]
      BY <2>5, <2>6 DEF Active
    <3> QED BY <2>5, <3>1, LeftStays
  <2> QED BY <2>1, <2>5, <2>6, <2>7, <2>8, TxnGoesOn DEF RetentionInv
<1> QED BY <1>1, <1>2

\* Of what a transaction sees in the quota, cleaning up leaves the limit at most.
LEMMA ExcessLeaves ==
    ASSUME RetentionInv, NEW p \in Writers, txn[p].stage = "expired",
           NEW gone, gone = IF Cardinality(Quota(Seen(p))) > MaxCount
                            THEN Oldest(p, Cardinality(Quota(Seen(p))) - MaxCount) ELSE {}
    PROVE  /\ gone \subseteq Quota(Seen(p)) \ txn[p].keep
           /\ IsFiniteSet(Quota(Seen(p))) /\ Cardinality(Quota(Seen(p)) \ gone) <= MaxCount
<1> DEFINE all == Quota(Seen(p))
           old == all \ txn[p].keep
           count == Cardinality(all)
           n == count - MaxCount
           rest == {i \in old : ~(Cardinality({j \in old : j < i}) < n)}
<1>1. all \subseteq DOMAIN snapshots /\ all \subseteq Nat /\ IsFiniteSet(DOMAIN snapshots)
  BY FS_Interval, RowRecord DEF Quota, Seen, RetentionInv, RetentionTypeOK
<1>2. IsFiniteSet(all) /\ IsFiniteSet(old) /\ count \in Nat /\ Cardinality(old) \in Nat
  BY <1>1, FS_Subset, FS_CardinalityType
<1>3. CASE ~(count > MaxCount)
  <2>1. gone = {} /\ all \ gone = all
    BY <1>3
  <2> QED BY <1>2, <1>3, <2>1, RetentionAssumption
<1>4. CASE count > MaxCount
  <2>1. n \in Nat /\ gone = {i \in old : Cardinality({j \in old : j < i}) < n}
    BY <1>2, <1>4, RetentionAssumption DEF Oldest
  <2> DEFINE needed == all \cap txn[p].keep
  <2>2. \E i : needed \subseteq {i}
    <3>1. txn[p] \in Txn /\ txn[p] # NoTxn /\ Keeps(p)
      BY TxnRecord DEF RetentionInv, AllKeep
    <3> QED BY <3>1 DEF Keeps, Quota
  <2>3. IsFiniteSet(needed) /\ Cardinality(needed) \in 0..1
    <3>1. PICK i : needed \subseteq {i}
      BY <2>2
    <3> HIDE DEF needed
    <3>2. IsFiniteSet({i}) /\ Cardinality({i}) = 1
      BY FS_Singleton
    <3> QED BY <3>1, <3>2, FS_Subset, FS_CardinalityType
  <2>4. count = Cardinality(old) + Cardinality(needed)
    <3>1. all = old \cup needed /\ old \cap needed = {}
      OBVIOUS
    <3> HIDE DEF all, old, needed
    <3>2. Cardinality(old \cup needed) = Cardinality(old) + Cardinality(needed) - Cardinality(old \cap needed)
      BY <1>2, <2>3, FS_Union
    <3>3. Cardinality(old \cap needed) = 0
      BY <3>1, FS_EmptySet
    <3> QED BY <1>2, <2>3, <3>1, <3>2, <3>3
  <2>5. n <= Cardinality(old)
    <3> HIDE DEF all, old, needed
    <3> QED BY <1>2, <2>3, <2>4, RetentionAssumption
  <2>6. old \subseteq Nat
    BY <1>1
  <2>7. IsFiniteSet(rest) /\ Cardinality(rest) <= Cardinality(old) - n
    <3> HIDE DEF old, n
    <3> QED BY <1>2, <2>1, <2>5, <2>6, OldestGo
  <2>8. all \ gone = rest \cup needed
    BY <2>1
  <2>9. Cardinality(all \ gone) <= Cardinality(rest) + Cardinality(needed)
    <3>0. Cardinality(all \ gone) = Cardinality(rest \cup needed)
      BY <2>8
    <3> HIDE DEF rest, needed, all
    <3>1. Cardinality(rest \cup needed) = Cardinality(rest) + Cardinality(needed) - Cardinality(rest \cap needed)
      BY <2>3, <2>7, FS_Union
    <3>2. Cardinality(rest \cap needed) \in Nat /\ Cardinality(rest) \in Nat /\ Cardinality(needed) \in Nat
      BY <2>3, <2>7, FS_Intersection, FS_CardinalityType
    <3> QED BY <3>0, <3>1, <3>2
  <2>10. Cardinality(rest) \in Nat /\ Cardinality(all \ gone) \in Nat
    <3>1. IsFiniteSet(all \ gone)
      BY <1>2, FS_Subset
    <3> QED BY <2>7, <3>1, FS_CardinalityType
  <2>11. gone \subseteq old
    BY <2>1
  <2> HIDE DEF all, old, rest, needed
  <2>12. Cardinality(all \ gone) <= MaxCount
    BY <1>2, <2>3, <2>4, <2>7, <2>9, <2>10, RetentionAssumption
  <2> QED BY <1>2, <2>11, <2>12 DEF all, old
<1> QED BY <1>3, <1>4

\* cleanup_excess.
LEMMA ExcessKeeps ==
    ASSUME RetentionInv, NEW p \in Writers, CleanupExcess(p)
    PROVE  RetentionInv'
<1> DEFINE gone == IF Cardinality(Quota(Seen(p))) > MaxCount
                   THEN Oldest(p, Cardinality(Quota(Seen(p))) - MaxCount) ELSE {}
           x == [txn[p] EXCEPT !.stage = "cleaned", !.gone = txn[p].gone \cup gone]
<1>1. txn[p] \in Txn /\ txn[p] # NoTxn /\ txn[p].stage = "expired" /\ Keeps(p)
  BY TxnRecord DEF CleanupExcess, RetentionInv, AllKeep
<1>2. /\ gone \subseteq Quota(Seen(p)) \ txn[p].keep /\ IsFiniteSet(Quota(Seen(p)))
      /\ Cardinality(Quota(Seen(p)) \ gone) <= MaxCount
  BY <1>1, ExcessLeaves
<1>3. /\ txn' = [txn EXCEPT ![p] = x] /\ snapshots' = snapshots /\ today' = today
      /\ txn'[p] = x /\ \A q \in Writers \ {p} : txn'[q] = txn[q]
  BY DEF CleanupExcess, RetentionInv, RetentionTypeOK
<1> HIDE DEF gone
<1>4. gone \subseteq DOMAIN snapshots /\ gone \in SUBSET (1..MaxSnapshots)
  BY <1>2, RowRecord DEF RetentionInv, Quota, Seen
<1>5. /\ x \in Txn /\ x.stage = "cleaned" /\ x.own = txn[p].own /\ x.target = txn[p].target
      /\ x.keep = txn[p].keep /\ x.gone = txn[p].gone \cup gone
  BY <1>1, <1>4 DEF Txn
<1> HIDE DEF x
<1>6. ASSUME NEW i \in gone PROVE snapshots[i].status # "uncommitted" /\ ~snapshots[i].protection
  <2>1. CASE snapshots[i].status = "uncommitted"
    <3>1. snapshots[i].by = p
      BY <1>2, <2>1 DEF Seen, Quota
    <3>2. txn[p].own = i /\ i # 0
      BY <1>4, <2>1, <3>1, RowRecord DEF RetentionInv, OwnRows
    <3> QED BY <1>1, <1>2, <3>2 DEF Keeps
  <2> QED BY <1>2, <2>1 DEF Quota
<1>7. Keeps(p)'
  BY <1>1, <1>2, <1>3, <1>4, <1>5, <1>6 DEF Keeps
<1>8. ASSUME NEW D \in SUBSET Cleaned' PROVE Cardinality(Left(D)') <= Headroom
  <2> DEFINE B == D \ {p}
  <2>1. B \in SUBSET Cleaned /\ \A q \in B : txn'[q] = txn[q]
    BY <1>3 DEF Cleaned
  <2>2. Active' = Active
    BY <1>3 DEF Active
  <2>3. CASE p \notin D
    <3>1. B = D
      BY <2>3
    <3>2. Left(D)' = Left(D)
      BY <1>3, <2>1, <2>2, <3>1 DEF Left, Quota, Owns, Gone
    <3> QED BY <2>1, <3>1, <3>2 DEF RetentionInv, QuotaAhead
  <2>4. CASE p \in D
    <3> DEFINE seen == Quota(Seen(p)) \ gone
    <3>1. Left(D)' \subseteq seen \cup Owns(B)
      <4> SUFFICES ASSUME NEW i \in Left(D)', i \notin Owns(B) PROVE i \in seen
        OBVIOUS
      <4>1. /\ i \in Active \cup (Owns(D)' \ {0}) /\ i \notin Gone(D)' /\ ~snapshots[i].protection
        BY <1>3, <2>2 DEF Left, Quota
      <4>2. Owns(D)' \subseteq Owns(B) \cup {txn[p].own}
        BY <1>3, <1>5, <2>1 DEF Owns
      <4>3. i \notin txn[p].gone \cup gone
        BY <1>3, <1>5, <2>4, <4>1 DEF Gone
      <4>4. CASE i \in Active
        BY <4>1, <4>3, <4>4 DEF Seen, Quota, Active
      <4>5. CASE i \notin Active
        <5>1. i = txn[p].own /\ i # 0
          BY <4>1, <4>2, <4>5
        <5>2. i \in DOMAIN snapshots /\ snapshots[i].by = p /\ snapshots[i].status = "uncommitted"
          BY <1>1, <5>1 DEF RetentionInv, OwnRows
        <5> QED BY <4>1, <4>3, <5>2 DEF Seen, Quota
      <4> QED BY <4>4, <4>5
    <3>2. IsFiniteSet(B) /\ Cardinality(B) <= Cardinality(Writers) - 1 /\ Cardinality(Writers) \in Nat
          /\ Cardinality(B) \in Nat
      <4>1. IsFiniteSet(Writers \ {p}) /\ Cardinality(Writers \ {p}) = Cardinality(Writers) - 1
        BY RetentionAssumption, FS_RemoveElement
      <4>2. B \subseteq Writers \ {p}
        BY <2>1 DEF Cleaned
      <4> HIDE DEF B
      <4> QED BY <4>1, <4>2, FS_Subset, FS_CardinalityType, RetentionAssumption
    <3> HIDE DEF B
    <3>3. IsFiniteSet(Owns(B)) /\ Cardinality(Owns(B)) <= Cardinality(B)
      <4> DEFINE f == [q \in B |-> txn[q].own]
      <4>1. f \in Surjection(B, Owns(B))
        BY DEF Surjection, Owns
      <4> QED BY <3>2, <4>1, FS_Surjection
    <3>4. IsFiniteSet(seen) /\ Cardinality(seen) <= MaxCount
      BY <1>2, FS_Subset
    <3> HIDE DEF seen
    <3>5. IsFiniteSet(seen \cup Owns(B)) /\ Cardinality(seen \cup Owns(B)) <= Cardinality(seen) + Cardinality(Owns(B))
      <4>1. /\ IsFiniteSet(seen \cup Owns(B))
            /\ Cardinality(seen \cup Owns(B)) = Cardinality(seen) + Cardinality(Owns(B)) - Cardinality(seen \cap Owns(B))
        BY <3>3, <3>4, FS_Union
      <4>2. Cardinality(seen \cap Owns(B)) \in Nat /\ Cardinality(seen) \in Nat /\ Cardinality(Owns(B)) \in Nat
        BY <3>3, <3>4, FS_Intersection, FS_CardinalityType
      <4> QED BY <4>1, <4>2
    <3>6. Cardinality(Left(D)') <= Cardinality(seen \cup Owns(B))
      BY <3>1, <3>5, FS_Subset
    <3>7. /\ Cardinality(Left(D)') \in Nat /\ Cardinality(seen \cup Owns(B)) \in Nat
          /\ Cardinality(seen) \in Nat /\ Cardinality(Owns(B)) \in Nat
      BY <3>1, <3>3, <3>4, <3>5, FS_Subset, FS_CardinalityType
    <3> QED BY <3>2, <3>3, <3>4, <3>5, <3>6, <3>7, RetentionAssumption DEF Headroom
  <2> QED BY <2>3, <2>4
<1>9. QuotaAhead'
  BY <1>8 DEF QuotaAhead, Headroom
<1> QED BY <1>1, <1>3, <1>5, <1>7, <1>9, TxnGoesOn DEF RetentionInv

\* The commit of one transaction leaves what was left ahead with it.
LEMMA CommitKeepsQuota ==
    ASSUME RetentionInv, NEW p \in Writers, CommitTxn(p)
    PROVE  QuotaAhead'
<1>1. txn[p] \in Txn /\ txn[p] # NoTxn /\ txn[p].stage = "cleaned" /\ Keeps(p) /\ p \in Cleaned
  BY TxnRecord DEF CommitTxn, RetentionInv, AllKeep, Cleaned
<1>2. txn'[p] = NoTxn /\ \A q \in Writers \ {p} : txn'[q] = txn[q]
  BY DEF CommitTxn, RetentionInv, RetentionTypeOK
<1>3. /\ DOMAIN snapshots' = DOMAIN snapshots
      /\ \A i \in DOMAIN snapshots :
           /\ snapshots'[i].protection = snapshots[i].protection
           /\ snapshots'[i].status = IF i \in txn[p].gone THEN "deleted"
                                    ELSE IF i = txn[p].own THEN "active" ELSE snapshots[i].status
  BY RowRecord DEF CommitTxn, Snapshot, RetentionInv
<1>4. Active' \subseteq (Active \ txn[p].gone) \cup ({txn[p].own} \ {0})
  <2>1. \A i \in DOMAIN snapshots : i # 0
    BY RowRecord DEF RetentionInv
  <2> QED BY <1>3, <2>1 DEF Active
<1>5. ASSUME NEW D \in SUBSET Cleaned' PROVE D \cup {p} \in SUBSET Cleaned /\ Left(D)' \subseteq Left(D \cup {p})
  <2>1. p \notin D /\ D \in SUBSET Cleaned /\ \A q \in D : txn'[q] = txn[q]
    BY <1>2 DEF Cleaned, NoTxn
  <2>2. Owns(D)' = Owns(D) /\ Gone(D)' = Gone(D)
    BY <2>1 DEF Owns, Gone
  <2>3. Owns(D \cup {p}) = Owns(D) \cup {txn[p].own} /\ Gone(D \cup {p}) = Gone(D) \cup txn[p].gone
    BY DEF Owns, Gone
  <2>4. ASSUME NEW i \in Owns(D) \ {0} PROVE i \notin txn[p].gone /\ i \in DOMAIN snapshots
    <3>1. PICK q \in D : txn[q].own = i
      BY DEF Owns
    <3>2. i \in DOMAIN snapshots /\ snapshots[i].status = "uncommitted"
      BY <2>1, <3>1, TxnRecord DEF Cleaned, RetentionInv, OwnRows
    <3> QED BY <1>1, <3>2 DEF Keeps
  <2>5. txn[p].own \notin txn[p].gone
    <3>1. txn[p].own # 0 => txn[p].own \in txn[p].keep
      BY <1>1 DEF Keeps
    <3>2. 0 \notin txn[p].gone
      BY <1>1, RowRecord DEF Keeps, RetentionInv
    <3> QED BY <1>1, <3>1, <3>2 DEF Keeps
  <2>6. txn[p].own # 0 => txn[p].own \in DOMAIN snapshots
    BY <1>1 DEF RetentionInv, OwnRows
  <2>7. \A i \in Left(D)' : i \in (Active \cup ((Owns(D) \cup {txn[p].own}) \ {0})) \ (Gone(D) \cup txn[p].gone)
    BY <1>4, <2>2, <2>4, <2>5 DEF Left, Quota
  <2>8. \A i \in Left(D)' : i \in DOMAIN snapshots /\ ~snapshots[i].protection
    BY <1>3, <2>4, <2>6, <2>7 DEF Left, Quota, Active
  <2> QED BY <1>1, <2>1, <2>3, <2>7, <2>8 DEF Left, Quota
<1> QED BY <1>5, LeftShrinks

LEMMA CommitKeepsSnapshots ==
    ASSUME RetentionInv, NEW p \in Writers, CommitTxn(p)
    PROVE  RetentionInv'
<1>1. txn[p] \in Txn /\ txn[p] # NoTxn /\ txn[p].stage = "cleaned" /\ Keeps(p)
  BY TxnRecord DEF CommitTxn, RetentionInv, AllKeep
<1>2. txn'[p] = NoTxn /\ (\A q \in Writers \ {p} : txn'[q] = txn[q]) /\ today' = today
  BY DEF CommitTxn, RetentionInv, RetentionTypeOK
<1>3. /\ DOMAIN snapshots' = DOMAIN snapshots
      /\ \A i \in DOMAIN snapshots :
           /\ snapshots'[i] \in Snapshot /\ snapshots'[i].by = snapshots[i].by
           /\ snapshots'[i].day = snapshots[i].day
           /\ snapshots'[i].protection = snapshots[i].protection
           /\ snapshots'[i].status = IF i \in txn[p].gone THEN "deleted"
                                    ELSE IF i = txn[p].own THEN "active" ELSE snapshots[i].status
  BY RowRecord DEF CommitTxn, Snapshot, RetentionInv
<1>4. RetentionTypeOK'
  <2>1. snapshots' = [i \in DOMAIN snapshots |-> snapshots'[i]]
    BY DEF CommitTxn
  <2>2. snapshots' \in Seq(Snapshot) /\ Len(snapshots') = Len(snapshots)
    BY <1>3, <2>1, SameRows DEF RetentionInv
  <2> QED BY <2>2 DEF CommitTxn, RetentionInv, RetentionTypeOK
<1>5. OwnRows'
  <2>1. ASSUME NEW q \in Writers, txn'[q] # NoTxn, txn'[q].own # 0
        PROVE  /\ txn'[q].own \in DOMAIN snapshots'
               /\ snapshots'[txn'[q].own].by = q /\ snapshots'[txn'[q].own].status = "uncommitted"
    <3> DEFINE i == txn[q].own
    <3>1. /\ q # p /\ txn'[q] = txn[q] /\ i \in DOMAIN snapshots
          /\ snapshots[i].by = q /\ snapshots[i].status = "uncommitted"
      BY <1>2, <2>1 DEF RetentionInv, OwnRows
    <3>2. i \notin txn[p].gone
      BY <1>1, <3>1 DEF Keeps
    <3>3. i # txn[p].own
      BY <1>1, <2>1, <3>1 DEF RetentionInv, OwnRows
    <3> QED BY <1>3, <3>1, <3>2, <3>3
  <2>2. ASSUME NEW i \in DOMAIN snapshots', snapshots'[i].status = "uncommitted"
        PROVE  txn'[snapshots'[i].by] # NoTxn /\ txn'[snapshots'[i].by].own = i
    <3>1. /\ i \in DOMAIN snapshots /\ snapshots[i].status = "uncommitted" /\ snapshots'[i].by = snapshots[i].by
          /\ i # txn[p].own /\ snapshots[i].by \in Writers
      BY <1>3, <2>2, RowRecord DEF Snapshot, RetentionInv
    <3>2. txn[snapshots[i].by] # NoTxn /\ txn[snapshots[i].by].own = i
      BY <3>1 DEF RetentionInv, OwnRows
    <3> QED BY <1>2, <3>1, <3>2
  <2> QED BY <2>1, <2>2 DEF OwnRows
<1>6. AllKeep'
  <2> SUFFICES ASSUME NEW q \in Writers, txn'[q] # NoTxn PROVE Keeps(q)'
    BY DEF AllKeep
  <2>1. txn'[q] = txn[q] /\ Keeps(q) /\ txn[q] # NoTxn
    BY <1>2 DEF RetentionInv, AllKeep
  <2>2. \A i \in DOMAIN snapshots : snapshots[i].status # "uncommitted" => snapshots'[i].status # "uncommitted"
    BY <1>3
  <2>3. txn[q].own # 0 => txn[q].own \in DOMAIN snapshots
    BY <2>1 DEF RetentionInv, OwnRows
  <2> QED BY <1>2, <1>3, <2>1, <2>2, <2>3 DEF Keeps
<1>7. YoungStay'
  BY <1>1, <1>2, <1>3 DEF YoungStay, RetentionInv, Keeps
<1> QED BY <1>4, <1>5, <1>6, <1>7, CommitKeepsQuota DEF RetentionInv

\* The operation fails.
LEMMA UndoKeeps ==
    ASSUME RetentionInv, NEW p \in Writers, Undo(p)
    PROVE  RetentionInv'
<1>1. txn[p] \in Txn /\ txn[p] # NoTxn /\ Keeps(p)
  BY TxnRecord DEF Undo, RetentionInv, AllKeep
<1>2. txn'[p] = NoTxn /\ (\A q \in Writers \ {p} : txn'[q] = txn[q]) /\ today' = today
  BY DEF Undo, RetentionInv, RetentionTypeOK
<1>3. /\ DOMAIN snapshots' = DOMAIN snapshots
      /\ \A i \in DOMAIN snapshots :
           /\ i # 0 /\ snapshots'[i] \in Snapshot /\ snapshots'[i].by = snapshots[i].by
           /\ snapshots'[i].day = snapshots[i].day
           /\ snapshots'[i].protection = snapshots[i].protection
           /\ snapshots'[i].status = IF i = txn[p].own THEN "undone" ELSE snapshots[i].status
  BY <1>1, RowRecord DEF Undo, Snapshot, RetentionInv
<1>4. RetentionTypeOK'
  <2>1. snapshots' = [i \in DOMAIN snapshots |-> snapshots'[i]]
    <3>1. CASE txn[p].own = 0
      BY <3>1 DEF Undo, RetentionInv, RetentionTypeOK
    <3>2. CASE txn[p].own # 0
      BY <3>2 DEF Undo
    <3> QED BY <3>1, <3>2
  <2>2. snapshots' \in Seq(Snapshot) /\ Len(snapshots') = Len(snapshots)
    BY <1>3, <2>1, SameRows DEF RetentionInv
  <2> QED BY <2>2 DEF Undo, RetentionInv, RetentionTypeOK
<1>5. QuotaAhead'
  <2>1. Active' \subseteq Active
    BY <1>3 DEF Active
  <2>2. \A q \in Writers : txn'[q].stage = "cleaned" => txn'[q] = txn[q]
    BY <1>2 DEF NoTxn
  <2> QED BY <1>3, <2>1, <2>2, LeftStays
<1>6. OwnRows'
  <2>1. ASSUME NEW q \in Writers, txn'[q] # NoTxn, txn'[q].own # 0
        PROVE  /\ txn'[q].own \in DOMAIN snapshots'
               /\ snapshots'[txn'[q].own].by = q /\ snapshots'[txn'[q].own].status = "uncommitted"
    <3> DEFINE i == txn[q].own
    <3>1. /\ q # p /\ txn'[q] = txn[q] /\ i \in DOMAIN snapshots
          /\ snapshots[i].by = q /\ snapshots[i].status = "uncommitted"
      BY <1>2, <2>1 DEF RetentionInv, OwnRows
    <3>2. i # txn[p].own
      BY <1>1, <2>1, <3>1 DEF RetentionInv, OwnRows
    <3> QED BY <1>3, <3>1, <3>2
  <2>2. ASSUME NEW i \in DOMAIN snapshots', snapshots'[i].status = "uncommitted"
        PROVE  txn'[snapshots'[i].by] # NoTxn /\ txn'[snapshots'[i].by].own = i
    <3>1. /\ i \in DOMAIN snapshots /\ snapshots[i].status = "uncommitted" /\ snapshots'[i].by = snapshots[i].by
          /\ i # txn[p].own /\ snapshots[i].by \in Writers
      BY <1>3, <2>2, RowRecord DEF Snapshot, RetentionInv
    <3>2. txn[snapshots[i].by] # NoTxn /\ txn[snapshots[i].by].own = i
      BY <3>1 DEF RetentionInv, OwnRows
    <3> QED BY <1>2, <3>1, <3>2
  <2> QED BY <2>1, <2>2 DEF OwnRows
<1>7. AllKeep'
  <2> SUFFICES ASSUME NEW q \in Writers, txn'[q] # NoTxn PROVE Keeps(q)'
    BY DEF AllKeep
  <2>1. txn'[q] = txn[q] /\ Keeps(q) /\ txn[q] # NoTxn
    BY <1>2 DEF RetentionInv, AllKeep
  <2>2. \A i \in DOMAIN snapshots : snapshots[i].status # "uncommitted" => snapshots'[i].status # "uncommitted"
    BY <1>3
  <2>3. txn[q].own # 0 => txn[q].own \in DOMAIN snapshots
    BY <2>1 DEF RetentionInv, OwnRows
  <2> QED BY <1>2, <1>3, <2>1, <2>2, <2>3 DEF Keeps
<1>8. YoungStay'
  BY <1>2, <1>3 DEF YoungStay, RetentionInv
<1> QED BY <1>4, <1>5, <1>6, <1>7, <1>8 DEF RetentionInv

\* Deletion by hand, and time.
LEMMA OthersKeep ==
    ASSUME RetentionInv, NextDay \/ \E i \in DOMAIN snapshots : DeleteSnapshot(i)
    PROVE  RetentionInv'
<1>1. CASE NextDay
  <2>1. /\ snapshots' = snapshots /\ txn' = txn /\ today' \in 0..MaxDay /\ today' = today + 1 /\ today \in Nat
    BY <1>1, RetentionAssumption DEF NextDay, RetentionInv, RetentionTypeOK
  <2>2. \A i \in DOMAIN snapshots : snapshots[i].day \in Nat
    BY RowRecord, RetentionAssumption DEF Snapshot, RetentionInv
  <2>3. RetentionTypeOK' /\ OwnRows'
    BY <2>1 DEF RetentionInv, RetentionTypeOK, OwnRows
  <2>4. QuotaAhead'
    BY <2>1 DEF RetentionInv, QuotaAhead, Cleaned, Left, Quota, Active, Owns, Gone, Headroom
  <2>5. \A i \in DOMAIN snapshots : today - snapshots[i].day > RetentionDays => today' - snapshots[i].day > RetentionDays
    BY <2>1, <2>2, RetentionAssumption
  <2>6. AllKeep'
    <3> SUFFICES ASSUME NEW q \in Writers, txn[q] # NoTxn PROVE Keeps(q)'
      BY <2>1 DEF AllKeep
    <3>1. Keeps(q)
      BY DEF RetentionInv, AllKeep
    <3> QED BY <2>1, <2>5, <3>1 DEF Keeps
  <2>7. YoungStay'
    BY <2>1, <2>5 DEF RetentionInv, YoungStay
  <2> QED BY <2>3, <2>4, <2>6, <2>7 DEF RetentionInv
<1>2. ASSUME NEW k \in DOMAIN snapshots, DeleteSnapshot(k) PROVE RetentionInv'
  <2>1. /\ DOMAIN snapshots' = DOMAIN snapshots /\ today' = today /\ txn' = txn
        /\ snapshots[k].status = "active" /\ ~snapshots[k].protection
        /\ \A i \in DOMAIN snapshots :
             /\ snapshots'[i] \in Snapshot /\ snapshots'[i].by = snapshots[i].by
             /\ snapshots'[i].day = snapshots[i].day
             /\ snapshots'[i].protection = snapshots[i].protection
             /\ snapshots'[i].status = IF i = k THEN "deleted" ELSE snapshots[i].status
    BY <1>2, RowRecord DEF DeleteSnapshot, Snapshot, RetentionInv, Active
  <2>2. RetentionTypeOK'
    <3>1. snapshots' = [i \in DOMAIN snapshots |-> snapshots'[i]]
      BY <1>2 DEF DeleteSnapshot
    <3>2. snapshots' \in Seq(Snapshot) /\ Len(snapshots') = Len(snapshots)
      BY <2>1, <3>1, SameRows DEF RetentionInv
    <3> QED BY <2>1, <3>2 DEF RetentionInv, RetentionTypeOK
  <2>3. QuotaAhead'
    <3>1. Active' \subseteq Active
      BY <2>1 DEF Active
    <3> QED BY <2>1, <3>1, LeftStays
  <2>4. OwnRows'
    <3>1. ASSUME NEW q \in Writers, txn[q] # NoTxn, txn[q].own # 0
          PROVE  /\ txn[q].own \in DOMAIN snapshots
                 /\ snapshots'[txn[q].own].by = q /\ snapshots'[txn[q].own].status = "uncommitted"
      BY <2>1, <3>1 DEF RetentionInv, OwnRows
    <3>2. ASSUME NEW i \in DOMAIN snapshots, snapshots'[i].status = "uncommitted"
          PROVE  txn[snapshots'[i].by] # NoTxn /\ txn[snapshots'[i].by].own = i
      BY <2>1, <3>2 DEF RetentionInv, OwnRows
    <3> QED BY <2>1, <3>1, <3>2 DEF OwnRows
  <2>5. AllKeep'
    <3> SUFFICES ASSUME NEW q \in Writers, txn[q] # NoTxn PROVE Keeps(q)'
      BY <2>1 DEF AllKeep
    <3>1. Keeps(q) /\ (txn[q].own # 0 => txn[q].own \in DOMAIN snapshots)
      BY DEF RetentionInv, AllKeep, OwnRows
    <3>2. \A i \in DOMAIN snapshots : snapshots[i].status # "uncommitted" => snapshots'[i].status # "uncommitted"
      BY <2>1
    <3> QED BY <2>1, <3>1, <3>2 DEF Keeps
  <2>6. YoungStay'
    BY <2>1 DEF RetentionInv, YoungStay
  <2> QED BY <2>2, <2>3, <2>4, <2>5, <2>6 DEF RetentionInv
<1> QED BY <1>1, <1>2

LEMMA RetentionStep == RetentionInv /\ [RetentionNext]_retention_vars => RetentionInv'
<1>1. ASSUME RetentionInv, RetentionNext PROVE RetentionInv'
  <2>1. ASSUME NEW p \in Writers, CreateSnapshot(p) PROVE RetentionInv'
    <3> DEFINE keep == {Len(snapshots) + 1}
    <3>1. PICK protected \in BOOLEAN : protected = FALSE
      OBVIOUS
    <3>2. /\ txn[p] = NoTxn /\ Len(snapshots) < MaxSnapshots /\ today' = today
          /\ snapshots' = Append(snapshots, SnapshotRow(p, protected))
          /\ txn' = [txn EXCEPT ![p] = [stage |-> "made", own |-> Len(snapshots) + 1, target |-> 0,
                                        keep |-> keep, gone |-> {}]]
      BY <2>1, <3>1 DEF CreateSnapshot
    <3>3. 0 \in 0..MaxSnapshots
      BY RetentionAssumption
    <3>4. keep = {Len(snapshots) + 1}
      OBVIOUS
    <3> HIDE DEF keep
    <3> QED BY <1>1, <3>2, <3>3, <3>4, MadeKeeps
  <2>2. ASSUME NEW p \in Writers, NEW i \in DOMAIN snapshots, StartRollback(p, i) PROVE RetentionInv'
    <3>1. i \in 0..MaxSnapshots
      BY <1>1, RowRecord, RetentionAssumption DEF RetentionInv
    <3> DEFINE keep == {i, Len(snapshots) + 1}
    <3>2. PICK protected \in BOOLEAN : protected = TRUE
      OBVIOUS
    <3>3. /\ txn[p] = NoTxn /\ Len(snapshots) < MaxSnapshots /\ today' = today
          /\ snapshots' = Append(snapshots, SnapshotRow(p, protected))
          /\ txn' = [txn EXCEPT ![p] = [stage |-> "made", own |-> Len(snapshots) + 1, target |-> i,
                                        keep |-> keep, gone |-> {}]]
      BY <2>2, <3>2 DEF StartRollback
    <3>4. keep = {i, Len(snapshots) + 1}
      OBVIOUS
    <3> HIDE DEF keep
    <3> QED BY <1>1, <3>2, <3>1, <3>3, <3>4, MadeKeeps
  <2> QED BY <1>1, <2>1, <2>2, EarlyStagesKeep, ExcessKeeps, CommitKeepsSnapshots, UndoKeeps, OthersKeep
          DEF RetentionNext
<1>2. ASSUME RetentionInv, UNCHANGED retention_vars PROVE RetentionInv'
  <2>1. snapshots' = snapshots /\ today' = today /\ txn' = txn
    BY <1>2 DEF retention_vars
  <2>2. RetentionTypeOK' /\ OwnRows' /\ YoungStay'
    BY <1>2, <2>1 DEF RetentionInv, RetentionTypeOK, OwnRows, YoungStay
  <2>3. AllKeep'
    BY <1>2, <2>1 DEF RetentionInv, AllKeep, Keeps
  <2>4. \A D : Left(D)' = Left(D)
    BY <2>1 DEF Left, Quota, Active, Owns, Gone
  <2>5. Cleaned' = Cleaned
    BY <2>1 DEF Cleaned
  <2>6. QuotaAhead'
    BY <1>2, <2>4, <2>5 DEF RetentionInv, QuotaAhead, Headroom
  <2> QED BY <2>2, <2>3, <2>6 DEF RetentionInv
<1> QED BY <1>1, <1>2

LEMMA RetentionAlways == RetentionSpec => []RetentionInv
  BY RetentionStarts, RetentionStep, PTL DEF RetentionSpec

\* Every variable of the snapshot retention keeps its type.
THEOREM RetentionTyped == RetentionSpec => []RetentionTypeOK
<1>1. RetentionInv => RetentionTypeOK
  BY DEF RetentionInv
<1> QED BY <1>1, RetentionAlways, PTL

\* The quota is exceeded by no more than the other transactions in flight can
\* add, protection snapshots are deleted by age only, and no transaction deletes
\* what it has made or rolls back to (run_policy_cleanup), for any writers and limits.
THEOREM CleaningUpFits == RetentionSpec => []CleanupKept
<1>1. ASSUME RetentionInv PROVE CleanupKept
  <2>1. QuotaKept
    <3>1. {} \in SUBSET Cleaned /\ Left({}) = Quota(Active)
      BY DEF Left, Owns, Gone
    <3> QED BY <1>1, <3>1 DEF RetentionInv, QuotaAhead, Headroom, QuotaKept
  <2>2. ASSUME NEW p \in Writers, txn[p] # NoTxn PROVE {txn[p].own, txn[p].target} \cap txn[p].gone = {}
    <3>1. Keeps(p) /\ 0 \notin txn[p].gone
      <4>1. Keeps(p)
        BY <1>1, <2>2 DEF RetentionInv, AllKeep
      <4> QED BY <1>1, <4>1, RowRecord DEF Keeps, RetentionInv
    <3> QED BY <3>1 DEF Keeps
  <2> QED BY <1>1, <2>1, <2>2 DEF CleanupKept, NeededStays, YoungStay, RetentionInv
<1> QED BY <1>1, RetentionAlways, PTL

-----------------------------------------------------------------------------
(* The services side by side *)

\* Each service behaves as its module says, whichever of them moves.
LEMMA EachService ==
    Spec => /\ HitsSpec /\ RagasSpec /\ DeptSpec /\ ModelsSpec /\ AccountsSpec /\ ExternalSpec
            /\ RetentionSpec /\ RoleCachesSpec /\ ShadowSpec /\ VerifySpec /\ FeedbackSpec
<1> DEFINE vars == <<hit_vars, ragas_vars, dept_vars, model_vars, account_vars, external_vars,
                     retention_vars, cache_vars, shadow_vars, verify_vars, feedback_vars, part>>
<1>1. Init => /\ HitsInit /\ RagasInit /\ DeptInit /\ ModelsInit /\ AccountsInit /\ ExternalInit
              /\ RetentionInit /\ RoleCachesInit /\ ShadowInit /\ VerifyInit /\ FeedbackInit
  BY DEF Init
<1>2. [Next]_vars =>
        /\ [HitsNext]_hit_vars /\ [RagasNext]_ragas_vars /\ [DeptNext]_dept_vars /\ [ModelsNext]_model_vars
        /\ [AccountsNext]_account_vars /\ [ExternalNext]_external_vars /\ [RetentionNext]_retention_vars
        /\ [RoleCachesNext]_cache_vars /\ [ShadowNext]_shadow_vars /\ [VerifyNext]_verify_vars
        /\ [FeedbackNext]_feedback_vars
  <2> SUFFICES ASSUME [Next]_vars
               PROVE  /\ [HitsNext]_hit_vars /\ [RagasNext]_ragas_vars /\ [DeptNext]_dept_vars /\ [ModelsNext]_model_vars
                      /\ [AccountsNext]_account_vars /\ [ExternalNext]_external_vars /\ [RetentionNext]_retention_vars
                      /\ [RoleCachesNext]_cache_vars /\ [ShadowNext]_shadow_vars /\ [VerifyNext]_verify_vars
                      /\ [FeedbackNext]_feedback_vars
    OBVIOUS
  <2>1. CASE Next
    BY <2>1, Zenon DEF Next, HitsPart, RagasPart, DeptPart, ModelsPart, AccountsPart, ExternalPart, RetentionPart,
                CachesPart, ShadowPart, VerifyPart, FeedbackPart
  <2>2. CASE UNCHANGED vars
    BY <2>2, Zenon
  <2> QED BY <2>1, <2>2
<1> QED BY <1>1, <1>2, PTL DEF Spec, HitsSpec, RagasSpec, DeptSpec, ModelsSpec, AccountsSpec, ExternalSpec,
                              RetentionSpec, RoleCachesSpec, ShadowSpec, VerifySpec, FeedbackSpec

LEMMA ShadowTyped == ShadowSpec => []ShadowTypeOK
<1>1. ShadowInv => ShadowTypeOK
  BY DEF ShadowInv
<1> QED BY <1>1, ShadowStarts, ShadowStep, PTL DEF ShadowSpec

\* All the services keep their state in shape, imports their rows and test runs
\* their figures, and the end of the shadow window is recorded once, for any
\* lists, tables, callers and rows (import_to_knowledge_base, execute_test_run,
\* role_cache_shadow.py).
THEOREM ServicesStaySound == Spec => []ServicesSound
<1>1. ServicesTypeOK /\ AuditedOnce /\ ImportedRows /\ FiguresFit => ServicesSound
  BY DEF ServicesSound
<1>2. /\ HitsTypeOK /\ RagasTypeOK /\ DeptTypeOK /\ ModelsTypeOK /\ AccountsTypeOK
      /\ ExternalTypeOK /\ RetentionTypeOK /\ RoleCachesTypeOK /\ ShadowTypeOK /\ VerifyTypeOK /\ FeedbackTypeOK
      => ServicesTypeOK
  BY DEF ServicesTypeOK
<1> QED BY <1>1, <1>2, EachService, HitsTyped, EvaluationsTyped, DepartmentsTyped, ModelsTyped, AccountsTyped,
           ExternalTyped, RetentionTyped, CachesTyped, ShadowTyped, VerificationTyped, RatingsTyped,
           ClosingRecordedOnce, ImportsKeepRows, FiguresOfResults, PTL
================================================================================
