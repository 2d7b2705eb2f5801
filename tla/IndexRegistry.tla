---------------------------- MODULE IndexRegistry ----------------------------
(***************************************************************************)
(* What the index versions of one knowledge base promise, whoever writes   *)
(* the index_versions table: a version is opened once, is published or     *)
(* given up once, never comes back, and no commit shows two of them        *)
(* published.  KbIndex implements this specification.                      *)
(***************************************************************************)
CONSTANT Version

VARIABLE phase   \* phase[v], of "unused", "building", "published", "retired"

Phases == {"unused", "building", "published", "retired"}
Published == {v \in Version : phase[v] = "published"}

RegistryInit ==
    \E first \in {{}} \cup {{v} : v \in Version} :
        phase = [v \in Version |-> IF v \in first THEN "published" ELSE "unused"]

\* A rebuild opens a version that never had a row.
Open(v) == phase[v] = "unused" /\ phase' = [phase EXCEPT ![v] = "building"]

\* The atomic switch: one commit publishes v and retires what was published.
Publish(v) ==
    /\ phase[v] = "building"
    /\ phase' = [w \in Version |-> IF w = v THEN "published"
                                   ELSE IF phase[w] = "published" THEN "retired"
                                   ELSE phase[w]]

\* A rebuild gives its version up.
GiveUp(v) == phase[v] = "building" /\ phase' = [phase EXCEPT ![v] = "retired"]

RegistryNext == \E v \in Version : Open(v) \/ Publish(v) \/ GiveUp(v)

RegistrySpec == RegistryInit /\ [][RegistryNext]_phase

RegistryTypeOK == phase \in [Version -> Phases]

\* At every commit at most one version is published.
OnePublished == \A v, w \in Published : v = w

\* A retired version stays retired, and only a building one is published.
NoComeback ==
    \A v \in Version : /\ phase[v] = "retired" => phase'[v] = "retired"
                      /\ phase'[v] = "published" => phase[v] \in {"building", "published"}
=============================================================================
