\* One request at a time, with its background work, over every operation that
\* keeps its promise alone.
CONSTANTS
    Docs = {d1, d2}
    Rules = {r1, r2}
    NoRules = NoRules
    Jobs = {j1}
    MaxVersion = 3
    StartVersion = 1
    Operations = {"upload", "delete", "snapshot", "rollback_all", "rollback_some", "revectorize"}
    Faults = {"parse"}
    MaxSnapshots = 1
    MaxCrashes = 0
SPECIFICATION FairSpec
INVARIANTS VectorsSound
PROPERTIES BaseReturns
