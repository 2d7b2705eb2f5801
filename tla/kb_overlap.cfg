\* Rebuilds racing each other and the document requests, with every fault.
CONSTANTS
    Docs = {d1}
    Rules = {r1}
    NoRules = NoRules
    Jobs = {j1, j2}
    MaxVersion = 3
    StartVersion = 1
    Operations = {"upload", "disable", "snapshot", "rollback_all", "revectorize"}
    Faults = {"embed", "db"}
    MaxSnapshots = 1
    MaxCrashes = 1
SPECIFICATION Spec
SYMMETRY Symmetry
INVARIANTS IndexInv
PROPERTIES RegistryRefined 
