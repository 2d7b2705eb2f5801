\* A rollback rebuild in which a document fails.
CONSTANTS
    Docs = {d1}
    Rules = {r1}
    NoRules = NoRules
    Jobs = {j1}
    MaxVersion = 2
    StartVersion = 1
    Operations = {"upload", "snapshot", "rollback_all"}
    Faults = {"parse"}
    MaxSnapshots = 1
    MaxCrashes = 0
SPECIFICATION Spec
PROPERTIES RollbackPublishesAll
CHECK_DEADLOCK FALSE
