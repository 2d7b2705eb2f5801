\* Document requests and pipelines of two jobs, in a base that is published.
CONSTANTS
    Docs = {d1}
    Rules = {r1, r2}
    NoRules = NoRules
    Jobs = {j1, j2}
    MaxVersion = 1
    StartVersion = 1
    Operations = {"upload", "retry", "resegment", "rules", "normalize", "delete"}
    Faults = {"parse", "embed"}
    MaxSnapshots = 0
    MaxCrashes = 0
SPECIFICATION FairSpec
INVARIANTS ReadySearchable
PROPERTIES RetrySettles
\* The only document may be deleted: nothing is left to do.
CHECK_DEADLOCK FALSE
