\* Two kinds of users ask in one process while the document changes.
CONSTANTS
    q1 = q1
    q2 = q2
    w1 = w1
    p1 = p1
    p2 = p2
    Asks <- FewBases
    Home = 1
    WholeIds = 3
    MaxLevel = 1
    StartLevels = {0, 1}
    MaxRevision = 2
    MaxChanges = 1
    Requests = {q1, q2}
    Writers = {w1}
    Processes = {p1}
    Process <- OneProcess
    RedisFails = TRUE
    NoAnswer = NoAnswer
SPECIFICATION CacheSpec
INVARIANTS SharedWithinAsk QuietFresh
SYMMETRY Symmetry
