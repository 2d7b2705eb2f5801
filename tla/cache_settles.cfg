\* One question asked through two processes while its document changes.
CONSTANTS
    q1 = q1
    q2 = q2
    w1 = w1
    p1 = p1
    p2 = p2
    Asks <- OneAsk
    Home = 1
    WholeIds = 3
    MaxLevel = 1
    StartLevels = {0}
    MaxRevision = 2
    MaxChanges = 1
    Requests = {q1, q2}
    Writers = {w1}
    Processes = {p1, p2}
    Process <- TwoProcesses
    RedisFails = TRUE
    NoAnswer = NoAnswer
SPECIFICATION CacheSpec
PROPERTIES StaleDies RequestsEnd
