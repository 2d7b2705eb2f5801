\* Three processes that generate the FAQs of one base, with a lapse of the lock.
CONSTANTS
    p1 = p1
    p2 = p2
    p3 = p3
    d1 = d1
    Processes = {p1, p2, p3}
    Docs = {d1}
    NoDoc = NoDoc
    MaxPending = 1
    MaxLapses = 1
SPECIFICATION Spec
INVARIANTS QueuedHasWorker OneGeneration StatusHonest
PROPERTIES JobsEnd
