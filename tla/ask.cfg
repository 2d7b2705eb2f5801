SPECIFICATION Spec
CONSTANTS
    a1 = a1
    a2 = a2
    d1 = d1
    d2 = d2
    k1 = k1
    k2 = k2
    Conversations = {a1, a2}
    Docs = {d1, d2}
    Bases = {k1, k2}
    Levels = {0, 1}
    FirstLevels = {0}
    Kb <- KbOf
    Chunks <- ChunksOf
    Slots = 1
    TopK = 1
    Cap = 2
    MaxAsks = 2
    MaxEvents = 1
INVARIANTS  GateExact OutcomeHonest
CHECK_DEADLOCK FALSE
SYMMETRY ConversationsSym
