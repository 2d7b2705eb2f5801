SPECIFICATION Spec
CONSTANTS
    s1 = s1
    s2 = s2
    a1 = a1
    a2 = a2
    Ids = {s1, s2}
    Asks = {a1, a2}
    Sweeper = Sweeper
    None = None
    MaxTurns = 2
    Window = 1
    LastTurn = 4
    MaxEvents = 2
INVARIANTS  SessionsSound
PROPERTY DropsOldest
CHECK_DEADLOCK FALSE
SYMMETRY IdsSym
