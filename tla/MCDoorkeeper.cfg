SPECIFICATION FairSpec
CONSTANTS
    c1 = c1
    c2 = c2
    Conn = {c1, c2}
    MaxConns = 1
    WarnMode = TRUE
    MaxChunks = 1
INVARIANTS
    LimitHeld
    NormalIsComplete
    BlameIsRight
PROPERTIES
    SlotReturns
