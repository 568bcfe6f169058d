SPECIFICATION FairSpec
CONSTANTS
    c1 = c1
    c2 = c2
    Conn = {c1, c2}
    NoConn = NoConn
    SpawnThread = SpawnThread
    MaxHandle = 1
    MaxSlices = 2
    MaxOut = 2
INVARIANTS
    OneHolder
    NoOrphanShell
PROPERTIES
    WritesFenced
    ShellOutlivesConnections
    FencedEnds
    ExitEndsConnections
CHECK_DEADLOCK FALSE
