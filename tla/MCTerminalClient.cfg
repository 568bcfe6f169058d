SPECIFICATION PairFairSpec
CONSTANTS
    PingInterval = 1
    PingDeadline = 2
    DetachGrace = 1
    AttachTimeout = 1
    ExitBudget = 7
    LeaseTimeout = 4
    ExitGraceTime = 8
    MaxStall = 1
    MaxHold = 1
    Capacity = 2
    MaxReads = 1
    MaxChunks = 1
INVARIANTS
    LeaseKept
    ExitNotLost
PROPERTY
    SessionEnds
CHECK_DEADLOCK FALSE
