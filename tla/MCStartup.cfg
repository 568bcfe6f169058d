SPECIFICATION StartupSpec
CONSTANTS
    p1 = p1
    p2 = p2
    p3 = p3
    Proc = {p1, p2}
    NoProc = NoProc
    BookIds = {1, 2}
    MyBook = 1
    SegmentCount = 4
    SegHash <- MCHash
    Torn = Torn
    Overlap = FALSE
    MaxRange = 2
    MaxGeneration = 3
INVARIANTS
    NoReuse
    ReleasedIsDurable
    ReadIsBurnt
    OwnStateOpens
    IInv
    RecoveryAdoptsNewest
PROPERTIES
    LedgerSpec
    AnchorsAdvance
