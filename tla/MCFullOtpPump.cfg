SPECIFICATION FairSpec
CONSTANTS
    PadHalf = 3
    KeyLen = 1
    LowWater = 2
    MaxSeq = 2
    BookEnd = 19
    MaxSkip = 1
    MaxLen = 2
    MaxChan = 2
INVARIANTS
    PadUsedOnce
    OpenedWasSealed
    NeverRefused
    AckedBeforeUse
PROPERTIES
    BackpressureEnds
CHECK_DEADLOCK FALSE
