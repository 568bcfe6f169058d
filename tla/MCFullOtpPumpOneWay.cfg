SPECIFICATION OneWaySpec
CONSTANTS
    PadHalf = 2
    KeyLen = 1
    LowWater = 2
    MaxSeq = 5
    BookEnd = 25
    MaxSkip = 0
    MaxLen = 1
    MaxChan = 1
PROPERTIES
    BackpressureEnds
CHECK_DEADLOCK FALSE
