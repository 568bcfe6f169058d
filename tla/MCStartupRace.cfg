SPECIFICATION QuietSpec
CONSTANTS
    p1 = p1
    p2 = p2
    p3 = p3
    Proc = {p1, p2, p3}
    NoProc = NoProc
    BookIds = {1}
    MyBook = 1
    SegmentCount = 2
    SegHash <- MCHash
    Torn = Torn
    Overlap = TRUE
    MaxRange = 1
    MaxGeneration = 3
INVARIANTS
    NoReuse
SYMMETRY Symmetry
CHECK_DEADLOCK FALSE
