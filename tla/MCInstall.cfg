CONSTANTS
    Gens = {1, 2}
    GenSegments = 3
    ChunkSegments = 2
    Supplied <- MCSupplied
    Runs = {1, 2}
    Orders <- MCOrders
    Servers = {1}
    SegmentCount = 3
    ServeDuringInit = FALSE
SPECIFICATION InstallSpec
INVARIANTS SuccessIsPair ServedBookIsTheOne GeneratedIsDurable InspectIsRight
PROPERTY NeverOverwrites
CHECK_DEADLOCK FALSE
