CONSTANTS
    k1 = k1
    k2 = k2
    k3 = k3
    Server = Server
    Clients = {k1, k2, k3}
    BookId <- Books
    Pad <- Pads
    SegmentCount = 2
    MaxConn = 2
    MaxFaults = 1
    MaxRestarts = 1
SPECIFICATION FairSpec
INVARIANTS SegmentUsedOnce KeysAgree NoFalseAccusation
PROPERTY HandshakesEnd
CHECK_DEADLOCK FALSE
