SPECIFICATION FairSpec
CONSTANTS
    Peer = {p1, p2}
    NoPeer = NoPeer
    Code = {c1}
    MaxRooms = 1
    MaxConnections = 2
    SendBuffer = 1
    MaxRequests = 3
    MaxFaults = 1
PROPERTY
    ClosingEnds
CHECK_DEADLOCK FALSE
