SPECIFICATION Spec
CONSTANTS
    Peer = {p1, p2, p3}
    NoPeer = NoPeer
    Code = {c1}
    MaxRooms = 1
    MaxConnections = 3
    SendBuffer = 1
    MaxRequests = 4
    MaxFaults = 0
INVARIANTS
    TypeOK
    PeersKnowTheirRoom
    ConnectionsCounted
    LiveRoomReachable
    NothingOwedIsLost
SYMMETRY Symmetry
CHECK_DEADLOCK FALSE
