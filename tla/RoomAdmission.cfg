SPECIFICATION FairSpec
CONSTANTS
    c1 = c1
    c2 = c2
    Conn <- MCConn
    None = None
    Ports <- MCPorts
    MaxFailed = 1
    MaxRooms = 2
    MaxSilent = 1
INVARIANTS
    TypeOK
    SlotFollowsSession
    HandlesClosedOnce
    AdmittedKnowsCode
    AnnouncedIsOpen
PROPERTY StopEnds
CHECK_DEADLOCK FALSE
