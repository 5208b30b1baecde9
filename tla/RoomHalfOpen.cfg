SPECIFICATION Spec
CONSTANTS
    c1 = c1
    c2 = c2
    Conn <- MCConn
    None = None
    Ports <- MCPorts
    MaxFailed = 1
    MaxRooms = 1
    MaxSilent = 15
INVARIANT SilentPeerIsDropped
CHECK_DEADLOCK FALSE
