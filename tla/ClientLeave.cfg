SPECIFICATION FairSpec
CONSTANTS
    MaxReconnectAttempts = 1
    MaxFailures = 0
    MaxQueue = 1
    MaxCommands = 2
PROPERTY
    LeavingEnds
CHECK_DEADLOCK FALSE
