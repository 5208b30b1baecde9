SPECIFICATION FairSpec
CONSTANTS
    MaxReconnectAttempts = 1
    MaxFailures = 1
    MaxQueue = 1
    MaxCommands = 2
PROPERTY
    LossIsNoticed
CHECK_DEADLOCK FALSE
