SPECIFICATION Spec
CONSTANTS
    MaxReconnectAttempts = 2
    MaxFailures = 3
    MaxQueue = 2
    MaxCommands = 3
INVARIANTS
    NoWorkerAcrossConnections
    NoFrameAcrossConnections
    ConnectedIsWatched
    WindowNeverWaitsForReconnect
    OfflineIsQuiet
CHECK_DEADLOCK FALSE
