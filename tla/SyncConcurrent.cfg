SPECIFICATION Spec
CONSTANTS
    a = a
    b = b
    Char <- MCChar
    OpeningTexts <- MCOpeningTexts
    MaxDocumentChars = 2
    MaxInsertChars = 2
    SyncChunkChars = 1
    MaxEdits = 2
    MaxFailures = 1
    TurnTaking = FALSE
INVARIANTS
    TypeOK
    LogExplainsDocument
    AppliesMatchLog
    GuestEditsReachHostQueue
    WindowsNeverAhead
PROPERTIES
    FullSyncInstallsServerText
CHECK_DEADLOCK FALSE
