SPECIFICATION FairSpec
CONSTANTS
    a = a
    b = b
    Char <- MCChar
    OpeningTexts <- MCOpeningTexts
    MaxDocumentChars = 2
    MaxInsertChars = 2
    SyncChunkChars = 1
    MaxEdits = 2
    MaxFailures = 2
    TurnTaking = TRUE
INVARIANTS
    HostShowsServerDocument
    GuestShowsServerDocument
PROPERTY
    WindowsConverge
CHECK_DEADLOCK FALSE
