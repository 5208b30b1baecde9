SPECIFICATION Spec
CONSTANTS
    a = a
    b = b
    Char <- OneChar
    OpeningTexts <- OneCharTexts
    MaxDocumentChars = 2
    MaxInsertChars = 2
    SyncChunkChars = 1
    MaxEdits = 2
    MaxFailures = 0
    TurnTaking = FALSE
INVARIANT
    HostShowsServerDocument
CHECK_DEADLOCK FALSE
