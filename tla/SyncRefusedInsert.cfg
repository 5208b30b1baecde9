SPECIFICATION Spec
CONSTANTS
    a = a
    b = b
    Char <- OneChar
    OpeningTexts <- EmptyText
    MaxDocumentChars = 2
    MaxInsertChars = 1
    SyncChunkChars = 1
    MaxEdits = 2
    MaxFailures = 0
    TurnTaking = TRUE
INVARIANT
    HostShowsServerDocument
CHECK_DEADLOCK FALSE
