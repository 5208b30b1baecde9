SPECIFICATION Spec
CONSTANTS
    a = a
    b = b
    Char <- MCChar
    OpeningTexts <- MCOpeningTexts
    TypedTexts <- MCTypedTexts
    Written <- MCWritten
    MaxDocumentChars = 2
    MaxInsertChars = 1
    SyncChunkChars = 1
    MaxEdits = 2
    MaxRooms = 2
    MaxFailures = 1
INVARIANTS
    DiskFollowsKnown
    PoliteAgree
CHECK_DEADLOCK FALSE
