SPECIFICATION Spec
CONSTANTS
    a = a
    b = b
    Char <- MCChar
    HostTexts <- MCHostTexts
    GuestTexts <- MCGuestTexts
    TypedTexts <- MCTypedTexts
    Written <- MCWritten
    MaxDocumentChars = 2
    RelayChunkSize = 1
    MaxRelayText = 1
    MaxEdits = 3
    MaxLosses = 1
INVARIANTS
    StreamTellsHistory
    ReaderFollows
    PoliteAgree
CHECK_DEADLOCK FALSE
