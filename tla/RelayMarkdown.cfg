SPECIFICATION Spec
CONSTANTS
    a = a
    b = b
    Char <- MCChar
    HostTexts <- MCHostTexts
    GuestTexts <- MCGuestTexts
    TypedTexts <- MCPastedTexts
    Written <- MCWritten
    MaxDocumentChars = 2
    RelayChunkSize = 1
    MaxRelayText = 1
    MaxEdits = 1
    MaxLosses = 0
INVARIANT
    GuestSeesDocument
CHECK_DEADLOCK FALSE
