SPECIFICATION StreamSpec
CONSTANTS
    Message <- MCMessage
    MaxPayloadBytes = 46
    ReceiveBytes = 6
    MaxNumber = 12
    MaxSends = 2
    MaxCuts = 1
INVARIANTS
    DeliveredInOrder
    GivesUpOnlyOverLongFrames
    NothingLeftBehind
CHECK_DEADLOCK FALSE
