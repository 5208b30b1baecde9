SPECIFICATION ReplaySpec
CONSTANTS
    Char = {a, b}
    MaxDocumentChars = 3
    MaxPending = 3
INVARIANTS
    NoOperationRefused
    ReplicaCatchesUp
PROPERTY
    SelectionKeepsItsPlace
