SPECIFICATION Spec
CONSTANTS
    Instance = {here}
    Here = here
    Unit <- MCUnit
    Mark = "mark"
    Lone = "lone"
    Text <- MCText
    Found <- MCFound
    NoText = NoText
    MaxTabs = 3
    MaxStarts = 3
INVARIANTS
    TypeOK
    CleanIsOnDisk
PROPERTY
    StorageIsDurable
CHECK_DEADLOCK FALSE
