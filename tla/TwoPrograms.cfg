SPECIFICATION Spec
CONSTANTS
    Instance = {here, there}
    Unit <- MCUnit
    Mark = "mark"
    Lone = "lone"
    Text <- MCText
    Found <- MCFound
    NoText = NoText
    MaxSaves = 2
INVARIANT
    CurrentIsOneText
CHECK_DEADLOCK FALSE
