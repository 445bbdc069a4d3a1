CONSTANTS
    Inputs = {0, 2, 7, 4}
    Size = 4
    Half = 32
    Behind = 1
    Outside <- MCOutside
    MaxKills = 2
SPECIFICATION ShmSpec
INVARIANTS
    ShmTypeOK
    Printed
    InSegment
    NameGone
CHECK_DEADLOCK FALSE
