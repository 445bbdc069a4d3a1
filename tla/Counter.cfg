CONSTANTS
    Loops = 3
    MaxThreads = 3
    MaxSlots = 2
SPECIFICATION Spec
INVARIANTS
    TypeOK
    NothingLost
    PrintedRight
PROPERTIES
    Ends
CHECK_DEADLOCK FALSE
