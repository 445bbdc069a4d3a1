CONSTANTS
    Rounds = 4
    MaxKills = 1
SPECIFICATION Spec
INVARIANTS
    TypeOK
    Handover
    CleanedUp
PROPERTIES
    InterruptEnds
    HandsOver
CHECK_DEADLOCK FALSE
