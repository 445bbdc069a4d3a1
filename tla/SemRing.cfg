CONSTANTS
    SemLimit = 3
    P1First = TRUE
    MaxKills = 5
    MaxRestarts = 4
SPECIFICATION Spec
INVARIANTS
    TypeOK
PROPERTIES
    TakesTurns
    RunsToLimit
CHECK_DEADLOCK FALSE
