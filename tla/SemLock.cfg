CONSTANTS
    Launches = {1, 2, 3}
    Alone = TRUE
    SemLimit = 3
    MaxKills = 4
SPECIFICATION Spec
INVARIANTS
    TypeOK
    MutualExclusion
    LockNotLost
PROPERTIES
    EveryWaitEnds
CHECK_DEADLOCK FALSE
