CONSTANTS
    MaxFiles = 2
    MaxBytes = 6
    Chunk = 2
    PipeSize = 3
    MaxKills = 2
SPECIFICATION Spec
INVARIANTS
    TypeOK
    Conserved
    Complete
PROPERTIES
    BothEnd
CHECK_DEADLOCK FALSE
