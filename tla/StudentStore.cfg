CONSTANTS
    Rolls = {1, 2, 3}
    Names = {1}
    MinRoll = 3
    Build = "Os"
    MaxFds = 3
    Leftovers <- MCLeftovers
    MaxSlots = 3
    MaxCrashes = 2
SPECIFICATION Spec
INVARIANTS
    TypeOK
    CountsAgree
    RecordsDisjoint
    HeaderCoversLive
    HangNeedsCrash
PROPERTIES
    RecordsSurvive
    CompactionPacks
    OptionsReturn
    ImplementsTable
CHECK_DEADLOCK FALSE
