CONSTANTS
    Rolls = {1, 2}
    Names = {1}
    MinRoll = 1
    Build = "Os"
    MaxFds = 3
    Leftovers = {1}
    MaxSlots = 2
    MaxCrashes = 0
SPECIFICATION Spec
PROPERTIES
    SortsAll
CHECK_DEADLOCK FALSE
