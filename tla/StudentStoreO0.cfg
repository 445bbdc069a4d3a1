CONSTANTS
    Rolls = {1, 2}
    Names = {1}
    MinRoll = 3
    Build = "O0"
    MaxFds = 4
    Leftovers = {1}
    MaxSlots = 2
    MaxCrashes = 0
SPECIFICATION Spec
PROPERTIES
    CompactionKeepsTable
