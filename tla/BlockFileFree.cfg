CONSTANTS
    N = 4
    Reach = 4
    Leftovers = {1}
    MaxFds = 2
    MaxGets = 3
SPECIFICATION Spec
PROPERTIES
    FreeAddsBlock
