CONSTANTS
    N = 6
    Reach = 8
    Leftovers <- MCLeftovers
    MaxFds = 3
    MaxGets = 3
SPECIFICATION Spec
INVARIANTS
    TypeOK
    NoDoubleAllocation
    ListIsFree

    
