CONSTANTS
    MaxN = 4
    Values = {1, 2, 3}
    Statuses = 3
    MaxKills = 1
SPECIFICATION Spec
INVARIANTS
    TypeOK
    Sorted
    Printed
CHECK_DEADLOCK FALSE
