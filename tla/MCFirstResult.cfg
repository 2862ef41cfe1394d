SPECIFICATION Spec
CONSTANTS
    Net = {1, 2, 3}
    Level <- MCLevel
    MaxBss = 3
    Addr = {a1, a2}
    NULL = NULL
    MaxScans = 2
    MaxInds = 2
PROPERTY FoundIsListed
CHECK_DEADLOCK FALSE
