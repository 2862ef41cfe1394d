SPECIFICATION Spec
CONSTANTS
    Net = {1, 2, 3}
    Level <- MCLevel
    MaxBss = 2
    Addr = {a1, a2}
    NULL = NULL
    MaxScans = 2
    MaxInds = 3
SYMMETRY Symmetry
INVARIANTS STypeOK FreedOnce ResultsOfThisScan UploadIsSorted
CHECK_DEADLOCK FALSE
