SPECIFICATION Spec
CONSTANTS
    Managers = {A, B}
    Objects = {n1}
    Regions = {r1, r2}
    NULL = NULL
    MaxEdits = 3
    MaxCrashes = 1
SYMMETRY Symmetry
INVARIANTS TypeOK NothingLost OneWritePerEdit NoLostWork
CHECK_DEADLOCK FALSE
