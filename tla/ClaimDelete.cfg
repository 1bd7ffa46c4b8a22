SPECIFICATION Spec
CONSTANTS
    Slots = {s1, s2}
    Ids = {i1, i2}
    Names = {n1, n2}
    Regions = {r1, r2}
    BadId = BadId
    NULL = NULL
    MaxTime = 1
    i1 = i1
    i2 = i2
    n1 = n1
    n2 = n2
    r1 = r1
    r2 = r2
    Seed <- OperatorRow
    Requests <- EveryRoute
SYMMETRY Symmetry
CHECK_DEADLOCK FALSE
PROPERTY AbsentDeleteIs404
