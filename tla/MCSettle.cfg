SPECIFICATION FairSpec
CONSTANTS
    Managers = {A, B}
    Objects = {n1}
    Regions = {r1}
    NULL = NULL
    MaxEdits = 2
    MaxCrashes = 1
PROPERTIES Settles Rests
CHECK_DEADLOCK FALSE
