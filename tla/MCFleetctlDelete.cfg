SPECIFICATION FairSpec
CONSTANTS
    Procs = {p1, p2}
    Servers = {A}
    Ids = {i1, i2}
    SeedFile <- LoggedInToA
    Seed <- OneManual
    Commands <- Satellites
    MaxRuns = 3
    DefaultServer = A
    BadId = BadId
    NULL = NULL
    Empty = Empty
    A = A
    B = B
    i1 = i1
INVARIANTS OwnedUntouched DeletedMeansGone
PROPERTIES Terminates
CHECK_DEADLOCK FALSE
