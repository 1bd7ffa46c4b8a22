SPECIFICATION Spec
CONSTANTS
    Procs = {p1, p2}
    Servers = {A, B}
    Ids = {}
    SeedFile <- LoggedInToA
    Seed <- OneManual
    Commands <- Logins
    MaxRuns = 4
    DefaultServer = A
    BadId = BadId
    NULL = NULL
    Empty = Empty
    A = A
    B = B
    i1 = i1
SYMMETRY Symmetry
INVARIANTS TypeOK TokensStayHome
CHECK_DEADLOCK FALSE
