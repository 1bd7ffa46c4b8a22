SPECIFICATION CSpec
CONSTANTS
    Slots = {s1, s2}
    Instances = {A, B}
    Skew <- NoSkew
    MaxSkew = 0
    TTL = 1
    MaxTime = 1
    MaxTokens = 1
    UserIds = {u1}
    Usernames = {alice}
    Passwords = {pw, LongPassword}
    LongPassword = LongPassword
    BadId = BadId
    NULL = NULL
    SeedUsers <- OneAdmin
    Foreign = {}
    Forms <- ComeAndGo
    Ids = {i1}
    Names = {n1}
    Regions = {r1}
    Seed <- OneRow
    Requests <- Mixed
    u1 = u1
    alice = alice
    pw = pw
    i1 = i1
    n1 = n1
    r1 = r1
SYMMETRY Symmetry
PROPERTIES PartsIntact ChangedByUsers LastWritesBounded
