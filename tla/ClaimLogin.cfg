SPECIFICATION Spec
CONSTANTS
    Slots = {s1, s2}
    Instances = {A}
    Skew <- NoSkew
    MaxSkew = 0
    TTL = 1
    MaxTime = 1
    MaxTokens = 2
    UserIds = {u1, u2, u3}
    Usernames = {alice, bob}
    Passwords = {pw, LongPassword}
    LongPassword = LongPassword
    BadId = BadId
    NULL = NULL
    SeedUsers <- AdminAndOther
    Foreign <- ForeignTokens
    Forms <- EveryRoute
    u1 = u1
    u2 = u2
    alice = alice
    bob = bob
    pw = pw
    A = A
    B = B
SYMMETRY Symmetry
CHECK_DEADLOCK FALSE
PROPERTY LoginRefusalMeansCredentials
