SPECIFICATION Spec
CONSTANTS
    Slots = {s1, s2}
    Instances = {A, B}
    Skew <- BAhead
    MaxSkew = 1
    TTL = 3
    MaxTime = 5
    MaxTokens = 1
    UserIds = {u1, u2}
    Usernames = {alice, bob}
    Passwords = {pw, LongPassword}
    LongPassword = LongPassword
    BadId = BadId
    NULL = NULL
    SeedUsers <- OneAdmin
    Foreign <- ForeignTokens
    Forms <- Admins
    u1 = u1
    u2 = u2
    alice = alice
    bob = bob
    pw = pw
    A = A
    B = B
SYMMETRY Symmetry
INVARIANTS FreshTokenAccepted
PROPERTIES RevocationBound LockoutIsPermanent
