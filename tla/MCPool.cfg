SPECIFICATION FairSpec
CONSTANTS
    Slots = {s1, s2}
    Conns = {c1}
    Environments <- OneFlawEach
    NULL = NULL
INVARIANTS TypeOK NoLeak ServesOnlyReady HealthIsHonest
PROPERTIES HealthAnswers EveryRequestEnds OnlyLoginsExhaust
