\* Two generations share one worker slot; two attempts, up to two crashes.
SPECIFICATION FairSpec
CONSTANTS
    Gens = {g1, g2}
    TestGens = {g2}
    Requests = {}
    Ops = {}
    Concurrency = 1
    MaxAttempts = 2
    MaxStalls = 1
    MongoFails = FALSE
    MaxUpdates = 1
    MaxCrashes = 2
INVARIANT IInv
PROPERTY JobsDrain
PROPERTY PendingResolves
CHECK_DEADLOCK FALSE
