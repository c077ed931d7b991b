\* One generation, two requests of any kinds, failing writes, a crash.
SPECIFICATION Spec
CONSTANTS
    Gens = {g1}
    TestGens = {}
    Requests = {r1, r2}
    Ops = {"cancel", "remove", "queueCancel", "patch", "callback"}
    Concurrency = 1
    MaxAttempts = 2
    MaxStalls = 1
    MongoFails = TRUE
    MaxUpdates = 2
    MaxCrashes = 1
SYMMETRY RequestSymmetry
INVARIANT FailedCreateLeavesNothing
INVARIANT CancelStopsTheJob
INVARIANT TriggerBudget
INVARIANT StatusHasCause
INVARIANT QueueJobCompletedMeansAccepted
INVARIANT OwnerIsToldTheVerdict
PROPERTY DeletedForGood
PROPERTY ImplementsPromise
CHECK_DEADLOCK FALSE
