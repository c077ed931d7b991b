\* One generation of any kind, two removals by the user and the cleanup; everything may fail.
SPECIFICATION Spec
CONSTANTS
    Keys <- MCKeys
    Gens = {g1}
    Removals = {x1, x2}
    Cleaner = cleaner
    FileRemovals <- MCFileRemovals
    R2Fails = {"put", "delete"}
    MongoFails = TRUE
    MaxCrashes = 1
INVARIANT AnsweredMeansStored
INVARIANT AvatarImageSurvives
INVARIANT RefsAreBacked
INVARIANT InputRecordsAreInReach
SYMMETRY RemovalSymmetry
CHECK_DEADLOCK FALSE
