\* Three updates of one picture.
SPECIFICATION Spec
CONSTANTS
    Keys = {r1, r2, r3}
    Requests = {r1, r2, r3}
    R2Fails = {"put"}
    MongoFails = TRUE
    MaxCrashes = 1
SYMMETRY RequestSymmetry
INVARIANT PictureIsStored
INVARIANT OrphansNeedOverlap
CHECK_DEADLOCK FALSE
