\* Two avatars after one slug, a file and an update.
SPECIFICATION Spec
CONSTANTS
    Keys <- MCKeys
    Avatars = {a1, a2}
    Attachments = {f1}
    Updates = {u1}
    Slugs = {s1}
    R2Fails = {"put"}
    MongoFails = TRUE
    MaxCrashes = 1
SYMMETRY AvatarSymmetry
INVARIANT FilesOfAvatarsSurvive
INVARIANT ExpiredLeavesNothing
CHECK_DEADLOCK FALSE
