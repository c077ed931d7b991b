\* A generation with two files, a picture and a file upload; everything may fail.
SPECIFICATION TempSpec
CONSTANTS
    Requests = {"generation", "picture", "upload"}
    Parts <- MCParts
    Keys <- MCKeys
    Awaited = {"upload"}
    R2Fails = {"put"}
    MongoFails = TRUE
    MaxEnds = 2
INVARIANT OnlyCrashesLeaveFiles
INVARIANT UntrackedHasACause
CHECK_DEADLOCK FALSE
