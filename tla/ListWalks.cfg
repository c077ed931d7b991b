\* Every query, one document a page, while others write.
SPECIFICATION ListSpec
CONSTANTS
    MaxDocs = 3
    Limit = 1
    Endpoints = {"users", "generations", "queue", "avatars", "files"}
    FirstPages = {0, 1}
    Searches = {"none", "word", "id"}
    Marks = {"mine", "active"}
INVARIANT ListTypeOK
INVARIANT WalksFindAll
INVARIANT OthersStayHidden
CHECK_DEADLOCK FALSE
