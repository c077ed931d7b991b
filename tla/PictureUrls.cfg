\* A reader and an update; SETs delayed by up to a quarter of the lifetime of an entry.
SPECIFICATION UrlSpec
CONSTANTS
    Reads = {r1}
    Updates = {u1}
    First = k0
    Validity = 6
    CacheTtl = 4
    MaxOutage = 1
    MaxReply = 1
    Restarts = TRUE
    MaxTime = 12
SYMMETRY RequestSymmetry
INVARIANT ServedUrlsAreValid
CHECK_DEADLOCK FALSE
