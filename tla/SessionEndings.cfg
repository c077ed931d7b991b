\* Two logins, and two requests or handshakes that use them.
SPECIFICATION Spec
CONSTANTS
    Logins = {l1, l2}
    Requests = {r1, r2}
    AccessTtl = 2
    RefreshTtl = 3
    MaxTime = 6
SYMMETRY Symmetry
INVARIANT EndingsTakeHold
INVARIANT AdminPowersEnd
INVARIANT LoginsEnd
CHECK_DEADLOCK FALSE
