\* Four requests of any kinds, of two users of one browser; at most three under way together.
SPECIFICATION Spec
CONSTANTS
    Users = {u1, u2}
    Requests = {r1, r2, r3, r4}
    Kinds = {"login", "logout", "refreshToken", "call", "changePassword"}
    RedisFails = TRUE
    MaxAtOnce = 3
SYMMETRY CookieSymmetry
INVARIANT CookiesAgree
INVARIANT InfoTells
INVARIANT RefreshCookieWorks
CHECK_DEADLOCK FALSE
