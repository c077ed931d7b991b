\* Three requests of any kinds.
SPECIFICATION Spec
CONSTANTS
    Requests = {r1, r2, r3}
    Kinds = {"login", "socialLogin", "promote", "demote", "updateRole", "suspend", "reactivate", "deleteUser", "changePassword", "resetPassword", "changeUserPassword"}
    RedisFails = TRUE
    MaxTime = 2
    MaxCrashes = 1
SYMMETRY RequestSymmetry
INVARIANT TypeOK
INVARIANT SessionsAreRevoked
INVARIANT RevokedStaysRevoked
PROPERTY ChangesProveThePassword
CHECK_DEADLOCK FALSE
