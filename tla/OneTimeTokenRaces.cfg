\* Four requests of any kinds.
SPECIFICATION Spec
CONSTANTS
    Requests = {r1, r2, r3, r4}
    Kinds = {"createUser", "updateUser", "deleteUser", "register", "login", "resendVerification", "forgotPassword", "socialLogin", "verifyEmail", "resetPassword", "claimSocialCode"}
    CallsFail = TRUE
    MaxCrashes = 1
SYMMETRY RequestSymmetry
INVARIANT TypeOK
INVARIANT SentTokensWork
INVARIANT SecondUsesOverlap
INVARIANT AddressesAreProven
CHECK_DEADLOCK FALSE
