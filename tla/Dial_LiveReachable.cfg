SPECIFICATION Spec
CONSTANTS
    ClientVersions <- MCClientVersions
    Offers = {{"v1", "v2"}, {"v2", "v3"}, {"v4"}}
    Policies = {"always", "never"}
    MaxCopies = 2
    MayCancel = TRUE
CHECK_DEADLOCK FALSE
INVARIANT LiveReachable
