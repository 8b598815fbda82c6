SPECIFICATION FairSpec
CONSTANTS
    ClientVersions <- MCClientVersions
    Offers = {{"v1", "v2"}, {"v2", "v3"}, {"v4"}}
    Policies = {"always", "never"}
    MaxCopies = 2
    MayCancel = TRUE
INVARIANTS Agreement EstablishedStays
PROPERTIES DialSucceeds FailedIsForgotten
CHECK_DEADLOCK FALSE
