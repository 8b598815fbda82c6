SPECIFICATION FairSpec
CONSTANTS
    MaxFrame = 2
    MaxUndecryptable = 1
    Closers = {"client", "server"}
    MayFail = {"client", "server"}
INVARIANTS InStep NothingLeftBehind HelloArrived
PROPERTIES ClientCompletes CloseCompletes
CHECK_DEADLOCK FALSE
