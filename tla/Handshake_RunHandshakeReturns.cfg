SPECIFICATION FairSpec
CONSTANTS
    MaxFrame = 2
    MaxUndecryptable = 1
    Closers = {"client", "server"}
    MayFail = {"client", "server"}
PROPERTY RunHandshakeReturns
CHECK_DEADLOCK FALSE
