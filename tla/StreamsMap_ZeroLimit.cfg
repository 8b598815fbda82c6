SPECIFICATION Spec
CONSTANTS
    First = 0
    MaxNumStreams = 0
    Openers = {o1}
    Acceptors = {a1}
    Callers = {"run"}
    EarlyReset = FALSE
    MaxOpened = 3
INVARIANT ConcurrentLimit
CHECK_DEADLOCK FALSE
