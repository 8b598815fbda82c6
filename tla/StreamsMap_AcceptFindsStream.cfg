SPECIFICATION Spec
CONSTANTS
    First = 2
    MaxNumStreams = 2
    Openers = {o1}
    Acceptors = {a1}
    Callers = {"run"}
    EarlyReset = TRUE
    MaxOpened = 3
INVARIANT AcceptFindsStream
CHECK_DEADLOCK FALSE
