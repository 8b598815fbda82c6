SPECIFICATION Spec
CONSTANTS
    First = 0
    MaxNumStreams = 2
    Openers = {o1}
    Acceptors = {a1}
    Callers = {"run", "h2"}
    EarlyReset = FALSE
    MaxOpened = 3
PROPERTY OpenedOnce
CHECK_DEADLOCK FALSE
