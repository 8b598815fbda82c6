SPECIFICATION FairSpec
CONSTANTS
    First = 3
    MaxNumStreams = 2
    Openers = {o1, o2}
    Acceptors = {a1, a2}
    Callers = {"run"}
    EarlyReset = TRUE
    MaxOpened = 4
INVARIANTS ConcurrentLimit LimitRespected NoLostWakeup
PROPERTY BlockedCallsReturn
CHECK_DEADLOCK FALSE
