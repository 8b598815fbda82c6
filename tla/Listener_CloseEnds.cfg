SPECIFICATION ListenerFairSpec
CONSTANTS
    Sessions = {s1, s2}
    Acceptors = {}
    Closers = {k1, k2}
    QueueCap = 1
    CreatedPacketConn = FALSE
CHECK_DEADLOCK FALSE
PROPERTY CloseEnds
