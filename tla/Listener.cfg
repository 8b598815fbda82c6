SPECIFICATION ListenerFairSpec
CONSTANTS
    Sessions = {s1, s2}
    Acceptors = {a1}
    Closers = {k1, k2}
    QueueCap = 1
    CreatedPacketConn = FALSE
INVARIANT SessionReachable
PROPERTIES CloseEnds StoppedIsForgotten
CHECK_DEADLOCK FALSE
