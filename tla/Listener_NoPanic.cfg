SPECIFICATION ListenerSpec
CONSTANTS
    Sessions = {s1, s2}
    Acceptors = {a1}
    Closers = {k1, k2}
    QueueCap = 1
    CreatedPacketConn = TRUE
CHECK_DEADLOCK FALSE
INVARIANT NoPanic
