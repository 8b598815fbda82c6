SPECIFICATION FairSpec
CONSTANTS
    s1 = s1
    s2 = s2
    Streams = {s1, s2}
    Bidi = {s1}
    Cancels <- ByBoth
    StreamWindow = 1
    MaxStreamWindow = 2
    ConnWindow = 1
    MaxConnWindow = 1
    MaxBytes <- OneAndTwo
INVARIANTS NoPeerError CreditExact NotStalled CompletedOnce
PROPERTY Delivered
CHECK_DEADLOCK FALSE
