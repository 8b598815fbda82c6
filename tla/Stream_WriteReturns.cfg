SPECIFICATION FairSpec
CONSTANTS
    s1 = s1
    s2 = s2
    Streams = {s1, s2}
    Bidi = {s1, s2}
    Cancels <- Writing
    StreamWindow = 1
    MaxStreamWindow = 1
    ConnWindow = 1
    MaxConnWindow = 1
    MaxBytes <- One
PROPERTY WriteReturns
CHECK_DEADLOCK FALSE
