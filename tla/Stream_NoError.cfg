SPECIFICATION Spec
CONSTANTS
    s1 = s1
    s2 = s2
    Streams = {s1}
    Bidi = {s1}
    Cancels <- Writing
    StreamWindow = 1
    MaxStreamWindow = 2
    ConnWindow = 2
    MaxConnWindow = 2
    MaxBytes <- Two
INVARIANT NoError
CHECK_DEADLOCK FALSE
