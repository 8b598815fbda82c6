SPECIFICATION Spec
CONSTANTS
    Start = 2
    Skew = 1
    Modulus = 64
    MaxVarInt = 15
    MaxTime = 4
INVARIANT DeltaWritten
CHECK_DEADLOCK FALSE
