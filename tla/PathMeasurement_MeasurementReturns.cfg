SPECIFICATION FairSpec
CONSTANTS
    Start = 2
    Skew = 0
    Modulus = 64
    MaxVarInt = 15
    MaxTime = 3
PROPERTY MeasurementReturns
CHECK_DEADLOCK FALSE
