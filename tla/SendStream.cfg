SPECIFICATION SendFairSpec
CONSTANTS
    MaxLen = 3
    MaxCalls = 4
    Deadlines = TRUE
    MaxCloses = 1
INVARIANT NothingForgotten
PROPERTY EverybodyReturns
CHECK_DEADLOCK FALSE
