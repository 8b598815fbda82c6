SPECIFICATION SendFairSpec
CONSTANTS
    MaxLen = 2
    MaxCalls = 3
    Deadlines = TRUE
    MaxCloses = 1
PROPERTY SetWriteDeadlineReturns
CHECK_DEADLOCK FALSE
