SPECIFICATION SendSpec
CONSTANTS
    MaxLen = 2
    MaxCalls = 3
    Deadlines = TRUE
    MaxCloses = 1
INVARIANT NoDeadlock
CHECK_DEADLOCK FALSE
