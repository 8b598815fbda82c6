SPECIFICATION FairLoopSpec
CONSTANTS
    Lengths = {1}
    Cwnds = {1}
    SkipOffsets = {9}
    MaxOutstanding = 3
    MaxTracked = 4
    MaxTrackedSkipped = 1
    MaxTLPs = 1
    IsClient = TRUE
    MaxPn = 3
    MaxRTOs = 1
    Paced = TRUE
    KeepAlives = TRUE
    MaxBurst = 2
CHECK_DEADLOCK FALSE
PROPERTY ProbeIsSent
