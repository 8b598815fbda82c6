SPECIFICATION LoopSpec
CONSTANTS
    Lengths = {1}
    Cwnds = {2}
    SkipOffsets = {9}
    MaxOutstanding = 3
    MaxTracked = 9
    MaxTrackedSkipped = 1
    MaxTLPs = 1
    IsClient = TRUE
    MaxPn = 3
    MaxRTOs = 1
    Paced = TRUE
    KeepAlives = FALSE
    MaxBurst = 2
CHECK_DEADLOCK FALSE
PROPERTY RTOProbesNotPaced
