SPECIFICATION Spec
CONSTANTS
    Lengths = {1}
    Cwnds = {1, 3}
    SkipOffsets = {0, 9}
    MaxOutstanding = 3
    MaxTracked = 4
    MaxTrackedSkipped = 1
    MaxTLPs = 1
    IsClient = TRUE
    MaxPn = 4
    MaxRTOs = 1
INVARIANT BytesInFlightExact
CHECK_DEADLOCK FALSE
