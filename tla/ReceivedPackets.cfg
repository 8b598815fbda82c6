SPECIFICATION ReceivedSpec
CONSTANTS
    MaxRanges = 3
    InitialBeforeAck = 2
    BeforeAck = 3
    MinDecimation = 3
    MaxPn = 5
INVARIANTS RangesExact AckNotEmpty AckDue
CHECK_DEADLOCK FALSE
