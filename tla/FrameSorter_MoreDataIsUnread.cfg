SPECIFICATION Spec
CONSTANTS
    Length = 5
    MaxGaps = 3
INVARIANT MoreDataIsUnread
CHECK_DEADLOCK FALSE
