SPECIFICATION FairSpec
CONSTANTS
    Length = 7
    MaxGaps = 3
INVARIANT GapsExact
PROPERTY InOrder
CHECK_DEADLOCK FALSE
