SPECIFICATION InputSpec
CONSTANTS
    W = 8
    S = 4
    MaxLines = 4
    MaxData = 2
CHECK_DEADLOCK FALSE
INVARIANTS
    OverlapIsRefused
