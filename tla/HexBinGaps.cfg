SPECIFICATION Spec
CONSTANTS
    W = 10
    S = 5
    MaxBlocks = 4
    MaxLength = 2
CHECK_DEADLOCK FALSE
INVARIANTS
    GapsAreFilled
