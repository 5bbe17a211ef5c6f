SPECIFICATION Spec
CONSTANTS
    W = 24
    S = 8
    ShortLen = 2
    LongLen = 4
    Near = 5
    MaxBlocks = 2
    Lengths = {1, 5, 9}
CHECK_DEADLOCK FALSE
INVARIANTS
    RoundTrip
    RecordsStayInSegment
    OverrunsAtSegmentEnd
PROPERTIES
    MergedAscends
