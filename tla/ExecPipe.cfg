SPECIFICATION Spec
CONSTANTS
    PipeSize = 3
    ReadSize = 2
    MaxOutput = 4
    MaxLate = 2
CHECK_DEADLOCK FALSE
INVARIANTS
    TypeOK
    ResultIsOutput
PROPERTIES
    ReturnsIfItFits
    WaitsOnlyWhenFull
