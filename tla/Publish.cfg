SPECIFICATION PublishSpec
CONSTANTS
    W = 8
    S = 4
    MaxBlocks = 4
    MaxLength = 2
    LoaderAt = 3
    LoaderLength = 2
    Chunk = 2
CHECK_DEADLOCK FALSE
INVARIANTS
    FillKeepsData
    FilesAreSections
    OverrunNeedsThreeSections
    UpdateHoldsProgram
    PackedBuilds
