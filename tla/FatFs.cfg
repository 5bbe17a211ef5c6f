SPECIFICATION Spec
CONSTANTS
    Names = {f1, f2}
    Data = {d1, d2}
    Blank = Blank
    Closed = Closed
    Absent = Absent
    Clusters = 3
    FatPerSector = 1
    Slots = 2
    SlotsPerSector = 1
    CSize = 2
    SS = 2
    Sizes = {5}
    Offsets = {0, 4, 7}
    MaxSize = 9
    MaxCalls = 7
    CallsAfterCrash = 2
SYMMETRY Symmetry
INVARIANTS ReadsWhatWasWritten BystandersSurvive CrossLinksOnlyInCriticalSections Accounting
CHECK_DEADLOCK FALSE
