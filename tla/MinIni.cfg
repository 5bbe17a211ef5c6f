SPECIFICATION Spec
CONSTANTS
    Sections = {s1, s2}
    Keys = {k1, k2}
    Values = {v1, v2}
    Top = Top
    None = None
    Missing = Missing
    MaxLines = 3
    MaxCalls = 2
SYMMETRY Symmetry
INVARIANTS TypeOK NoDuplicatesMade SettingsKept OnlyTheSettingChanges OldOrNewSurvives
CHECK_DEADLOCK FALSE
