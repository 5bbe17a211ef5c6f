SPECIFICATION Spec
CONSTANTS
    Objs = {o1, o2, o3, o4, o5}
    NULL = NULL
    Wild = Wild
    Main = Main
    DefaultCap = 1
    MaxLive = 5
    AnyCaller = TRUE
    SelfDelete = {"returns"}
    NDebug = TRUE
CHECK_DEADLOCK FALSE
SYMMETRY Symmetry
INVARIANTS
    IInv
    CloseFreesAll
