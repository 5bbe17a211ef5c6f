SPECIFICATION Spec
CONSTANTS
    Objs = {o1, o2, o3, o4}
    NULL = NULL
    Wild = Wild
    Main = Main
    DefaultCap = 1
    MaxLive = 4
    AnyCaller = FALSE
    SelfDelete = {"returns"}
    NDebug = FALSE
CHECK_DEADLOCK FALSE
INVARIANTS
    NeverAborts
