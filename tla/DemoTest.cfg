SPECIFICATION DemoSpec
CONSTANTS
    Objs = {o1, o2}
    NULL = NULL
    Wild = Wild
    Main = Main
    DefaultCap = 16
    MaxLive = 2
    AnyCaller = FALSE
    SelfDelete = {"returns", "exits"}
    NDebug = FALSE
    MaxYields = 5
CHECK_DEADLOCK FALSE
INVARIANTS
    EqualWorkersAllEnd
    TakeTurns
PROPERTIES
    LoopEnds
