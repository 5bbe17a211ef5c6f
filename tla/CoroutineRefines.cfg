SPECIFICATION Spec
CONSTANTS
    Objs = {o1, o2, o3, o4}
    NULL = NULL
    Wild = Wild
    Main = Main
    DefaultCap = 3
    MaxLive = 3
    AnyCaller = FALSE
    SelfDelete = {"returns", "exits"}
    NDebug = FALSE
CHECK_DEADLOCK FALSE
INVARIANTS
    TypeOK
    HandleNamesItsCoroutine
    SearchSucceeds
    NobodyStranded
    FailsOnlyOnEarlyClose
PROPERTIES
    Implements
    DeadStaysDead
