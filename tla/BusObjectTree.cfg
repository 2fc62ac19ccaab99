SPECIFICATION FairSpec
CONSTANTS
    n1 = n1
    n2 = n2
    n3 = n3
    n4 = n4
    Nodes = {n1, n2, n3, n4}
    Root = n1
    Concurrent = FALSE
    StartFails = FALSE
INVARIANTS
    NoUseAfterDelete
PROPERTIES
    WalkSpec
    HandlerCalled
CHECK_DEADLOCK FALSE
