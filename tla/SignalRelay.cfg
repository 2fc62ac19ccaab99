SPECIFICATION FairSpec
CONSTANTS
    ToText <- VectorToString
    FromText <- VectorFromString
    ToBody <- Body
    FromBody <- Message
    Ids = {"1", "2"}
    Members = {"x"}
    ArgLists <- PlainArgLists
    MaxSignals = 2
    MaxSessions = 2
    Prompt = TRUE
INVARIANTS
    StaysInSession
    ArgumentsSurvive
PROPERTIES
    SignalsArrive
CHECK_DEADLOCK FALSE
