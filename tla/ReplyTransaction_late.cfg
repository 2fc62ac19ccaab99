SPECIFICATION Spec
CONSTANTS
    c1 = c1
    c2 = c2
    Callers = {c1, c2}
    NoCaller = NoCaller
    Kinds = {"method", "action", "noreply", "get", "set", "getall"}
    MaxRequests = 3
    Lossy = TRUE
    LateReplies = TRUE
SYMMETRY Symmetry
INVARIANTS
    TypeOK
    OneTransaction
    NoLostWakeup
    ReplyUsedOnce
    NoStolenReply
CHECK_DEADLOCK FALSE
