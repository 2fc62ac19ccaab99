SPECIFICATION FairSpec
CONSTANTS
    c1 = c1
    c2 = c2
    Callers = {c1, c2}
    NoCaller = NoCaller
    Kinds = {"method", "get", "set"}
    MaxRequests = 3
    Lossy = TRUE
    LateReplies = FALSE
INVARIANTS
    OwnReply
PROPERTIES
    RequestReplySpec
    CallReturns
CHECK_DEADLOCK FALSE
