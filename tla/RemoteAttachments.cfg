SPECIFICATION FairSpec
CONSTANTS
    None = None
    k1 = k1
    k2 = k2
    r1 = r1
    r2 = r2
    n1 = n1
    t1 = t1
    t2 = t2
    Attachments = {k1, k2}
    RemoteNames = {r1, r2}
    Names = {n1}
    Threads = {t1, t2}
    NodeIntact = TRUE
INVARIANTS
    OneStandIn
    NoUseAfterDelete
    NothingLeaks
PROPERTIES
    OwnNamesAreKnown
    HandlersReturn
