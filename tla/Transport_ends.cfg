SPECIFICATION FairSpec
CONSTANTS
    t1 = t1
    t2 = t2
    sig = sig
    ThreadStops = {t1, t2}
    SignalStops = {sig}
    Run = Run
    Nobody = Nobody
    LinkFails = TRUE
    StopAnyTime = TRUE
    NextKeepalive = 2
INVARIANTS
    TypeOK
    RunEndsDead
    LossIsReported
PROPERTIES
    LoginIsRemembered
    RunReturns
CHECK_DEADLOCK FALSE
