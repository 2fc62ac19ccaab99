SPECIFICATION Spec
CONSTANTS
    j1 = j1
    j2 = j2
    e1 = e1
    e2 = e2
    Joiners = {j1, j2}
    Joinees = {e1, e2}
    MaxJoins = 3
    Overlap = FALSE
    LateAnswers = FALSE
    Lossy = FALSE
    JoineesLeave = TRUE
SYMMETRY Symmetry
INVARIANTS
    SessionsPaired
    EverySessionIsFresh
    PeersAreUnambiguous
CHECK_DEADLOCK FALSE
