SPECIFICATION FairSpec
CONSTANTS
    j1 = j1
    e1 = e1
    e2 = e2
    Joiners = {j1}
    Joinees = {e1, e2}
    MaxJoins = 4
    Overlap = FALSE
    LateAnswers = TRUE
    Lossy = TRUE
    JoineesLeave = FALSE
PROPERTIES
    JoinReturns
CHECK_DEADLOCK FALSE
