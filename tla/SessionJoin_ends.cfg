SPECIFICATION FairSpec
CONSTANTS
    j1 = j1
    j2 = j2
    e1 = e1
    Joiners = {j1, j2}
    Joinees = {e1}
    MaxJoins = 3
    Overlap = FALSE
    LateAnswers = FALSE
    Lossy = FALSE
    JoineesLeave = TRUE
PROPERTIES
    NearEndReachesFar
    FarEndReachesNear
CHECK_DEADLOCK FALSE
