SPECIFICATION Spec
CONSTANTS
    a1 = a1
    Apps = {a1}
    MaxVersion = 4
    MaxOutages = 1
    AnnouncedBy = "wkn"
    Outlives = TRUE
    Unseen = FALSE
    Hasty = FALSE
INVARIANTS
    NothingLeft
CHECK_DEADLOCK FALSE
