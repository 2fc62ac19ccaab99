SPECIFICATION FairSpec
CONSTANTS
    a1 = a1
    Apps = {a1}
    MaxVersion = 4
    MaxOutages = 1
    AnnouncedBy = "wkn"
    Outlives = FALSE
    Unseen = FALSE
    Hasty = FALSE
INVARIANTS
    NothingMissing
    NothingLeft
    ReachesApp
PROPERTIES
    Settles
CHECK_DEADLOCK FALSE
