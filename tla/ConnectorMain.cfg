SPECIFICATION FairSpec
CONSTANTS
    MaxCalls = 2
    MaxDescriptors = 2
INVARIANTS
    FileIsWhole
    NoUseAfterDelete
    InEffect
    PasscodeKept
PROPERTIES
    StoreSpec
    SigIntEnds
CHECK_DEADLOCK FALSE
