SPECIFICATION FairSpec
CONSTANTS
    offset = offset
    plain = plain
    Reset = Reset
    None = None
    Profiles <- TwoProfiles
    Ops <- OpsOfTwo
    MaxRequests = 3
    MaxDeaths = 1
INVARIANTS
    AppliedMeansSet
    NothingElseChanges
    PrefixApplied
PROPERTIES
    ClocksBeforeOffsets
    LoopReturns
CHECK_DEADLOCK FALSE
