SPECIFICATION Spec
CONSTANTS
    r1 = r1
    r2 = r2
    NoRun = NoRun
    Runs <- TwoRuns
    Rank <- RankOfTwo
    Timed <- FirstTimed
    MaxActive = 1
    KillChildren = FALSE
    MaxCancels = 2
    MaxStops = 1
    MaxFaults = 1
    MaxTrouble = 4
INVARIANTS
    StartedAtMostOnce
    AdmissionBound
    ChildHoldsSlot
    SlotHasOwner
    OutcomeIsTrue
PROPERTIES
    EndIsFinal
    ImplementsSlots
CHECK_DEADLOCK FALSE
