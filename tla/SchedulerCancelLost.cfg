SPECIFICATION Spec
CONSTANTS
    r1 = r1
    r2 = r2
    NoRun = NoRun
    Runs <- TwoRuns
    Rank <- RankOfTwo
    Timed <- FirstTimed
    MaxActive = 1
    KillChildren = TRUE
    MaxCancels = 1
    MaxStops = 0
    MaxFaults = 0
    MaxTrouble = 4
PROPERTY CancelIsKept
CHECK_DEADLOCK FALSE
