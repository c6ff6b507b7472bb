SPECIFICATION Spec
CONSTANTS
    r1 = r1
    r2 = r2
    NoRun = NoRun
    Runs <- TwoRuns
    Rank <- RankOfTwo
    Timed <- FirstTimed
    MaxActive = 1
    KillChildren = TRUE
    MaxCancels = 0
    MaxStops = 0
    MaxFaults = 1
    MaxTrouble = 4
INVARIANT LoopSurvives
CHECK_DEADLOCK FALSE
