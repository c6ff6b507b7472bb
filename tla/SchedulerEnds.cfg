SPECIFICATION FairSpec
CONSTANTS
    r1 = r1
    r2 = r2
    NoRun = NoRun
    Runs <- TwoRuns
    Rank <- RankOfTwo
    Timed <- FirstTimed
    MaxActive = 1
    KillChildren = TRUE
    MaxCancels = 2
    MaxStops = 1
    MaxFaults = 1
    MaxTrouble = 2
PROPERTIES
    CancelEndsChild
    TimeoutEndsChild
    QueueMoves
    RunsEnd
CHECK_DEADLOCK FALSE
