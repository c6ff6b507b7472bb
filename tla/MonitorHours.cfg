SPECIFICATION Spec
CONSTANTS
    g1 = g1
    g2 = g2
    r1 = r1
    r2 = r2
    Gpus <- TwoGpus
    Runs <- TwoRuns
    None = None
    Absent = Absent
    NoReading = NoReading
    Samples <- FewSamples
    BucketLen = 2
    Scale = 12
    MaxSamples = 4
    MaxTime = 3
    MaxBack = 1
    MaxFaults = 1
    MaxStops = 1
SYMMETRY RunSymmetry
INVARIANTS
    UsageMatchesRows
    AverageIsExact
    SamplesAccountedFor
    BucketsAreWhole
    EnergyIsBounded
CHECK_DEADLOCK FALSE
