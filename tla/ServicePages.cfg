SPECIFICATION Spec
CONSTANTS
    v1 = v1
    v2 = v2
    l1 = l1
    q1 = q1
    q2 = q2
    None = None
    Requests <- TwoRequests
    Models <- ThreeModels
    VllmModels <- TwoVllm
    MaxLoads = 2
    MaxServed = 2
    MaxTime = 1
    MaxSamples = 2
    MaxRequests = 3
SYMMETRY Symmetry
INVARIANTS
    RateIsProgress
    CountedOnce
    ShareIsRatio
    QuantilesInOrder
    EndpointAnswered
    ActiveWasLoaded
    BackendsAreShown
CHECK_DEADLOCK FALSE
