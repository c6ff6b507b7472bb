SPECIFICATION CooperativeSpec
CONSTANTS
    Streams <- TwoStreams
    Chars <- MCChars
    CR = "cr"
    LF = "lf"
    Structured <- MCStructured
    Signature <- MCSignature
    None = None
    Scripts <- MCScripts
    Capacity = 2
    Killable = TRUE
    MaxFaults = 1
INVARIANTS
    TypeOK
    EventsFollowOutput
    LogIsComplete
PROPERTY RunIsFinalized
CHECK_DEADLOCK FALSE
