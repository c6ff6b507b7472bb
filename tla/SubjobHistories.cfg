SPECIFICATION Spec
CONSTANTS
    Streams <- TwoStreams
    Ids = {"a", "4"}
    NumericIds = {"4"}
    None = None
    NumericStatuses = {"7"}
    BlankStatuses = {""}
    Kinds <- MCKinds
    MaxEvents = 3
INVARIANTS
    ViewsAgree
    ProgressIsLatest
CHECK_DEADLOCK FALSE
