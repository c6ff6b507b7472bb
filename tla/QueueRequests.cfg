SPECIFICATION Spec
CONSTANTS
    None = None
    Texts <- MCTexts
    Definitions <- TwoParameters
    Submissions <- Requests
INVARIANTS
    QueuedIfAcceptable
    StoredIsStable
    CommandTellsParameters
CHECK_DEADLOCK FALSE
