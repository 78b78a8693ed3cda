CONSTANTS
    search = search
    delete = delete
    Invalid = Invalid
    None = None
    Tools <- MCTools
    Gated <- MCGated
    MaxIterations = 2
    Usage = {0, 1}
    MaxCalls = 2
    MaxResumes = 1
SPECIFICATION Spec
CHECK_DEADLOCK FALSE
INVARIANTS
    ApprovedActionRuns
