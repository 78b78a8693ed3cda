CONSTANTS
    Requests = {r1, r2}
    MaxCalls = 2
    None = None
    Asks <- SomeAsks
SPECIFICATION Spec
CHECK_DEADLOCK FALSE
INVARIANTS
    TypeOK
    BatchIsFinal
    ListedIsUsable
    StoresStayOpen
PROPERTIES
    EverythingEnds
