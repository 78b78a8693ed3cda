CONSTANTS
    Requests = {r1, r2, r3, r4}
    Users = {alice, bob}
    None = None
    Amount <- Cost
    Charges <- OneToken
SYMMETRY Symmetry
SPECIFICATION Spec
CHECK_DEADLOCK FALSE
INVARIANTS
    TypeOK
    OnlyOwnerActs
    TranscriptInOrder
    AnsweredTurnsAreStored
    PendingIsExplained
    CountedAtMostOnce
    SerialTurnsExact
