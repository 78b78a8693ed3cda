CONSTANTS
    Requests = {r1, r2}
    Veterans = {v}
    Sessions = {s}
    Keys = {k}
    Emails = {e1, e2}
    AccessTTL = 1
    RefreshTTL = 2
    SessionTTL = 1
    KeyTTL = 1
    MaxTime = 2
    PerMinute = 1
    PerDay = 1
    MinuteOf <- MCMinuteOf
    DateOf <- MCDateOf
    Minute = 1
    Day = 2
    MaxOperations = 1
    MaxFaults = 1
    None = None
SYMMETRY Symmetry
SPECIFICATION Spec
CHECK_DEADLOCK FALSE
INVARIANTS
    TypeOK
    OneUserPerEmail
    RevokedMeansOut
    SessionBounded
    WithinLimit
    NoFalseRefusal
    CountersExpire
