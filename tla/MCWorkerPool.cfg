CONSTANTS
    Workers = {w1, w2}
    Jobs = {j1, j2, j3, j4}
    QueueSize = 1
    None = None
SPECIFICATION Spec
CHECK_DEADLOCK FALSE
INVARIANTS TypeOK JobsAccounted
PROPERTIES PoolProgress
