\* Expected to fail: a body that ends too early is reported as done.
CONSTANTS
    MaxLines = 1
    MaxToolCalls = 0
SPECIFICATION Spec
INVARIANT DoneMeansComplete
CHECK_DEADLOCK FALSE
