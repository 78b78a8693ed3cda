\* Expected to fail: readSSE stays in its last send.
CONSTANTS
    MaxLines = 1
    MaxToolCalls = 0
SPECIFICATION Spec
PROPERTY NoGoroutineLeak
CHECK_DEADLOCK FALSE
