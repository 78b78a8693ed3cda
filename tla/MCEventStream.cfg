\* Two lines with at most two tool calls each; safety and liveness.
CONSTANTS
    MaxLines = 2
    MaxToolCalls = 2
SPECIFICATION Spec
INVARIANTS TypeOK SeenInOrder DoneMeansWhole OneEnd EndIsTold
PROPERTIES Answered ReaderReleased
CHECK_DEADLOCK FALSE
