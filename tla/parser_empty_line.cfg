CONSTANTS
    BufferSize = 18
    Inputs <- ShortInputs
    MaxFaults = 0
SPECIFICATION Spec
INVARIANTS
    HeadersEndAtFirstEmptyLine
CHECK_DEADLOCK FALSE
