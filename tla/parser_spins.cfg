CONSTANTS
    BufferSize = 18
    Inputs <- ShortInputs
    MaxFaults = 0
SPECIFICATION FairSpec
PROPERTIES
    IncompleteHeadersReturn
CHECK_DEADLOCK FALSE
