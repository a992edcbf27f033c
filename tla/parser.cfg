CONSTANTS
    BufferSize = 18
    Inputs <- AllInputs
    MaxFaults = 2
SPECIFICATION FairSpec
INVARIANTS
    TypeOK
    RangesInBuffer
    ParamsSpellQuery
    BlocksAccounted
PROPERTIES
    VerdictFollowsBytes
    ImplementsParse
    ReturnsUnlessLooping
CHECK_DEADLOCK FALSE
