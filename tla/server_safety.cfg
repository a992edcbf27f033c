CONSTANTS
    Clients = {c1, c2, c3}
    MaxFds = 2
    BufferSize = 2
    MaxBytes = 2
    MaxEvents = 2
    MaxFaults = 1
    NoClient = NoClient
    NoContext = NoContext
SPECIFICATION Spec
SYMMETRY ClientSymmetry
INVARIANTS
    TypeOK
    ContextOfConnection
    EventForItsConnection
    OpenIsWatched
    UnreadDataIsAnnounced
    ReaderOutlived
PROPERTIES
    DescriptorsReleased
CHECK_DEADLOCK FALSE
