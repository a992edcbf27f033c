CONSTANTS
    Clients = {c1, c2}
    MaxFds = 1
    BufferSize = 2
    MaxBytes = 2
    MaxEvents = 2
    MaxFaults = 1
    NoClient = NoClient
    NoContext = NoContext
SPECIFICATION FairSpec
PROPERTIES
    StopCompletes
    ReaderFailureStopsServer
    WaitingClientIsHeard
    ClosedPeerIsReleased
CHECK_DEADLOCK FALSE
