SPECIFICATION FairSpec
CONSTANTS
    Callers = {c1, c2}
    WorkersCount = 2
    ArgKinds <- OnHeap
    NoThread = NoThread
    MaxTasks = 3
    MaxSpurious = 1
CHECK_DEADLOCK FALSE
PROPERTIES
    QueuedTaskStarts
    DrainEnds
    JoinEndsUnlessWakeupLost
