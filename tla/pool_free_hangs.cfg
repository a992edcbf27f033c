SPECIFICATION FairSpec
CONSTANTS
    Callers = {c1}
    WorkersCount = 1
    ArgKinds <- OnHeap
    NoThread = NoThread
    MaxTasks = 1
    MaxSpurious = 0
CHECK_DEADLOCK FALSE
PROPERTY FreeReturns
