SPECIFICATION Spec
CONSTANTS
    Callers = {c1}
    WorkersCount = 1
    ArgKinds <- AnyArg
    NoThread = NoThread
    MaxTasks = 2
    MaxSpurious = 0
CHECK_DEADLOCK FALSE
INVARIANT HeapArgFreedAfterRun
