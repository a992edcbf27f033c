SPECIFICATION Spec
CONSTANTS
    Callers = {c1, c2}
    WorkersCount = 3
    ArgKinds <- AnyArg
    NoThread = NoThread
    MaxTasks = 3
    MaxSpurious = 1
SYMMETRY CallerSymmetry
CHECK_DEADLOCK FALSE
INVARIANTS
    TypeOK
    TaskAccounting
    TasksInOrder
    PopNeverFails
    NoUseAfterFree
    StartedOrStopped
    WorkersJoinable
    FreeWaitCompletesTasks
    TaskMemory
PROPERTY
    ImplementsService
