----------------------------- MODULE ThreadPool -----------------------------
(***************************************************************************)
(* The thread pool of src/modules/utility/src/thread_pool.c: a task queue  *)
(* under mutexQueue, workers that wait for it on condQueue, a              *)
(* ThreadPool_Free that may wait for it to drain on condFree, and          *)
(* Start / Stop / Free serialised by a trylock of mutexPool.               *)
(*                                                                         *)
(* A worker takes the steps of threadFunction one shared access at a time, *)
(* because isRunning is written without mutexQueue: the load in the wait   *)
(* condition (82), the wait (84) and the second load (87) are three steps. *)
(* A call of Start, Stop or Free takes one step per shared access of its   *)
(* own.  ThreadPool_Submit is one step: all it does is under mutexQueue,   *)
(* and nothing it touches is read without that mutex.                      *)
(*                                                                         *)
(* A call that fails its trylock, its malloc or its workersCount != 0 test *)
(* changes nothing and is a stutter.                                       *)
(***************************************************************************)
EXTENDS Integers, Sequences, FiniteSets

CONSTANTS
    Callers,        \* client threads that call the API
    WorkersCount,   \* ThreadPool_Create's argument, a uint8_t
    ArgKinds,       \* the values of isArgOnHeap that callers pass
    NoThread,       \* owner of a free mutex
    MaxTasks,       \* bound: calls of ThreadPool_Submit that succeed
    MaxSpurious     \* bound: spurious returns of pthread_cond_wait

Workers == 1..WorkersCount
TaskIds == 0..MaxTasks - 1

ASSUME PoolAssumption ==
    /\ WorkersCount \in 1..255
    /\ ArgKinds \subseteq BOOLEAN
    /\ NoThread \notin Workers \cup Callers
    /\ MaxTasks \in Nat
    /\ MaxSpurious \in Nat

VARIABLES
    \* PoolState_t, the task queue, the live ThreadTask_t and heap arguments
    isRunning, tasksScheduled, tasksStarted, tasksFinished, currentTaskId,
    tasks, heapTasks, heapArgs,
    \* the mutexes: each is its owner or NoThread
    mutexQueue, mutexPool,
    \* the ring buffers: joinable workers in creation order, arguments in use
    workers, workerArgs,
    \* the threads: where each worker is, the task it took; where each caller
    \* is, and which call it is in
    wpc, task, cpc, op,
    \* the pool's lifetime, tasks scheduled when a Free found the queue
    \* drained, and spurious wakeups so far
    phase, drainMark, spurious

counters  == <<tasksScheduled, tasksStarted, tasksFinished, currentTaskId>>
heap      == <<heapTasks, heapArgs>>
rings     == <<workers, workerArgs>>
callState == <<cpc, op>>
ghosts    == <<phase, drainMark, spurious>>
vars == <<isRunning, counters, tasks, heap, mutexQueue, mutexPool, rings,
          wpc, task, callState, ghosts>>

NoTask == MaxTasks
Parked == {w \in Workers : wpc[w] = "parked"}
Busy   == {w \in Workers : wpc[w] \in {"run", "ran"}}
InCritical == {"test", "park", "check", "pop"}
WorkerPC == InCritical \cup {"none", "lock", "parked", "woken", "run", "ran",
                             "exited"}
CallerPC == {"idle", "spawn", "drain", "drain_parked", "halt", "broadcast", "join"}
Calls    == {"none", "start", "stop", "free"}
Queued == {tasks[i] : i \in DOMAIN tasks}

TypeOK ==
    /\ isRunning \in BOOLEAN
    /\ tasksScheduled \in 0..MaxTasks
    /\ tasksStarted \in 0..MaxTasks
    /\ tasksFinished \in 0..MaxTasks
    /\ currentTaskId \in 0..MaxTasks
    /\ tasks \in Seq(TaskIds)
    /\ heapTasks \subseteq TaskIds
    /\ heapArgs \subseteq heapTasks
    /\ mutexQueue \in Workers \cup {NoThread}
    /\ mutexPool \in Callers \cup {NoThread}
    /\ workers \in Seq(Workers)
    /\ workerArgs \in 0..WorkersCount
    /\ wpc \in [Workers -> WorkerPC]
    /\ task \in [Workers -> 0..MaxTasks]
    /\ cpc \in [Callers -> CallerPC]
    /\ op \in [Callers -> Calls]
    /\ phase \in {"open", "closing", "freed"}
    /\ drainMark \in 0..MaxTasks
    /\ spurious \in 0..MaxSpurious

\* ThreadPool_Create has returned a pool.
Init ==
    /\ isRunning = FALSE
    /\ tasksScheduled = 0
    /\ tasksStarted = 0
    /\ tasksFinished = 0
    /\ currentTaskId = 0
    /\ tasks = <<>>
    /\ heapTasks = {}
    /\ heapArgs = {}
    /\ mutexQueue = NoThread
    /\ mutexPool = NoThread
    /\ workers = <<>>
    /\ workerArgs = 0
    /\ wpc = [w \in Workers |-> "none"]
    /\ task = [w \in Workers |-> NoTask]
    /\ cpc = [c \in Callers |-> "idle"]
    /\ op = [c \in Callers |-> "none"]
    /\ phase = "open"
    /\ drainMark = 0
    /\ spurious = 0

-----------------------------------------------------------------------------
(* The pthread primitives, as the code uses them.                          *)

Goto(w, next) == wpc' = [wpc EXCEPT ![w] = next]
CallGoto(c, next) == cpc' = [cpc EXCEPT ![c] = next]

\* Fault: the signal is forgotten.
NoSignalQueue == UNCHANGED wpc

\* pthread_cond_signal(condQueue): one waiting worker, if there is one.
SignalQueue ==
    \/ Parked = {} /\ UNCHANGED wpc
    \/ \E w \in Parked : Goto(w, "woken")

\* pthread_cond_broadcast(condQueue): every waiting worker.
BroadcastQueue ==
    wpc' = [w \in Workers |-> IF w \in Parked THEN "woken" ELSE wpc[w]]

\* Fault: the signal is forgotten.
NoSignalFree == UNCHANGED cpc

\* pthread_cond_signal(condFree): only one ThreadPool_Free can be waiting.
SignalFree ==
    cpc' = [c \in Callers |-> IF cpc[c] = "drain_parked" THEN "drain" ELSE cpc[c]]

\* Fault: the result of pthread_mutex_trylock is ignored.
TryLockIgnored(c, call) ==
    /\ phase = "open"
    /\ cpc[c] = "idle"
    /\ mutexPool' = c
    /\ op' = [op EXCEPT ![c] = call]

\* pthread_mutex_trylock(mutexPool) succeeds; the call's first step is next.
TryLockPool(c, call) ==
    /\ phase = "open"
    /\ cpc[c] = "idle"
    /\ mutexPool = NoThread
    /\ mutexPool' = c
    /\ op' = [op EXCEPT ![c] = call]

\* The call unlocks mutexPool and returns.
Return(c) ==
    /\ mutexPool' = NoThread
    /\ CallGoto(c, "idle")
    /\ op' = [op EXCEPT ![c] = "none"]

-----------------------------------------------------------------------------
(* A worker: threadFunction.                                               *)

\* Fault: the wait is in an if, not in a while.
LockWithoutRetest(w) ==
    /\ wpc[w] \in {"lock", "woken"}
    /\ mutexQueue = NoThread
    /\ mutexQueue' = w
    /\ Goto(w, IF wpc[w] = "woken" THEN "check" ELSE "test")
    /\ UNCHANGED <<isRunning, counters, tasks, heap, mutexPool, rings, task,
                   callState, ghosts>>

\* pthread_mutex_lock, or the re-lock inside a pthread_cond_wait that returns.
Lock(w) ==
    /\ wpc[w] \in {"lock", "woken"}
    /\ mutexQueue = NoThread
    /\ mutexQueue' = w
    /\ Goto(w, "test")
    /\ UNCHANGED <<isRunning, counters, tasks, heap, mutexPool, rings, task,
                   callState, ghosts>>

\* The wait condition: load isRunning, then peek.
Test(w) ==
    /\ wpc[w] = "test"
    /\ Goto(w, IF isRunning /\ tasks = <<>> THEN "park" ELSE "check")
    /\ UNCHANGED <<isRunning, counters, tasks, heap, mutexQueue, mutexPool,
                   rings, task, callState, ghosts>>

\* pthread_cond_wait releases the mutex and blocks in one step.
Park(w) ==
    /\ wpc[w] = "park"
    /\ mutexQueue' = NoThread
    /\ Goto(w, "parked")
    /\ UNCHANGED <<isRunning, counters, tasks, heap, mutexPool, rings, task,
                   callState, ghosts>>

\* Fault: only the wait condition looks at isRunning.
CheckNothing(w) ==
    /\ wpc[w] = "check"
    /\ Goto(w, "pop")
    /\ UNCHANGED <<isRunning, counters, tasks, heap, mutexQueue, mutexPool,
                   rings, task, callState, ghosts>>

\* isRunning is loaded again; a stopped worker unlocks and returns.
Check(w) ==
    /\ wpc[w] = "check"
    /\ Goto(w, IF isRunning THEN "pop" ELSE "exited")
    /\ mutexQueue' = IF isRunning THEN mutexQueue ELSE NoThread
    /\ UNCHANGED <<isRunning, counters, tasks, heap, mutexPool, rings, task,
                   callState, ghosts>>

\* Fault: tasksStarted is not counted.
TakeUncounted(w) ==
    /\ task' = [task EXCEPT ![w] = Head(tasks)]
    /\ tasks' = Tail(tasks)
    /\ UNCHANGED tasksStarted

\* Fault: Queue_Peek where Queue_Pop is meant.
TakeByPeek(w) ==
    /\ task' = [task EXCEPT ![w] = Head(tasks)]
    /\ UNCHANGED tasks
    /\ tasksStarted' = tasksStarted + 1

\* Fault: the newest task is taken.
TakeNewest(w) ==
    /\ task' = [task EXCEPT ![w] = tasks[Len(tasks)]]
    /\ tasks' = SubSeq(tasks, 1, Len(tasks) - 1)
    /\ tasksStarted' = tasksStarted + 1

\* Queue_Pop of the oldest task, and its count.
Take(w) ==
    /\ task' = [task EXCEPT ![w] = Head(tasks)]
    /\ tasks' = Tail(tasks)
    /\ tasksStarted' = tasksStarted + 1

\* Pop the oldest task, count it, signal condFree, unlock.
Pop(w) ==
    /\ wpc[w] = "pop"
    /\ mutexQueue' = NoThread
    /\ IF tasks = <<>>
       THEN /\ Goto(w, "lock")
            /\ UNCHANGED <<tasks, task, tasksStarted, cpc>>
       ELSE /\ Goto(w, "run")
            /\ Take(w)
            /\ SignalFree
    /\ UNCHANGED <<isRunning, tasksScheduled, tasksFinished, currentTaskId,
                   heap, mutexPool, rings, op, ghosts>>

\* The task's function returns.
Run(w) ==
    /\ wpc[w] = "run"
    /\ Goto(w, "ran")
    /\ UNCHANGED <<isRunning, counters, tasks, heap, mutexQueue, mutexPool,
                   rings, task, callState, ghosts>>

\* tasksFinished is counted; taskPtr is not read again, and not freed.
Count(w) ==
    /\ wpc[w] = "ran"
    /\ tasksFinished' = tasksFinished + 1
    /\ task' = [task EXCEPT ![w] = NoTask]
    /\ Goto(w, "lock")
    /\ UNCHANGED <<isRunning, tasksScheduled, tasksStarted, currentTaskId,
                   tasks, heap, mutexQueue, mutexPool, rings, callState, ghosts>>

-----------------------------------------------------------------------------
(* ThreadPool_Submit, by a client or by the function of a running task.    *)

Enqueue(isArgOnHeap) ==
    /\ mutexQueue = NoThread
    /\ currentTaskId < MaxTasks
    /\ currentTaskId' = currentTaskId + 1
    /\ tasks' = Append(tasks, currentTaskId)
    /\ tasksScheduled' = tasksScheduled + 1
    /\ heapTasks' = heapTasks \cup {currentTaskId}
    /\ heapArgs' = IF isArgOnHeap THEN heapArgs \cup {currentTaskId} ELSE heapArgs
    /\ SignalQueue
    /\ UNCHANGED <<isRunning, tasksStarted, tasksFinished, mutexQueue,
                   mutexPool, rings, task, callState, ghosts>>

\* A client submits only to a pool that nobody has begun to free.
Submit(c, isArgOnHeap) ==
    /\ phase = "open"
    /\ cpc[c] = "idle"
    /\ Enqueue(isArgOnHeap)

TaskSubmits(w, isArgOnHeap) ==
    /\ wpc[w] = "run"
    /\ Enqueue(isArgOnHeap)

-----------------------------------------------------------------------------
(* ThreadPool_Start.                                                       *)

StartBegin(c) ==
    /\ TryLockPool(c, "start")
    /\ workers = <<>>
    /\ isRunning' = TRUE
    /\ CallGoto(c, "spawn")
    /\ UNCHANGED <<counters, tasks, heap, mutexQueue, rings, wpc, task, ghosts>>

\* One iteration: append the argument, create the thread, append it.
Spawn(c) ==
    /\ cpc[c] = "spawn"
    /\ Len(workers) < WorkersCount
    /\ workerArgs < WorkersCount
    /\ workerArgs' = workerArgs + 1
    /\ workers' = Append(workers, Len(workers) + 1)
    /\ Goto(Len(workers) + 1, "lock")
    /\ UNCHANGED <<isRunning, counters, tasks, heap, mutexQueue, mutexPool,
                   task, callState, ghosts>>

\* pthread_create fails, or the ring of arguments is full: roll back.
SpawnFails(c) ==
    /\ cpc[c] = "spawn"
    /\ Len(workers) < WorkersCount
    /\ workerArgs' = IF workerArgs < WorkersCount THEN workerArgs + 1 ELSE workerArgs
    /\ CallGoto(c, "halt")
    /\ UNCHANGED <<isRunning, counters, tasks, heap, mutexQueue, mutexPool,
                   workers, wpc, task, op, ghosts>>

StartDone(c) ==
    /\ cpc[c] = "spawn"
    /\ Len(workers) = WorkersCount
    /\ Return(c)
    /\ UNCHANGED <<isRunning, counters, tasks, heap, mutexQueue, rings, wpc,
                   task, ghosts>>

-----------------------------------------------------------------------------
(* ThreadPool_Stop, ThreadPool_Free and the rollback of ThreadPool_Start.  *)

StopBegin(c) ==
    /\ TryLockPool(c, "stop")
    /\ CallGoto(c, "halt")
    /\ UNCHANGED <<isRunning, counters, tasks, heap, mutexQueue, rings, wpc,
                   task, ghosts>>

FreeBegin(c, waitTasksCompleted) ==
    /\ TryLockPool(c, "free")
    /\ phase' = "closing"
    /\ CallGoto(c, IF waitTasksCompleted /\ isRunning THEN "drain" ELSE "halt")
    /\ UNCHANGED <<isRunning, counters, tasks, heap, mutexQueue, rings, wpc,
                   task, drainMark, spurious>>

\* Under mutexQueue: wait on condFree while the queue is not empty.
DrainCheck(c) ==
    /\ cpc[c] = "drain"
    /\ mutexQueue = NoThread
    /\ CallGoto(c, IF tasks = <<>> THEN "halt" ELSE "drain_parked")
    /\ drainMark' = IF tasks = <<>> THEN tasksScheduled ELSE drainMark
    /\ UNCHANGED <<isRunning, counters, tasks, heap, mutexQueue, mutexPool,
                   rings, wpc, task, op, phase, spurious>>

\* isRunning is cleared WITHOUT mutexQueue.
Halt(c) ==
    /\ cpc[c] = "halt"
    /\ isRunning' = FALSE
    /\ CallGoto(c, "broadcast")
    /\ UNCHANGED <<counters, tasks, heap, mutexQueue, mutexPool, rings, wpc,
                   task, op, ghosts>>

Broadcast(c) ==
    /\ cpc[c] = "broadcast"
    /\ BroadcastQueue
    /\ CallGoto(c, "join")
    /\ UNCHANGED <<isRunning, counters, tasks, heap, mutexQueue, mutexPool,
                   rings, task, op, ghosts>>

\* Fault: pthread_detach where pthread_join is meant.
JoinDetaches(c) ==
    /\ cpc[c] = "join"
    /\ workers /= <<>>
    /\ workers' = Tail(workers)
    /\ UNCHANGED <<isRunning, counters, tasks, heap, mutexQueue, mutexPool,
                   workerArgs, wpc, task, callState, ghosts>>

\* pthread_join of the oldest worker still in the ring.
Join(c) ==
    /\ cpc[c] = "join"
    /\ workers /= <<>>
    /\ wpc[Head(workers)] = "exited"
    /\ Goto(Head(workers), "none")
    /\ workers' = Tail(workers)
    /\ UNCHANGED <<isRunning, counters, tasks, heap, mutexQueue, mutexPool,
                   workerArgs, task, callState, ghosts>>

\* Every worker is joined: the arguments are dropped and the call returns.
Release(c) ==
    /\ cpc[c] = "join"
    /\ workers = <<>>
    /\ op[c] \in {"start", "stop"}
    /\ workerArgs' = 0
    /\ Return(c)
    /\ UNCHANGED <<isRunning, counters, tasks, heap, mutexQueue, workers, wpc,
                   task, ghosts>>

\* Fault: the queue's deallocator is free.
DiscardTasksOnly ==
    /\ tasks' = <<>>
    /\ heapTasks' = heapTasks \ Queued
    /\ UNCHANGED heapArgs

\* Fault: Queue_Free is forgotten.
DiscardNothing ==
    /\ tasks' = <<>>
    /\ UNCHANGED heap

\* Queue_Free runs threadTaskDeallocator on what is still queued.
DiscardQueued ==
    /\ tasks' = <<>>
    /\ heapTasks' = heapTasks \ Queued
    /\ heapArgs' = heapArgs \ Queued

\* The pool, its mutexes and its condition variables are gone.
Destroy(c) ==
    /\ cpc[c] = "join"
    /\ workers = <<>>
    /\ op[c] = "free"
    /\ workerArgs' = 0
    /\ DiscardQueued
    /\ phase' = "freed"
    /\ Return(c)
    /\ UNCHANGED <<isRunning, counters, mutexQueue, workers, wpc, task,
                   drainMark, spurious>>

-----------------------------------------------------------------------------
(* pthread_cond_wait may return without a signal.                          *)

SpuriousWake(w) ==
    /\ wpc[w] = "parked"
    /\ spurious < MaxSpurious
    /\ spurious' = spurious + 1
    /\ Goto(w, "woken")
    /\ UNCHANGED <<isRunning, counters, tasks, heap, mutexQueue, mutexPool,
                   rings, task, callState, phase, drainMark>>

SpuriousDrainWake(c) ==
    /\ cpc[c] = "drain_parked"
    /\ spurious < MaxSpurious
    /\ spurious' = spurious + 1
    /\ CallGoto(c, "drain")
    /\ UNCHANGED <<isRunning, counters, tasks, heap, mutexQueue, mutexPool,
                   rings, wpc, task, op, phase, drainMark>>

-----------------------------------------------------------------------------
WorkerStep(w) ==
    \/ Lock(w)
    \/ Test(w)
    \/ Park(w)
    \/ Check(w)
    \/ Pop(w)
    \/ Run(w)
    \/ Count(w)

\* The steps of a call once it holds mutexPool.
CallStep(c) ==
    \/ Spawn(c)
    \/ StartDone(c)
    \/ DrainCheck(c)
    \/ Halt(c)
    \/ Broadcast(c)
    \/ Join(c)
    \/ Release(c)
    \/ Destroy(c)

\* What clients and their task functions may do at any time.
Client ==
    \/ \E c \in Callers :
          \/ StartBegin(c)
          \/ StopBegin(c)
          \/ \E wait \in BOOLEAN : FreeBegin(c, wait)
          \/ \E onHeap \in ArgKinds : Submit(c, onHeap)
    \/ \E w \in Workers, onHeap \in ArgKinds : TaskSubmits(w, onHeap)

\* What the operating system may do.
System ==
    \/ \E c \in Callers : SpawnFails(c) \/ SpuriousDrainWake(c)
    \/ \E w \in Workers : SpuriousWake(w)

Next ==
    \/ \E w \in Workers : WorkerStep(w)
    \/ \E c \in Callers : CallStep(c)
    \/ Client
    \/ System

Spec == Init /\ [][Next]_vars

\* Every thread that can step is eventually scheduled, and task functions
\* return; nothing is assumed of clients, of failures or of wakeups.
FairSpec ==
    /\ Spec
    /\ \A w \in Workers : WF_vars(WorkerStep(w))
    /\ \A c \in Callers : WF_vars(CallStep(c))

-----------------------------------------------------------------------------
(* Safety.                                                                 *)

RunningTasks == {task[w] : w \in Busy}

\* The three counters that clients poll agree with the queue and the workers
\* at every moment: what is scheduled and not started is queued, what is
\* started and not finished is being run (until Free discards the queue).
TaskAccounting ==
    /\ phase /= "freed" => tasksScheduled = tasksStarted + Len(tasks)
    /\ tasksStarted = tasksFinished + Cardinality(Busy)

\* Tasks start in the order they were submitted, none is skipped and none
\* is taken twice, whatever workers and submitters interleave: the queue is
\* the window of ids that follow the ones started, and two workers never
\* hold the same task.
TasksInOrder ==
    /\ \A i \in DOMAIN tasks : tasks[i] = tasksStarted + i - 1
    /\ \A w \in Busy : task[w] < tasksStarted
    /\ \A v, w \in Busy : task[v] = task[w] => v = w

\* The pop after the wait never fails (the retry at lines 91-94 is dead): a
\* worker that found the pool running after its wait holds the queue's mutex
\* with a task in the queue, even when isRunning was cleared in between.
PopNeverFails == \A w \in Workers : wpc[w] = "pop" => tasks /= <<>>

\* Once the pool is freed no thread is left that could touch it: no worker
\* exists, no call is in progress, neither mutex is held when destroyed.
NoUseAfterFree ==
    phase = "freed" =>
        /\ \A w \in Workers : wpc[w] = "none"
        /\ \A c \in Callers : cpc[c] = "idle"
        /\ mutexQueue = NoThread
        /\ mutexPool = NoThread

\* Between calls the pool is either fully started or fully stopped: after a
\* Stop, or a Start that failed half way, no worker and no worker argument is
\* left, so the next Start can succeed; after a Start every worker is there.
StartedOrStopped ==
    mutexPool = NoThread =>
        IF isRunning
        THEN Len(workers) = WorkersCount /\ workerArgs = WorkersCount
        ELSE workerArgs = 0 /\ \A w \in Workers : wpc[w] = "none"

\* A worker that is still to be joined, and only that one, has a thread: no
\* thread is joined twice or lost, also when a Start rolls back.
WorkersJoinable ==
    \A w \in Workers : wpc[w] /= "none" <=> \E i \in DOMAIN workers : workers[i] = w

\* ThreadPool_Free(pool, true): every task scheduled when the queue was
\* found drained has run to completion when the pool is freed, though the
\* last ones were still running then.
FreeWaitCompletesTasks == phase = "freed" => tasksFinished >= drainMark

\* A task that is queued or running is allocated, and freeing the pool
\* releases each discarded task, with its heap argument, exactly once.
TaskMemory ==
    /\ Queued \cup RunningTasks \subseteq heapTasks
    /\ phase = "freed" => \A t \in heapTasks : t < tasksStarted

-----------------------------------------------------------------------------
(* The inductive invariant behind the safety properties, in parts.         *)

\* mutexQueue is held exactly between a worker's lock and its wait or unlock.
QueueLock == \A w \in Workers : wpc[w] \in InCritical <=> mutexQueue = w

\* mutexPool is held by the one call in progress, and a Free in progress is
\* what closes the pool.
PoolLock ==
    /\ \A c \in Callers : cpc[c] /= "idle" <=> mutexPool = c
    /\ \A c \in Callers : op[c] = "none" <=> cpc[c] = "idle"
    /\ \A c \in Callers : cpc[c] = "spawn" => op[c] = "start"
    /\ \A c \in Callers : cpc[c] \in {"drain", "drain_parked"} => op[c] = "free"
    /\ phase = "closing" <=> \E c \in Callers : op[c] = "free"
    /\ phase = "freed" => workers = <<>> /\ mutexPool = NoThread

\* The ring of workers is a run of consecutive numbers, from 1 while they
\* are created, and a worker has a thread while it is in the ring.
WorkerRing ==
    /\ \A i, j \in DOMAIN workers : workers[j] - workers[i] = j - i
    /\ WorkersJoinable

\* How isRunning follows the call in progress.
RunState ==
    /\ \A c \in Callers :
          cpc[c] = "spawn" => /\ isRunning
                              /\ workerArgs = Len(workers)
                              /\ workers /= <<>> => workers[1] = 1
    /\ \A c \in Callers : cpc[c] \in {"drain", "drain_parked"} => isRunning
    /\ \A c \in Callers : cpc[c] \in {"broadcast", "join"} => ~isRunning
    /\ mutexPool = NoThread =>
          IF isRunning
          THEN Len(workers) = WorkersCount /\ workerArgs = WorkersCount
          ELSE workers = <<>> /\ workerArgs = 0

\* A worker past the wait has a task to pop, unless the pool was stopped
\* before its second look.
PopGuarded ==
    /\ \A w \in Workers : wpc[w] = "check" /\ isRunning => tasks /= <<>>
    /\ PopNeverFails

\* Ids, counters, queue and workers agree.
TaskOrder ==
    /\ currentTaskId = tasksScheduled
    /\ tasksStarted <= tasksScheduled
    /\ drainMark <= tasksStarted
    /\ phase = "freed" => tasks = <<>>
    /\ TaskAccounting
    /\ TasksInOrder

Memory ==
    /\ TaskMemory
    /\ \A t \in heapTasks : t < tasksStarted \/ t \in Queued

\* Together they are inductive; each needs the ones before it.
IInv == /\ TypeOK
        /\ QueueLock
        /\ PoolLock
        /\ WorkerRing
        /\ RunState
        /\ PopGuarded
        /\ TaskOrder
        /\ Memory

-----------------------------------------------------------------------------
(* The pool implements the service.                                        *)

ServiceMode == CASE phase = "freed"   -> "closed"
                 [] phase /= "freed" /\ workers = <<>>  -> "off"
                 [] phase /= "freed" /\ workers /= <<>> -> "on"

Service == INSTANCE TaskService WITH
    Tasks   <- TaskIds,
    Width   <- WorkersCount,
    pending <- tasks,
    running <- RunningTasks,
    done    <- (0..tasksStarted - 1) \ RunningTasks,
    mode    <- ServiceMode

\* Seen from its clients the pool is the abstract service: every step of
\* every thread is a step of the service or invisible.
ImplementsService == Service!Spec

-----------------------------------------------------------------------------
(* Liveness, under FairSpec.                                               *)

\* No wakeup of a Submit is lost: a queued task is eventually started unless
\* the pool is stopped.
QueuedTaskStarts ==
    \A t \in TaskIds :
        (isRunning /\ t \in Queued) ~> (t < tasksStarted \/ ~isRunning)

\* A Free that waits for the queue to drain gets past the wait.
DrainEnds ==
    \A c \in Callers : cpc[c] \in {"drain", "drain_parked"} ~> cpc[c] = "halt"

\* A Stop, a Free or a rollback that joins its workers returns, unless a
\* worker blocked on condQueue after the broadcast: nothing else (a lock, a
\* running task, another call) can keep it.
JoinEndsUnlessWakeupLost ==
    \A c \in Callers : cpc[c] = "join" ~> (cpc[c] = "idle" \/ Parked /= {})

-----------------------------------------------------------------------------
(* What the tests say of the pool and the code does not do.                *)

\* test_thread_pool.c: Free(false) "should not hang" (453), "must not block"
\* (461): a Free that got mutexPool, and does not wait for the queue, returns.
FreeReturns ==
    \A c \in Callers : (op[c] = "free" /\ cpc[c] = "halt") ~> phase = "freed"

\* test_thread_pool.c: "pool frees the arg after the task runs" (247).
HeapArgFreedAfterRun ==
    phase = "freed" => heapArgs = {}
=============================================================================
