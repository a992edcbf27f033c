-------------------------- MODULE ThreadPoolProofs --------------------------
(***************************************************************************)
(* Proofs about ThreadPool, for any number of clients and workers.         *)
(*                                                                         *)
(* The safety properties follow from the inductive invariant IInv.  Every  *)
(* part of IInv has a lemma that a step keeps it; a lemma groups the       *)
(* actions that leave the part's variables alone and takes the others one  *)
(* by one.                                                                 *)
(***************************************************************************)
EXTENDS ThreadPool, FiniteSetTheorems, SequenceTheorems, TLAPS

LEMMA InitIInv == Init => IInv
  <1> SUFFICES ASSUME Init PROVE IInv
    OBVIOUS
  <1> USE PoolAssumption DEF Init
  <1>1. Busy = {} /\ Queued = {} /\ RunningTasks = {}
    BY DEF Busy, Queued, RunningTasks
  <1>2. TypeOK
    <2>1. tasks \in Seq(TaskIds) /\ workers \in Seq(Workers)
      BY EmptySeq
    <2>2. task \in [Workers -> 0..MaxTasks]
      BY DEF NoTask
    <2>3. /\ tasksScheduled \in 0..MaxTasks
          /\ tasksStarted \in 0..MaxTasks
          /\ tasksFinished \in 0..MaxTasks
          /\ currentTaskId \in 0..MaxTasks
          /\ drainMark \in 0..MaxTasks
          /\ workerArgs \in 0..WorkersCount
          /\ spurious \in 0..MaxSpurious
      OBVIOUS
    <2>4. /\ wpc \in [Workers -> WorkerPC]
          /\ cpc \in [Callers -> CallerPC]
          /\ op \in [Callers -> Calls]
      BY DEF WorkerPC, CallerPC, Calls
    <2> QED
      BY <2>1, <2>2, <2>3, <2>4, Zenon DEF TypeOK
  <1>3. QueueLock /\ PoolLock
    BY DEF QueueLock, PoolLock, InCritical
  <1>4. WorkerRing
    BY DEF WorkerRing, WorkersJoinable
  <1>5. RunState /\ PopGuarded
    BY DEF RunState, PopGuarded, PopNeverFails
  <1>6. TaskOrder
    BY <1>1, FS_EmptySet DEF TaskOrder, TaskAccounting, TasksInOrder
  <1>7. Memory
    BY <1>1 DEF Memory, TaskMemory
  <1> QED
    BY <1>2, <1>3, <1>4, <1>5, <1>6, <1>7 DEF IInv

-----------------------------------------------------------------------------
(* What the wakeups do to the workers, and what every action leaves alone. *)

\* A signal or a broadcast of condQueue only takes parked workers to woken.
LEMMA WakesParked ==
    ASSUME TypeOK, SignalQueue \/ BroadcastQueue
    PROVE  /\ wpc' \in [Workers -> WorkerPC]
           /\ \A w \in Workers :
                 wpc'[w] = wpc[w] \/ (wpc[w] = "parked" /\ wpc'[w] = "woken")
  <1>1. CASE BroadcastQueue
    BY <1>1 DEF TypeOK, BroadcastQueue, Parked, WorkerPC
  <1>2. CASE Parked = {} /\ UNCHANGED wpc
    BY <1>2 DEF TypeOK
  <1>3. ASSUME NEW v \in Parked, Goto(v, "woken")
        PROVE  /\ wpc' \in [Workers -> WorkerPC]
               /\ \A w \in Workers :
                     wpc'[w] = wpc[w] \/ (wpc[w] = "parked" /\ wpc'[w] = "woken")
    BY <1>3 DEF TypeOK, Goto, Parked, WorkerPC
  <1> QED
    BY <1>1, <1>2, <1>3 DEF SignalQueue

\* While Start creates workers the ring is 1..Len(workers), and the number it
\* gives the next worker is free.
LEMMA NextWorkerFree ==
    ASSUME IInv, NEW c \in Callers, Spawn(c)
    PROVE  /\ Len(workers) \in Nat
           /\ Len(workers) + 1 \in Workers
           /\ \A i \in DOMAIN workers : workers[i] = i
           /\ wpc[Len(workers) + 1] = "none"
  <1>0. /\ TypeOK /\ WorkerRing /\ RunState
        /\ workers \in Seq(Workers)
        /\ cpc[c] = "spawn"
        /\ Len(workers) < WorkersCount
    BY DEF IInv, TypeOK, Spawn
  <1>1. Len(workers) \in Nat /\ DOMAIN workers = 1..Len(workers)
    BY <1>0, LenProperties
  <1>2. Len(workers) + 1 \in Workers
    BY <1>0, <1>1, PoolAssumption DEF Workers
  <1>3. ASSUME NEW i \in DOMAIN workers PROVE workers[i] = i
    <2>1. i \in 1..Len(workers) /\ 1 \in DOMAIN workers
      BY <1>1
    <2>2. workers /= <<>>
      BY <1>0, <1>1, <2>1, EmptySeq
    <2>3. workers[1] = 1
      BY <1>0, <2>2 DEF RunState
    <2>4. workers[i] - workers[1] = i - 1
      BY <1>0, <2>1 DEF WorkerRing
    <2>5. workers[i] \in Workers
      BY <1>0, <1>1, ElementOfSeq
    <2>6. workers[i] \in Int
      BY <2>5, PoolAssumption DEF Workers
    <2> QED
      BY <2>1, <2>3, <2>4, <2>6
  <1>4. \A i \in DOMAIN workers : workers[i] /= Len(workers) + 1
    BY <1>1, <1>3
  <1>5. wpc[Len(workers) + 1] = "none"
    BY <1>0, <1>2, <1>4 DEF WorkerRing, WorkersJoinable
  <1> QED
    BY <1>1, <1>2, <1>3, <1>5

\* The worker that is joined next is the first of the ring.
LEMMA FirstWorker ==
    ASSUME TypeOK, workers /= <<>>
    PROVE  /\ Len(workers) \in Nat \ {0}
           /\ Head(workers) = workers[1]
           /\ Head(workers) \in Workers
           /\ Tail(workers) \in Seq(Workers)
           /\ Len(Tail(workers)) = Len(workers) - 1
           /\ \A i \in 1..Len(workers) - 1 : Tail(workers)[i] = workers[i + 1]
  BY EmptySeq, HeadTailProperties DEF TypeOK

-----------------------------------------------------------------------------
LEMMA QueueLockStep == IInv /\ [Next]_vars => QueueLock'
  <1> SUFFICES ASSUME IInv, [Next]_vars PROVE QueueLock'
    OBVIOUS
  <1> USE PoolAssumption DEF QueueLock, InCritical
  <1>0. TypeOK /\ QueueLock /\ WorkerRing
    BY DEF IInv
  <1>1. CASE UNCHANGED vars
    BY <1>0, <1>1 DEF vars
  <1>2. ASSUME NEW w \in Workers, WorkerStep(w) PROVE QueueLock'
    BY <1>0, <1>2 DEF TypeOK, WorkerStep, Lock, Test, Park, Check, Pop, Run, Count, Goto
  <1>3. ASSUME NEW c \in Callers, Spawn(c) PROVE QueueLock'
    BY <1>0, <1>3, NextWorkerFree DEF TypeOK, Spawn, Goto
  <1>4. ASSUME NEW c \in Callers, Broadcast(c) PROVE QueueLock'
    BY <1>0, <1>4, WakesParked DEF Broadcast
  <1>5. ASSUME NEW c \in Callers, Join(c) PROVE QueueLock'
    BY <1>0, <1>5, FirstWorker DEF TypeOK, Join, Goto
  <1>6. ASSUME NEW onHeap \in ArgKinds, Enqueue(onHeap) PROVE QueueLock'
    BY <1>0, <1>6, WakesParked DEF Enqueue
  <1>7. ASSUME NEW w \in Workers, SpuriousWake(w) PROVE QueueLock'
    BY <1>0, <1>7 DEF TypeOK, SpuriousWake, Goto
  <1>8. CASE UNCHANGED <<wpc, mutexQueue>>
    BY <1>0, <1>8
  <1> QED
    BY <1>1, <1>2, <1>3, <1>4, <1>5, <1>6, <1>7, <1>8
       DEF Next, CallStep, Client, System, StartDone, DrainCheck, Halt, Release,
           Destroy, StartBegin, StopBegin, FreeBegin, Submit, TaskSubmits,
           SpawnFails, SpuriousDrainWake

\* The caller that holds mutexPool is the only one in a call.
LEMMA OthersIdle ==
    ASSUME TypeOK, PoolLock
    PROVE  /\ \A c \in Callers : mutexPool /= c => cpc[c] = "idle" /\ op[c] = "none"
           /\ \A c \in Callers : mutexPool = c =>
                 /\ mutexPool /= NoThread
                 /\ phase /= "freed"
                 /\ phase = "closing" <=> op[c] = "free"
  BY PoolAssumption DEF TypeOK, PoolLock, Calls

-----------------------------------------------------------------------------
LEMMA PoolLockStep == IInv /\ [Next]_vars => PoolLock'
  <1> SUFFICES ASSUME IInv, [Next]_vars PROVE PoolLock'
    OBVIOUS
  <1> USE PoolAssumption DEF PoolLock, CallerPC, Calls
  <1>0. TypeOK /\ PoolLock
    BY DEF IInv
  <1>1. CASE UNCHANGED vars
    BY <1>0, <1>1 DEF vars, callState, ghosts, rings
  <1>2. ASSUME NEW c \in Callers, StartBegin(c) \/ StopBegin(c) PROVE PoolLock'
    <2>1. /\ mutexPool = NoThread /\ mutexPool' = c /\ c /= NoThread
          /\ phase = "open" /\ phase' = phase
          /\ \A d \in Callers : d /= c => cpc'[d] = "idle" /\ op'[d] = "none"
          /\ \/ cpc'[c] = "spawn" /\ op'[c] = "start"
             \/ cpc'[c] = "halt" /\ op'[c] = "stop"
      BY <1>0, <1>2, OthersIdle DEF TypeOK, StartBegin, StopBegin, TryLockPool,
                                    CallGoto, ghosts
    <2> QED
      BY <2>1
  <1>3. ASSUME NEW c \in Callers, NEW wait \in BOOLEAN, FreeBegin(c, wait)
        PROVE  PoolLock'
    BY <1>0, <1>3 DEF TypeOK, FreeBegin, TryLockPool, CallGoto, rings
  <1>4. ASSUME NEW c \in Callers, StartDone(c) \/ Release(c) PROVE PoolLock'
    <2>1. /\ mutexPool = c /\ mutexPool' = NoThread
          /\ op[c] \in {"start", "stop"} /\ phase' = phase
          /\ cpc' = [cpc EXCEPT ![c] = "idle"]
          /\ op' = [op EXCEPT ![c] = "none"]
      BY <1>0, <1>4 DEF StartDone, Release, Return, CallGoto, ghosts
    <2>2. \A d \in Callers : cpc'[d] = "idle" /\ op'[d] = "none"
      BY <1>0, <2>1, OthersIdle DEF TypeOK
    <2> QED
      BY <1>0, <2>1, <2>2, OthersIdle
  <1>5. ASSUME NEW c \in Callers, Destroy(c) PROVE PoolLock'
    BY <1>0, <1>5 DEF TypeOK, Destroy, Return, CallGoto
  <1>6. ASSUME NEW c \in Callers,
               SpawnFails(c) \/ DrainCheck(c) \/ Halt(c) \/ Broadcast(c)
                             \/ SpuriousDrainWake(c)
        PROVE  PoolLock'
    BY <1>0, <1>6 DEF TypeOK, SpawnFails, DrainCheck, Halt, Broadcast,
                      SpuriousDrainWake, CallGoto, ghosts, rings
  <1>7. ASSUME NEW c \in Callers, Spawn(c) \/ Join(c) PROVE PoolLock'
    BY <1>0, <1>7, OthersIdle DEF Spawn, Join, callState, ghosts
  <1>8. ASSUME NEW w \in Workers, Pop(w) PROVE PoolLock'
    BY <1>0, <1>8 DEF TypeOK, Pop, SignalFree, ghosts, rings
  <1>9. CASE UNCHANGED <<cpc, op, mutexPool, phase, workers>>
    BY <1>0, <1>9
  <1> QED
    BY <1>1, <1>2, <1>3, <1>4, <1>5, <1>6, <1>7, <1>8, <1>9
       DEF Next, WorkerStep, CallStep, Client, System, Lock, Test, Park, Check,
           Run, Count, Submit, TaskSubmits, Enqueue, SpuriousWake, callState,
           ghosts, rings

-----------------------------------------------------------------------------
LEMMA WorkerRingStep == IInv /\ [Next]_vars => WorkerRing'
  <1> SUFFICES ASSUME IInv, [Next]_vars PROVE WorkerRing'
    OBVIOUS
  <1> USE DEF WorkerRing, WorkersJoinable
  <1>0. TypeOK /\ WorkerRing /\ QueueLock
    BY DEF IInv
  <1>1. CASE UNCHANGED vars
    BY <1>0, <1>1 DEF vars, rings
  <1>2. ASSUME NEW w \in Workers, WorkerStep(w) PROVE WorkerRing'
    BY <1>0, <1>2 DEF TypeOK, WorkerStep, Lock, Test, Park, Check, Pop, Run,
                      Count, Goto, rings
  <1>3. ASSUME NEW c \in Callers, Spawn(c) PROVE WorkerRing'
    <2> DEFINE n == Len(workers) + 1
    <2>1. /\ workers' = Append(workers, n)
          /\ n \in Nat /\ n \in Workers /\ wpc[n] = "none"
          /\ wpc' = [wpc EXCEPT ![n] = "lock"]
          /\ workers \in Seq(Workers)
          /\ \A i \in DOMAIN workers : workers[i] = i
      BY <1>0, <1>3, NextWorkerFree DEF TypeOK, Spawn, Goto
    <2>2. /\ DOMAIN workers = 1..n - 1 /\ DOMAIN workers' = 1..n
          /\ \A i \in 1..n - 1 : workers'[i] = workers[i]
          /\ workers'[n] = n
      BY <2>1, LenProperties, AppendProperties
    <2>3. \A i \in DOMAIN workers' : workers'[i] = i
      BY <2>1, <2>2
    <2>4. \A i, j \in DOMAIN workers' : workers'[j] - workers'[i] = j - i
      BY <2>2, <2>3
    <2>5. \A w \in Workers : wpc'[w] /= "none" <=> wpc[w] /= "none" \/ w = n
      BY <1>0, <2>1 DEF TypeOK
    <2>6. \A w \in Workers : (\E i \in DOMAIN workers' : workers'[i] = w)
                             <=> (\E i \in DOMAIN workers : workers[i] = w) \/ w = n
      BY <2>1, <2>2, <2>3
    <2> QED
      BY <1>0, <2>4, <2>5, <2>6
  <1>4. ASSUME NEW c \in Callers, Join(c) PROVE WorkerRing'
    <2> DEFINE len == Len(workers)
    <2>1. /\ workers' = Tail(workers)
          /\ workers \in Seq(Workers)
          /\ len \in Nat \ {0} /\ workers[1] \in Workers
          /\ wpc' = [wpc EXCEPT ![workers[1]] = "none"]
          /\ wpc \in [Workers -> WorkerPC]
      BY <1>0, <1>4, FirstWorker DEF TypeOK, Join, Goto
    <2>2. /\ DOMAIN workers = 1..len /\ DOMAIN workers' = 1..len - 1
          /\ \A i \in 1..len - 1 : workers'[i] = workers[i + 1]
      BY <1>0, <1>4, <2>1, FirstWorker, LenProperties DEF Join
    <2>3. \A i \in 1..len : workers[i] \in Int
      BY <2>1, ElementOfSeq, PoolAssumption DEF Workers
    <2>4. \A i, j \in DOMAIN workers' : workers'[j] - workers'[i] = j - i
      <3> TAKE i, j \in DOMAIN workers'
      <3>1. i + 1 \in DOMAIN workers /\ j + 1 \in DOMAIN workers
        BY <2>1, <2>2
      <3>2. workers[j + 1] - workers[i + 1] = (j + 1) - (i + 1)
        BY <1>0, <3>1
      <3> QED
        BY <2>2, <3>2
    <2>5. \A i \in 2..len : workers[i] /= workers[1]
      <3> TAKE i \in 2..len
      <3>0. i \in DOMAIN workers /\ 1 \in DOMAIN workers
        BY <2>1, <2>2
      <3>1. workers[i] - workers[1] = i - 1
        BY <1>0, <3>0
      <3> QED
        BY <2>3, <3>1, <2>1
    <2>6. ASSUME NEW w \in Workers
          PROVE  (\E i \in DOMAIN workers' : workers'[i] = w)
                 <=> (\E i \in DOMAIN workers : workers[i] = w) /\ w /= workers[1]
      <3>1. ASSUME NEW i \in DOMAIN workers' PROVE i + 1 \in DOMAIN workers /\ i + 1 \in 2..len
        BY <2>1, <2>2
      <3>2. ASSUME NEW i \in DOMAIN workers, i /= 1
            PROVE  i - 1 \in DOMAIN workers' /\ workers'[i - 1] = workers[i]
        <4>1. i - 1 \in 1..len - 1 /\ (i - 1) + 1 = i
          BY <2>1, <2>2, <3>2
        <4> QED
          BY <2>2, <4>1
      <3> QED
        BY <2>2, <2>5, <3>1, <3>2
    <2>7. \A w \in Workers : wpc'[w] /= "none" <=> wpc[w] /= "none" /\ w /= workers[1]
      BY <2>1
    <2> QED
      BY <1>0, <2>4, <2>6, <2>7
  <1>5. ASSUME NEW c \in Callers, Broadcast(c) PROVE WorkerRing'
    BY <1>0, <1>5, WakesParked DEF Broadcast, rings
  <1>6. ASSUME NEW onHeap \in ArgKinds, Enqueue(onHeap) PROVE WorkerRing'
    BY <1>0, <1>6, WakesParked DEF Enqueue, rings
  <1>7. ASSUME NEW w \in Workers, SpuriousWake(w) PROVE WorkerRing'
    BY <1>0, <1>7 DEF TypeOK, SpuriousWake, Goto, rings
  <1>8. CASE UNCHANGED <<wpc, workers>>
    BY <1>0, <1>8
  <1> QED
    BY <1>1, <1>2, <1>3, <1>4, <1>5, <1>6, <1>7, <1>8
       DEF Next, CallStep, Client, System, StartDone, DrainCheck, Halt, Release,
           Destroy, StartBegin, StopBegin, FreeBegin, Submit, TaskSubmits,
           SpawnFails, SpuriousDrainWake, rings

-----------------------------------------------------------------------------
LEMMA PopGuardedStep == IInv /\ [Next]_vars => PopGuarded'
  <1> SUFFICES ASSUME IInv, [Next]_vars PROVE PopGuarded'
    OBVIOUS
  <1> USE PoolAssumption DEF PopGuarded, PopNeverFails
  <1>0. TypeOK /\ PopGuarded /\ QueueLock /\ PoolLock /\ WorkerRing /\ RunState
    BY DEF IInv
  <1>1. CASE UNCHANGED vars
    BY <1>0, <1>1 DEF vars
  <1>2. ASSUME NEW w \in Workers, Lock(w) \/ Test(w) \/ Park(w) \/ Check(w)
                                          \/ Run(w) \/ Count(w)
        PROVE  PopGuarded'
    BY <1>0, <1>2 DEF TypeOK, Lock, Test, Park, Check, Run, Count, Goto
  <1>3. ASSUME NEW w \in Workers, Pop(w) PROVE PopGuarded'
    \* No other worker is between its lock and its unlock.
    BY <1>0, <1>3, ZenonT(40) DEF TypeOK, Pop, Goto, QueueLock, InCritical
  <1>4. ASSUME NEW c \in Callers, Spawn(c) PROVE PopGuarded'
    BY <1>0, <1>4, NextWorkerFree DEF TypeOK, Spawn, Goto
  <1>5. ASSUME NEW c \in Callers, Join(c) PROVE PopGuarded'
    BY <1>0, <1>5, FirstWorker DEF TypeOK, Join, Goto
  <1>6. ASSUME NEW c \in Callers, Broadcast(c) PROVE PopGuarded'
    BY <1>0, <1>6, WakesParked DEF Broadcast
  <1>7. ASSUME NEW onHeap \in ArgKinds, Enqueue(onHeap) PROVE PopGuarded'
    <2>1. Append(tasks, currentTaskId) /= <<>>
      BY <1>0, <1>7, AppendProperties, EmptySeq DEF TypeOK, Enqueue, TaskIds
    <2> QED
      BY <1>0, <1>7, <2>1, WakesParked DEF Enqueue
  <1>8. ASSUME NEW w \in Workers, SpuriousWake(w) PROVE PopGuarded'
    BY <1>0, <1>8 DEF TypeOK, SpuriousWake, Goto
  <1>9. ASSUME NEW c \in Callers, StartBegin(c) PROVE PopGuarded'
    \* Start finds no worker.
    BY <1>0, <1>9 DEF StartBegin, WorkerRing, WorkersJoinable
  <1>10. ASSUME NEW c \in Callers, Halt(c) PROVE PopGuarded'
    BY <1>0, <1>10 DEF Halt
  <1>11. ASSUME NEW c \in Callers, Destroy(c) PROVE PopGuarded'
    BY <1>0, <1>11 DEF Destroy, WorkerRing, WorkersJoinable
  <1>12. CASE UNCHANGED <<wpc, tasks, isRunning>>
    BY <1>0, <1>12
  <1> QED
    BY <1>1, <1>2, <1>3, <1>4, <1>5, <1>6, <1>7, <1>8, <1>9, <1>10, <1>11, <1>12
       DEF Next, WorkerStep, CallStep, Client, System, StartDone, DrainCheck,
           Release, StopBegin, FreeBegin, Submit, TaskSubmits, SpawnFails,
           SpuriousDrainWake

-----------------------------------------------------------------------------
LEMMA RunStateStep == IInv /\ [Next]_vars => RunState'
  <1> SUFFICES ASSUME IInv, [Next]_vars PROVE RunState'
    OBVIOUS
  <1> USE DEF RunState
  <1>0. TypeOK /\ PoolLock /\ RunState
    BY DEF IInv
  <1>1. CASE UNCHANGED vars
    BY <1>0, <1>1 DEF vars, callState, rings
  <1>2. ASSUME NEW c \in Callers, StartBegin(c) PROVE RunState'
    <2>1. /\ mutexPool = NoThread /\ mutexPool' = c /\ c /= NoThread
          /\ workers = <<>> /\ workers' = workers /\ workerArgs' = workerArgs
          /\ isRunning'
          /\ \A d \in Callers : d /= c => cpc'[d] = "idle"
          /\ cpc'[c] = "spawn"
      BY <1>0, <1>2, OthersIdle, PoolAssumption
         DEF TypeOK, StartBegin, TryLockPool, CallGoto, rings
    <2>2. Len(workers) = 0 /\ WorkersCount /= 0
      BY <2>1, EmptySeq, PoolAssumption
    <2>3. workerArgs = 0
      BY <1>0, <2>1, <2>2
    <2> QED
      BY <2>1, <2>2, <2>3
  <1>3. ASSUME NEW c \in Callers, Spawn(c) PROVE RunState'
    <2>1. /\ cpc' = cpc /\ cpc[c] = "spawn" /\ mutexPool' = mutexPool
          /\ isRunning' = isRunning /\ mutexPool = c /\ mutexPool /= NoThread
          /\ workers' = Append(workers, Len(workers) + 1)
          /\ workerArgs' = workerArgs + 1
          /\ workers \in Seq(Workers) /\ Len(workers) + 1 \in Workers
      BY <1>0, <1>3, OthersIdle, NextWorkerFree
         DEF Spawn, callState, PoolLock, TypeOK
    <2>2. /\ Len(workers') = Len(workers) + 1
          /\ \A i \in 1..Len(workers) : workers'[i] = workers[i]
          /\ workers'[Len(workers) + 1] = Len(workers) + 1
          /\ Len(workers) \in Nat
          /\ Len(workers) = 0 => workers = <<>>
      BY <2>1, AppendProperties, LenProperties, EmptySeq
    <2>3. workers'[1] = 1
      <3>1. CASE workers = <<>>
        BY <3>1, <2>2, EmptySeq
      <3>2. CASE workers /= <<>>
        BY <3>2, <1>0, <2>1, <2>2
      <3> QED
        BY <3>1, <3>2
    <2>4. \A d \in Callers : cpc'[d] = "spawn" => d = c
      BY <1>0, <2>1 DEF PoolLock
    <2> QED
      BY <1>0, <2>1, <2>2, <2>3, <2>4
  <1>4. ASSUME NEW c \in Callers, StartDone(c) \/ Release(c) \/ Destroy(c)
        PROVE  RunState'
    <2>1. /\ \A d \in Callers : cpc'[d] = "idle"
          /\ workers' = workers /\ isRunning' = isRunning
          /\ \/ isRunning /\ Len(workers) = WorkersCount /\ workerArgs' = WorkersCount
             \/ ~isRunning /\ workers = <<>> /\ workerArgs' = 0
      <3>1. mutexPool = c
        BY <1>0, <1>4 DEF StartDone, Release, Destroy, PoolLock
      <3>2. \A d \in Callers : cpc'[d] = "idle"
        BY <1>0, <1>4, <3>1, OthersIdle
           DEF TypeOK, StartDone, Release, Destroy, Return, CallGoto
      <3>3. CASE StartDone(c)
        BY <1>0, <3>2, <3>3 DEF StartDone, rings
      <3>4. CASE Release(c) \/ Destroy(c)
        BY <1>0, <3>2, <3>4 DEF Release, Destroy
      <3> QED
        BY <1>4, <3>3, <3>4
    <2> QED
      BY <2>1
  <1>5. ASSUME NEW c \in Callers,
               \/ SpawnFails(c) \/ DrainCheck(c) \/ Halt(c) \/ Broadcast(c)
               \/ SpuriousDrainWake(c)
        PROVE  RunState'
    <2>1. /\ mutexPool = c /\ mutexPool' = mutexPool /\ mutexPool /= NoThread
          /\ \A d \in Callers : d /= c => cpc'[d] = "idle"
      BY <1>0, <1>5, OthersIdle
         DEF SpawnFails, DrainCheck, Halt, Broadcast, SpuriousDrainWake, PoolLock,
             TypeOK, CallGoto
    <2>2. \/ cpc'[c] = "halt"
          \/ cpc'[c] \in {"drain", "drain_parked"} /\ isRunning'
          \/ cpc'[c] \in {"broadcast", "join"} /\ ~isRunning'
      BY <1>0, <1>5
         DEF SpawnFails, DrainCheck, Halt, Broadcast, SpuriousDrainWake, TypeOK,
             CallGoto
    <2> QED
      BY <2>1, <2>2
  <1>6. ASSUME NEW c \in Callers,
               StopBegin(c) \/ \E wait \in BOOLEAN : FreeBegin(c, wait)
        PROVE  RunState'
    <2>1. /\ mutexPool' = c /\ c /= NoThread
          /\ \A d \in Callers : d /= c => cpc'[d] = "idle"
          /\ \/ cpc'[c] = "halt"
             \/ cpc'[c] = "drain" /\ isRunning'
      BY <1>0, <1>6, OthersIdle, PoolAssumption
         DEF TypeOK, StopBegin, FreeBegin, TryLockPool, CallGoto
    <2> QED
      BY <2>1
  <1>7. ASSUME NEW c \in Callers, Join(c) PROVE RunState'
    <2>1. /\ cpc' = cpc /\ isRunning' = isRunning /\ cpc[c] = "join"
          /\ mutexPool' = mutexPool /\ mutexPool /= NoThread /\ mutexPool = c
      BY <1>0, <1>7, OthersIdle DEF Join, callState, PoolLock
    <2>2. \A d \in Callers : d /= c => cpc[d] = "idle"
      BY <1>0, <2>1, OthersIdle
    <2> QED
      BY <1>0, <2>1, <2>2
  <1>8. ASSUME NEW w \in Workers, Pop(w) PROVE RunState'
    <2>1. /\ isRunning' = isRunning /\ mutexPool' = mutexPool
          /\ workers' = workers /\ workerArgs' = workerArgs
          /\ \A c \in Callers : \/ cpc'[c] = cpc[c]
                                \/ cpc[c] = "drain_parked" /\ cpc'[c] = "drain"
      BY <1>0, <1>8 DEF Pop, SignalFree, rings, TypeOK
    <2> QED
      BY <1>0, <2>1
  <1>9. CASE UNCHANGED <<cpc, isRunning, mutexPool, workers, workerArgs>>
    BY <1>0, <1>9
  <1> QED
    BY <1>1, <1>2, <1>3, <1>4, <1>5, <1>6, <1>7, <1>8, <1>9
       DEF Next, WorkerStep, CallStep, Client, System, Lock, Test, Park, Check,
           Run, Count, Submit, TaskSubmits, Enqueue, SpuriousWake, callState, rings

-----------------------------------------------------------------------------
(* Busy workers and the tasks they run.                                    *)

LEMMA BusyFinite == /\ IsFiniteSet(Busy)
                    /\ Cardinality(Busy) \in Nat
                    /\ Cardinality(Busy) <= WorkersCount
  <1>1. WorkersCount \in Nat /\ 1 \in Int /\ WorkersCount >= 1
    BY PoolAssumption
  <1>2. IsFiniteSet(Workers) /\ Cardinality(Workers) = WorkersCount
    BY <1>1, FS_Interval DEF Workers
  <1>3. Busy \in SUBSET Workers
    BY DEF Busy
  <1> QED
    BY <1>2, <1>3, FS_Subset, FS_CardinalityType

\* Taking a task makes a worker busy, counting it makes it free, and no other
\* step changes who is busy with what.
BusySame == Busy' = Busy /\ task' = task

LEMMA BusyStep ==
    ASSUME IInv, [Next]_vars
    PROVE  \/ BusySame
           \/ \E w \in Workers : Pop(w) \/ Count(w)
  <1> USE DEF BusySame, Busy
  <1>0. TypeOK
    BY DEF IInv
  <1>1. CASE UNCHANGED vars
    BY <1>1 DEF vars
  <1>2. ASSUME NEW w \in Workers, Lock(w) \/ Test(w) \/ Park(w) \/ Check(w) \/ Run(w)
        PROVE  BusySame
    BY <1>0, <1>2 DEF TypeOK, Lock, Test, Park, Check, Run, Goto
  <1>3. ASSUME NEW c \in Callers, Spawn(c) PROVE BusySame
    BY <1>0, <1>3, NextWorkerFree DEF TypeOK, Spawn, Goto
  <1>4. ASSUME NEW c \in Callers, Join(c) PROVE BusySame
    BY <1>0, <1>4, FirstWorker DEF TypeOK, Join, Goto
  <1>5. ASSUME NEW c \in Callers, Broadcast(c) PROVE BusySame
    BY <1>0, <1>5, WakesParked DEF Broadcast
  <1>6. ASSUME NEW onHeap \in ArgKinds, Enqueue(onHeap) PROVE BusySame
    BY <1>0, <1>6, WakesParked DEF Enqueue
  <1>7. ASSUME NEW w \in Workers, SpuriousWake(w) PROVE BusySame
    BY <1>0, <1>7 DEF TypeOK, SpuriousWake, Goto
  <1>8. CASE UNCHANGED <<wpc, task>>
    BY <1>8
  <1> QED
    BY <1>1, <1>2, <1>3, <1>4, <1>5, <1>6, <1>7, <1>8
       DEF Next, WorkerStep, CallStep, Client, System, StartDone, DrainCheck,
           Halt, Release, Destroy, StartBegin, StopBegin, FreeBegin, Submit,
           TaskSubmits, SpawnFails, SpuriousDrainWake

\* A pop takes the first of the queue, which is not empty.
LEMMA PopStep ==
    ASSUME IInv, NEW w \in Workers, Pop(w)
    PROVE  /\ tasks /= <<>>
           /\ Len(tasks) \in Nat \ {0}
           /\ tasks' = Tail(tasks)
           /\ tasks' \in Seq(TaskIds)
           /\ Len(tasks') = Len(tasks) - 1
           /\ \A i \in 1..Len(tasks) - 1 : tasks'[i] = tasks[i + 1]
           /\ Queued = Queued' \cup {tasks[1]}
           /\ task' = [task EXCEPT ![w] = tasks[1]]
           /\ tasks[1] = tasksStarted
           /\ tasks[1] \in TaskIds
           /\ tasksStarted' = tasksStarted + 1
           /\ w \notin Busy
           /\ Busy' = Busy \cup {w}
  <1>1. /\ TypeOK
        /\ tasks \in Seq(TaskIds)
        /\ tasks /= <<>>
        /\ wpc[w] = "pop"
        /\ wpc' = [wpc EXCEPT ![w] = "run"]
        /\ tasks' = Tail(tasks)
        /\ task' = [task EXCEPT ![w] = Head(tasks)]
        /\ tasksStarted' = tasksStarted + 1
    BY DEF IInv, TypeOK, PopGuarded, PopNeverFails, Pop, Take, Goto
  <1>2. /\ Len(tasks) \in Nat \ {0} /\ Head(tasks) = tasks[1]
        /\ tasks' \in Seq(TaskIds)
        /\ Len(tasks') = Len(tasks) - 1
        /\ \A i \in 1..Len(tasks) - 1 : tasks'[i] = tasks[i + 1]
        /\ DOMAIN tasks = 1..Len(tasks) /\ DOMAIN tasks' = 1..Len(tasks) - 1
    BY <1>1, EmptySeq, HeadTailProperties, LenProperties
  <1>3. tasks[1] = tasksStarted /\ tasks[1] \in TaskIds
    <2>1. 1 \in DOMAIN tasks
      BY <1>2
    <2>2. tasks[1] = tasksStarted + 1 - 1
      BY <2>1 DEF IInv, TaskOrder, TasksInOrder
    <2> QED
      BY <2>1, <2>2, <1>1, <1>2, ElementOfSeq DEF TypeOK
  <1>4. Queued = Queued' \cup {tasks[1]}
    <2>1. ASSUME NEW i \in DOMAIN tasks', TRUE PROVE tasks'[i] \in Queued
      BY <1>2 DEF Queued
    <2>2. ASSUME NEW i \in DOMAIN tasks, i /= 1 PROVE tasks[i] \in Queued'
      <3>1. i - 1 \in DOMAIN tasks' /\ (i - 1) + 1 = i
        BY <1>2, <2>2
      <3>2. tasks'[i - 1] = tasks[i]
        BY <1>2, <3>1
      <3> QED
        BY <3>1, <3>2 DEF Queued
    <2>3. tasks[1] \in Queued
      BY <1>2 DEF Queued
    <2> QED
      BY <2>1, <2>2, <2>3 DEF Queued
  <1>5. w \notin Busy /\ Busy' = Busy \cup {w}
    BY <1>1 DEF Busy, TypeOK
  <1> QED
    BY <1>1, <1>2, <1>3, <1>4, <1>5

\* A Submit puts the next id behind the queue.
LEMMA EnqueueStep ==
    ASSUME IInv, NEW onHeap \in ArgKinds, Enqueue(onHeap)
    PROVE  /\ tasks' \in Seq(TaskIds)
           /\ Len(tasks) \in Nat
           /\ Len(tasks') = Len(tasks) + 1
           /\ \A i \in 1..Len(tasks) : tasks'[i] = tasks[i]
           /\ tasks'[Len(tasks) + 1] = currentTaskId
           /\ Queued' = Queued \cup {currentTaskId}
           /\ currentTaskId \in TaskIds
  <1>1. /\ tasks \in Seq(TaskIds)
        /\ currentTaskId \in TaskIds
        /\ tasks' = Append(tasks, currentTaskId)
    BY PoolAssumption DEF IInv, TypeOK, Enqueue, TaskIds
  <1>2. /\ tasks' \in Seq(TaskIds)
        /\ Len(tasks) \in Nat
        /\ Len(tasks') = Len(tasks) + 1
        /\ \A i \in 1..Len(tasks) : tasks'[i] = tasks[i]
        /\ tasks'[Len(tasks) + 1] = currentTaskId
        /\ DOMAIN tasks = 1..Len(tasks) /\ DOMAIN tasks' = 1..Len(tasks) + 1
    BY <1>1, AppendProperties, LenProperties
  <1>3. Queued' = Queued \cup {currentTaskId}
    BY <1>2 DEF Queued
  <1> QED
    BY <1>1, <1>2, <1>3

-----------------------------------------------------------------------------
LEMMA TaskOrderStep == IInv /\ [Next]_vars => TaskOrder'
  <1> SUFFICES ASSUME IInv, [Next]_vars PROVE TaskOrder'
    OBVIOUS
  <1> USE DEF TaskOrder, TaskAccounting, TasksInOrder
  <1>0. TypeOK /\ PoolLock /\ WorkerRing /\ TaskOrder
    BY DEF IInv
  <1>1. ASSUME NEW w \in Workers, Pop(w) PROVE TaskOrder'
    <2>1. /\ currentTaskId' = currentTaskId /\ tasksScheduled' = tasksScheduled
          /\ tasksFinished' = tasksFinished /\ drainMark' = drainMark
          /\ phase' = phase
      BY <1>1 DEF Pop, ghosts
    <2>2. /\ tasksStarted \in Nat /\ tasksFinished \in Nat /\ tasksScheduled \in Nat
          /\ Len(tasks) \in Nat \ {0} /\ Len(tasks') = Len(tasks) - 1
          /\ DOMAIN tasks = 1..Len(tasks) /\ DOMAIN tasks' = 1..Len(tasks) - 1
          /\ tasksStarted' = tasksStarted + 1
          /\ Busy' = Busy \cup {w} /\ w \notin Busy
      BY <1>0, <1>1, PopStep, LenProperties DEF TypeOK
    <2>3. tasks /= <<>>
      BY <1>1, PopStep
    <2>4. phase /= "freed" /\ tasksScheduled = tasksStarted + Len(tasks)
      BY <1>0, <2>3
    <2>5. tasksStarted' = tasksFinished' + Cardinality(Busy')
      <3>1. tasksStarted = tasksFinished + Cardinality(Busy)
        BY <1>0
      <3>2. Cardinality(Busy') = Cardinality(Busy) + 1
        BY <2>2, BusyFinite, FS_AddElement
      <3> QED
        BY <2>1, <2>2, <3>1, <3>2, BusyFinite
    <2>6. \A i \in DOMAIN tasks' : tasks'[i] = tasksStarted' + i - 1
      <3> TAKE i \in DOMAIN tasks'
      <3>1. i \in 1..Len(tasks) - 1 /\ i + 1 \in DOMAIN tasks
        BY <2>2
      <3>2. tasks'[i] = tasks[i + 1]
        BY <1>1, <3>1, PopStep
      <3>3. tasks[i + 1] = tasksStarted + (i + 1) - 1
        BY <1>0, <3>1
      <3> QED
        BY <2>2, <3>1, <3>2, <3>3
    <2>7. task'[w] = tasksStarted /\ \A v \in Busy : task'[v] = task[v]
      BY <1>0, <1>1, PopStep, SMTT(20) DEF TypeOK, Busy
    <2>8. /\ \A v \in Busy' : task'[v] < tasksStarted'
          /\ \A u, v \in Busy' : task'[u] = task'[v] => u = v
      <3>1. \A v \in Busy : task'[v] < tasksStarted /\ task'[v] \in Int
        BY <1>0, <2>7 DEF TypeOK, Busy
      <3> QED
        BY <1>0, <2>2, <2>7, <3>1
    <2>9. /\ currentTaskId' = tasksScheduled'
          /\ tasksStarted' <= tasksScheduled'
          /\ drainMark' <= tasksStarted'
          /\ tasksScheduled' = tasksStarted' + Len(tasks')
      <3>1. drainMark <= tasksStarted /\ drainMark \in Nat /\ currentTaskId = tasksScheduled
        BY <1>0 DEF TypeOK
      <3> QED
        BY <2>1, <2>2, <2>4, <3>1
    <2> QED
      BY <2>1, <2>4, <2>5, <2>6, <2>8, <2>9
  <1>2. ASSUME NEW w \in Workers, Count(w) PROVE TaskOrder'
    <2>1. /\ UNCHANGED <<tasks, currentTaskId, tasksScheduled, tasksStarted,
                         phase, drainMark>>
          /\ tasksFinished' = tasksFinished + 1
          /\ w \in Busy /\ Busy' = Busy \ {w}
          /\ \A v \in Busy' : task'[v] = task[v]
      BY <1>0, <1>2 DEF TypeOK, Count, Goto, Busy, ghosts
    <2>2. tasksStarted' = tasksFinished' + Cardinality(Busy')
      <3>1. /\ tasksStarted = tasksFinished + Cardinality(Busy)
            /\ tasksFinished \in Nat
        BY <1>0 DEF TypeOK
      <3>2. Cardinality(Busy') = Cardinality(Busy) - 1
        BY <2>1, BusyFinite, FS_RemoveElement
      <3> QED
        BY <2>1, <3>1, <3>2, BusyFinite
    <2> QED
      BY <1>0, <2>1, <2>2
  <1>3. ASSUME NEW onHeap \in ArgKinds, Enqueue(onHeap), BusySame, phase /= "freed"
        PROVE  TaskOrder'
    <2>1. /\ currentTaskId' = currentTaskId + 1
          /\ tasksScheduled' = tasksScheduled + 1
          /\ UNCHANGED <<tasksStarted, tasksFinished, phase, drainMark>>
      BY <1>3 DEF Enqueue, ghosts
    <2>2. \A i \in DOMAIN tasks' : tasks'[i] = tasksStarted + i - 1
      <3> TAKE i \in DOMAIN tasks'
      <3>1. DOMAIN tasks = 1..Len(tasks) /\ DOMAIN tasks' = 1..Len(tasks) + 1
        BY <1>0, <1>3, EnqueueStep, LenProperties DEF TypeOK
      <3>2. CASE i \in 1..Len(tasks)
        BY <1>0, <1>3, <3>1, <3>2, EnqueueStep
      <3>3. CASE i = Len(tasks) + 1
        BY <1>0, <1>3, <3>3, EnqueueStep DEF TypeOK
      <3> QED
        BY <1>3, <3>1, <3>2, <3>3, EnqueueStep
    <2>3. /\ currentTaskId' = tasksScheduled'
          /\ tasksStarted' <= tasksScheduled'
          /\ drainMark' <= tasksStarted'
          /\ tasksScheduled' = tasksStarted' + Len(tasks')
      <3>1. /\ drainMark <= tasksStarted /\ currentTaskId = tasksScheduled
            /\ tasksStarted \in Nat /\ tasksScheduled \in Nat
            /\ tasksScheduled = tasksStarted + Len(tasks)
        BY <1>0, <1>3 DEF TypeOK
      <3>2. Len(tasks) \in Nat /\ Len(tasks') = Len(tasks) + 1
        BY <1>3, EnqueueStep
      <3> QED
        BY <2>1, <3>1, <3>2
    <2> QED
      BY <1>0, <1>3, <2>1, <2>2, <2>3 DEF BusySame
  <1>4. ASSUME NEW c \in Callers, DrainCheck(c), BusySame PROVE TaskOrder'
    <2>1. phase /= "freed"
      BY <1>0, <1>4, OthersIdle DEF DrainCheck, PoolLock
    <2>2. tasks = <<>> => tasksScheduled = tasksStarted
      BY <1>0, <2>1, EmptySeq DEF TypeOK
    <2>3. UNCHANGED <<tasks, tasksScheduled, tasksStarted, tasksFinished,
                      currentTaskId, phase>>
      BY <1>4 DEF DrainCheck, counters
    <2>4. drainMark' <= tasksStarted
      BY <1>0, <1>4, <2>2 DEF DrainCheck, TypeOK
    <2> QED
      BY <1>0, <1>4, <2>3, <2>4 DEF BusySame
  <1>5. ASSUME NEW c \in Callers, Destroy(c), BusySame PROVE TaskOrder'
    BY <1>0, <1>5 DEF Destroy, DiscardQueued, BusySame, counters
  <1>6. ASSUME NEW c \in Callers, NEW wait \in BOOLEAN, FreeBegin(c, wait), BusySame
        PROVE  TaskOrder'
    BY <1>0, <1>6 DEF FreeBegin, TryLockPool, BusySame, counters
  <1>7. CASE /\ BusySame
             /\ UNCHANGED <<tasks, tasksScheduled, tasksStarted, tasksFinished,
                            currentTaskId, phase, drainMark>>
    BY <1>0, <1>7 DEF BusySame
  <1>8. ASSUME NEW w \in Workers, NEW onHeap \in ArgKinds, TaskSubmits(w, onHeap)
        PROVE  phase /= "freed"
    BY <1>0, <1>8 DEF TaskSubmits, PoolLock, WorkerRing, WorkersJoinable
  <1>9. CASE \E w \in Workers : Pop(w) \/ Count(w)
    BY <1>1, <1>2, <1>9
  <1>10. CASE BusySame
    BY <1>3, <1>4, <1>5, <1>6, <1>7, <1>8, <1>10, <1>1, <1>2
       DEF Next, vars, WorkerStep, CallStep, Client, System, Lock, Test, Park,
           Check, Run, Spawn, StartDone, Halt, Broadcast, Join, Release,
           StartBegin, StopBegin, Submit, TaskSubmits, SpawnFails, SpuriousWake,
           SpuriousDrainWake, counters, ghosts
  <1> QED
    BY <1>9, <1>10, BusyStep

-----------------------------------------------------------------------------
LEMMA MemoryStep == IInv /\ [Next]_vars => Memory'
  <1> SUFFICES ASSUME IInv, [Next]_vars PROVE Memory'
    OBVIOUS
  <1> USE DEF Memory, TaskMemory
  <1>0. TypeOK /\ PoolLock /\ WorkerRing /\ TaskOrder /\ Memory
    BY DEF IInv
  <1>1. ASSUME NEW w \in Workers, Pop(w) PROVE Memory'
    <2>1. heapTasks' = heapTasks /\ phase' = phase
      BY <1>1 DEF Pop, heap, ghosts
    <2>2. RunningTasks' \subseteq RunningTasks \cup {tasks[1]}
      <3>1. /\ Busy' = Busy \cup {w}
            /\ task' = [task EXCEPT ![w] = tasks[1]]
            /\ task \in [Workers -> 0..MaxTasks]
        BY <1>0, <1>1, PopStep DEF TypeOK
      <3> QED
        BY <3>1 DEF RunningTasks, Busy
    <2>3. \A t \in heapTasks : t < tasksStarted' \/ t \in Queued'
      <3>1. /\ \A t \in heapTasks : t \in Int
            /\ tasksStarted \in Int /\ tasksStarted' = tasksStarted + 1
            /\ tasks[1] = tasksStarted
            /\ Queued = Queued' \cup {tasks[1]}
        BY <1>0, <1>1, PopStep, SMTT(20) DEF TypeOK, TaskIds
      <3> QED
        BY <1>0, <3>1
    <2>4. phase /= "freed"
      BY <1>0, <1>1, PopStep DEF TaskOrder
    <2> QED
      BY <1>0, <1>1, <2>1, <2>2, <2>3, <2>4, PopStep
  <1>2. ASSUME NEW w \in Workers, Count(w) PROVE Memory'
    <2>1. RunningTasks' \subseteq RunningTasks
      BY <1>0, <1>2 DEF TypeOK, Count, Goto, RunningTasks, Busy
    <2> QED
      BY <1>0, <1>2, <2>1 DEF Count, Queued, heap, ghosts
  <1>3. ASSUME NEW onHeap \in ArgKinds, Enqueue(onHeap), BusySame, phase /= "freed"
        PROVE  Memory'
    <2>1. /\ heapTasks' = heapTasks \cup {currentTaskId}
          /\ tasksStarted' = tasksStarted /\ phase' = phase
      BY <1>3 DEF Enqueue, ghosts
    <2>2. RunningTasks' = RunningTasks
      BY <1>3 DEF BusySame, RunningTasks
    <2> QED
      BY <1>0, <1>3, <2>1, <2>2, EnqueueStep
  <1>4. ASSUME NEW c \in Callers, Destroy(c), BusySame PROVE Memory'
    <2>1. /\ heapTasks' = heapTasks \ Queued /\ tasks' = <<>>
          /\ tasksStarted' = tasksStarted
      BY <1>4 DEF Destroy, DiscardQueued, counters
    <2>2. RunningTasks' = {} /\ Queued' = {}
      <3>1. \A w \in Workers : wpc[w] = "none"
        BY <1>0, <1>4 DEF Destroy, WorkerRing, WorkersJoinable
      <3>2. Busy = {}
        BY <3>1 DEF Busy
      <3> QED
        BY <1>4, <2>1, <3>2 DEF BusySame, RunningTasks, Queued
    <2> QED
      BY <1>0, <2>1, <2>2
  <1>5. ASSUME NEW c \in Callers, NEW wait \in BOOLEAN, FreeBegin(c, wait), BusySame
        PROVE  Memory'
    BY <1>0, <1>5 DEF FreeBegin, BusySame, RunningTasks, Queued, counters, heap
  <1>6. CASE BusySame /\ UNCHANGED <<tasks, tasksStarted, phase, heapTasks>>
    BY <1>0, <1>6 DEF BusySame, RunningTasks, Queued
  <1>7. ASSUME NEW w \in Workers, NEW onHeap \in ArgKinds, TaskSubmits(w, onHeap)
        PROVE  phase /= "freed"
    BY <1>0, <1>7 DEF TaskSubmits, PoolLock, WorkerRing, WorkersJoinable
  <1>8. CASE \E w \in Workers : Pop(w) \/ Count(w)
    BY <1>1, <1>2, <1>8
  <1>9. CASE BusySame
    BY <1>3, <1>4, <1>5, <1>6, <1>7, <1>9, <1>1, <1>2
       DEF Next, vars, WorkerStep, CallStep, Client, System, Lock, Test, Park,
           Check, Run, Spawn, StartDone, DrainCheck, Halt, Broadcast, Join,
           Release, StartBegin, StopBegin, Submit, TaskSubmits, SpawnFails,
           SpuriousWake, SpuriousDrainWake, counters, ghosts, heap
  <1> QED
    BY <1>8, <1>9, BusyStep

-----------------------------------------------------------------------------
LEMMA TypeStep == IInv /\ [Next]_vars => TypeOK'
  <1> SUFFICES ASSUME IInv, [Next]_vars PROVE TypeOK'
    OBVIOUS
  <1> USE PoolAssumption DEF TypeOK
  <1>0. TypeOK /\ TaskOrder
    BY DEF IInv
  <1>1. CASE UNCHANGED vars
    BY <1>0, <1>1 DEF vars, counters, heap, rings, callState, ghosts
  <1>2. ASSUME NEW w \in Workers,
               Lock(w) \/ Test(w) \/ Park(w) \/ Check(w) \/ Run(w) \/ SpuriousWake(w)
        PROVE  TypeOK'
    <2>1. /\ wpc' \in [Workers -> WorkerPC]
          /\ mutexQueue' \in Workers \cup {NoThread}
          /\ spurious' \in 0..MaxSpurious
      BY <1>0, <1>2, SMTT(20) DEF Lock, Test, Park, Check, Run, SpuriousWake, Goto, WorkerPC,
                        InCritical, ghosts
    <2>2. UNCHANGED <<isRunning, counters, tasks, heap, mutexPool, rings, task,
                      callState, phase, drainMark>>
      BY <1>2 DEF Lock, Test, Park, Check, Run, SpuriousWake, ghosts
    <2> QED
      BY <1>0, <2>1, <2>2 DEF counters, heap, rings, callState
  <1>3. ASSUME NEW w \in Workers, Pop(w) PROVE TypeOK'
    <2>1. /\ wpc' \in [Workers -> WorkerPC]
          /\ mutexQueue' \in Workers \cup {NoThread}
          /\ cpc' \in [Callers -> CallerPC]
      BY <1>0, <1>3, SMTT(20) DEF Pop, Goto, SignalFree, WorkerPC, CallerPC
    <2>2. /\ tasks' \in Seq(TaskIds)
          /\ task' \in [Workers -> 0..MaxTasks]
          /\ tasksStarted' \in 0..MaxTasks
      <3>1. /\ tasks' \in Seq(TaskIds)
            /\ task' = [task EXCEPT ![w] = tasks[1]]
            /\ tasks[1] = tasksStarted /\ tasks[1] \in TaskIds
            /\ tasksStarted' = tasksStarted + 1
        BY <1>3, PopStep
      <3>2. tasks[1] \in 0..MaxTasks /\ tasksStarted + 1 \in 0..MaxTasks
        BY <3>1 DEF TaskIds
      <3> QED
        BY <1>0, <3>1, <3>2
    <2>3. UNCHANGED <<isRunning, tasksScheduled, tasksFinished, currentTaskId,
                      heap, mutexPool, rings, op, ghosts>>
      BY <1>3 DEF Pop
    <2> QED
      BY <1>0, <2>1, <2>2, <2>3 DEF heap, rings, ghosts
  <1>4. ASSUME NEW w \in Workers, Count(w) PROVE TypeOK'
    <2>1. wpc' \in [Workers -> WorkerPC] /\ task' \in [Workers -> 0..MaxTasks]
      BY <1>0, <1>4 DEF Count, Goto, WorkerPC, NoTask
    <2>2. tasksFinished < tasksStarted
      <3>1. w \in Busy
        BY <1>4 DEF Count, Busy
      <3>2. Cardinality(Busy) /= 0
        BY <3>1, BusyFinite, FS_EmptySet
      <3> QED
        BY <1>0, <3>2, BusyFinite DEF TaskOrder, TaskAccounting
    <2>3. /\ tasksFinished' = tasksFinished + 1
          /\ UNCHANGED <<isRunning, tasksScheduled, tasksStarted, currentTaskId,
                         tasks, heap, mutexQueue, mutexPool, rings, callState,
                         ghosts>>
      BY <1>4 DEF Count
    <2> QED
      BY <1>0, <2>1, <2>2, <2>3 DEF heap, rings, callState, ghosts
  <1>5. ASSUME NEW onHeap \in ArgKinds, Enqueue(onHeap) PROVE TypeOK'
    <2>1. wpc' \in [Workers -> WorkerPC]
      BY <1>0, <1>5, WakesParked DEF Enqueue
    <2>2. /\ tasks' \in Seq(TaskIds)
          /\ heapTasks' \subseteq TaskIds
          /\ heapArgs' \subseteq heapTasks'
      BY <1>0, <1>5, EnqueueStep DEF Enqueue
    <2>3. currentTaskId' \in 0..MaxTasks /\ tasksScheduled' \in 0..MaxTasks
      BY <1>0, <1>5 DEF Enqueue, TaskOrder
    <2>4. UNCHANGED <<isRunning, tasksStarted, tasksFinished, mutexQueue,
                      mutexPool, rings, task, callState, ghosts>>
      BY <1>5 DEF Enqueue
    <2> QED
      BY <1>0, <2>1, <2>2, <2>3, <2>4 DEF rings, callState, ghosts
  <1>6. ASSUME NEW c \in Callers, Spawn(c) PROVE TypeOK'
    <2>1. /\ wpc' \in [Workers -> WorkerPC]
          /\ workers' \in Seq(Workers)
          /\ workerArgs' \in 0..WorkersCount
      BY <1>0, <1>6, NextWorkerFree, AppendProperties DEF Spawn, Goto, WorkerPC
    <2>2. UNCHANGED <<isRunning, counters, tasks, heap, mutexQueue, mutexPool,
                      task, callState, ghosts>>
      BY <1>6 DEF Spawn
    <2> QED
      BY <1>0, <2>1, <2>2 DEF counters, heap, callState, ghosts
  <1>7. ASSUME NEW c \in Callers, Join(c) PROVE TypeOK'
    <2>1. wpc' \in [Workers -> WorkerPC] /\ workers' \in Seq(Workers)
      BY <1>0, <1>7, FirstWorker DEF Join, Goto, WorkerPC
    <2>2. UNCHANGED <<isRunning, counters, tasks, heap, mutexQueue, mutexPool,
                      workerArgs, task, callState, ghosts>>
      BY <1>7 DEF Join
    <2> QED
      BY <1>0, <2>1, <2>2 DEF counters, heap, callState, ghosts
  <1>8. ASSUME NEW c \in Callers, Broadcast(c) PROVE TypeOK'
    <2>1. wpc' \in [Workers -> WorkerPC] /\ cpc' \in [Callers -> CallerPC]
      BY <1>0, <1>8, WakesParked DEF Broadcast, CallGoto, CallerPC
    <2>2. UNCHANGED <<isRunning, counters, tasks, heap, mutexQueue, mutexPool,
                      rings, task, op, ghosts>>
      BY <1>8 DEF Broadcast
    <2> QED
      BY <1>0, <2>1, <2>2 DEF counters, heap, rings, ghosts
  <1>9. ASSUME NEW c \in Callers, Destroy(c) PROVE TypeOK'
    <2>1. /\ heapTasks' \subseteq TaskIds /\ heapArgs' \subseteq heapTasks'
          /\ tasks' \in Seq(TaskIds) /\ workerArgs' \in 0..WorkersCount
          /\ phase' = "freed"
      BY <1>0, <1>9, EmptySeq DEF Destroy, DiscardQueued
    <2>2. /\ cpc' \in [Callers -> CallerPC] /\ op' \in [Callers -> Calls]
          /\ mutexPool' = NoThread
      BY <1>0, <1>9 DEF Destroy, Return, CallGoto, CallerPC, Calls
    <2>3. UNCHANGED <<isRunning, counters, mutexQueue, workers, wpc, task,
                      drainMark, spurious>>
      BY <1>9 DEF Destroy
    <2> QED
      BY <1>0, <2>1, <2>2, <2>3 DEF counters
  <1>10. ASSUME NEW c \in Callers,
                \/ StartBegin(c) \/ StopBegin(c) \/ StartDone(c) \/ Release(c)
                \/ \E wait \in BOOLEAN : FreeBegin(c, wait)
         PROVE  TypeOK'
    <2>1. /\ cpc' \in [Callers -> CallerPC] /\ op' \in [Callers -> Calls]
          /\ mutexPool' \in Callers \cup {NoThread}
      BY <1>0, <1>10, ZenonT(40) DEF StartBegin, StopBegin, FreeBegin, StartDone, Release,
                         TryLockPool, Return, CallGoto, CallerPC, Calls
    <2>2. isRunning' \in BOOLEAN
      BY <1>0, <1>10 DEF StartBegin, StopBegin, FreeBegin, StartDone, Release
    <2>3. phase' \in {"open", "closing", "freed"}
      BY <1>0, <1>10 DEF StartBegin, StopBegin, FreeBegin, StartDone, Release, ghosts
    <2>4. workerArgs' \in 0..WorkersCount
      BY <1>0, <1>10 DEF StartBegin, StopBegin, FreeBegin, StartDone, Release, rings
    <2>5. UNCHANGED <<counters, tasks, heap, mutexQueue, workers, wpc, task,
                      drainMark, spurious>>
      BY <1>10 DEF StartBegin, StopBegin, FreeBegin, StartDone, Release, rings,
                   ghosts
    <2> QED
      BY <1>0, <2>1, <2>2, <2>3, <2>4, <2>5 DEF counters, heap
  <1>11. ASSUME NEW c \in Callers,
                SpawnFails(c) \/ DrainCheck(c) \/ Halt(c) \/ SpuriousDrainWake(c)
         PROVE  TypeOK'
    <2>1. cpc' \in [Callers -> CallerPC]
      BY <1>0, <1>11, ZenonT(40) DEF SpawnFails, DrainCheck, Halt, SpuriousDrainWake, CallGoto,
                         CallerPC
    <2>2. /\ isRunning' \in BOOLEAN
          /\ workerArgs' \in 0..WorkersCount
          /\ drainMark' \in 0..MaxTasks
          /\ spurious' \in 0..MaxSpurious
      <3>1. CASE SpawnFails(c)
        BY <1>0, <3>1 DEF SpawnFails, ghosts
      <3>2. CASE DrainCheck(c)
        BY <1>0, <3>2 DEF DrainCheck, rings
      <3>3. CASE Halt(c)
        BY <1>0, <3>3 DEF Halt, rings, ghosts
      <3>4. CASE SpuriousDrainWake(c)
        BY <1>0, <3>4 DEF SpuriousDrainWake, rings
      <3> QED
        BY <1>11, <3>1, <3>2, <3>3, <3>4
    <2>3. UNCHANGED <<counters, tasks, heap, mutexQueue, mutexPool, workers, wpc,
                      task, op, phase>>
      BY <1>11 DEF SpawnFails, DrainCheck, Halt, SpuriousDrainWake, rings, ghosts
    <2> QED
      BY <1>0, <2>1, <2>2, <2>3 DEF counters, heap
  <1> QED
    BY <1>1, <1>2, <1>3, <1>4, <1>5, <1>6, <1>7, <1>8, <1>9, <1>10, <1>11
       DEF Next, WorkerStep, CallStep, Client, System, Submit, TaskSubmits

-----------------------------------------------------------------------------
(* Refinement: a step of the pool is a step of the service or invisible.   *)

\* What the service sees.
ServiceVars == <<tasks, RunningTasks, tasksStarted, ServiceMode>>

LEMMA InvisibleStep == UNCHANGED ServiceVars => UNCHANGED Service!vars
  BY DEF ServiceVars, Service!vars

\* The running tasks are the busy workers' and are different, so there are at
\* most as many of them.
LEMMA RunningFewer == TaskOrder /\ TypeOK => Cardinality(RunningTasks) <= Cardinality(Busy)
  <1> SUFFICES ASSUME TaskOrder, TypeOK
               PROVE  Cardinality(RunningTasks) <= Cardinality(Busy)
    OBVIOUS
  <1> DEFINE f == [w \in Busy |-> task[w]]
  <1>1. f \in Surjection(Busy, RunningTasks)
    BY DEF Surjection, RunningTasks
  <1> QED
    BY <1>1, BusyFinite, FS_Surjection

LEMMA PopTakes == ASSUME IInv, NEW w \in Workers, Pop(w) PROVE Service!Take
  <1>0. /\ TypeOK /\ TaskOrder /\ WorkerRing
        /\ tasksStarted \in Nat
        /\ w \notin Busy /\ Busy' = Busy \cup {w}
        /\ tasks /= <<>> /\ Head(tasks) = tasksStarted /\ tasks' = Tail(tasks)
        /\ tasksStarted' = tasksStarted + 1
        /\ task' = [task EXCEPT ![w] = tasksStarted]
        /\ workers' = workers /\ phase' = phase
        /\ \E i \in DOMAIN workers : workers[i] = w
    <2>1. TypeOK /\ TaskOrder /\ WorkerRing /\ tasksStarted \in Nat
      BY DEF IInv, TypeOK
    <2>2. Head(tasks) = tasks[1]
      BY PopStep, HeadTailProperties
    <2>3. workers' = workers /\ phase' = phase /\ wpc[w] = "pop"
      BY DEF Pop, rings, ghosts
    <2>4. \E i \in DOMAIN workers : workers[i] = w
      BY <2>1, <2>3 DEF WorkerRing, WorkersJoinable
    <2> QED
      BY <2>1, <2>2, <2>3, <2>4, PopStep
  <1>1. ServiceMode = "on" /\ ServiceMode' = "on"
    <2>1. phase /= "freed"
      BY <1>0 DEF TaskOrder
    <2>2. workers /= <<>>
      BY <1>0
    <2> QED
      BY <1>0, <2>1, <2>2 DEF ServiceMode
  <1>2. Cardinality(RunningTasks) < WorkersCount
    <2>1. Cardinality(Busy \cup {w}) = Cardinality(Busy) + 1
      BY <1>0, BusyFinite, FS_AddElement
    <2>2. Cardinality(Busy \cup {w}) <= WorkersCount
      <3>1. WorkersCount \in Nat /\ WorkersCount >= 1
        BY PoolAssumption
      <3>2. IsFiniteSet(Workers) /\ Cardinality(Workers) = WorkersCount
        BY <3>1, FS_Interval DEF Workers
      <3>3. Busy \cup {w} \in SUBSET Workers
        BY DEF Busy
      <3> QED
        BY <3>2, <3>3, FS_Subset
    <2>3. IsFiniteSet(RunningTasks) /\ Cardinality(RunningTasks) \in Nat
      <3> DEFINE f == [v \in Busy |-> task[v]]
      <3>1. f \in Surjection(Busy, RunningTasks)
        BY DEF Surjection, RunningTasks
      <3> QED
        BY <3>1, BusyFinite, FS_Surjection, FS_CardinalityType
    <2> QED
      BY <1>0, <2>1, <2>2, <2>3, BusyFinite, RunningFewer, PoolAssumption
  <1>3. RunningTasks' = RunningTasks \cup {tasksStarted}
    BY <1>0, SMTT(20) DEF RunningTasks, TypeOK, Busy
  <1>4. ((0..tasksStarted - 1) \ RunningTasks)' = (0..tasksStarted - 1) \ RunningTasks
    <2>1. \A v \in Busy : task[v] < tasksStarted
      BY <1>0 DEF TaskOrder, TasksInOrder
    <2>2. tasksStarted \notin RunningTasks
      BY <1>0, <2>1 DEF RunningTasks
    <2> QED
      BY <1>0, <1>3, <2>2
  <1>5. RunningTasks' = RunningTasks \cup {Head(tasks)}
    BY <1>0, <1>3
  <1> QED
    <2>1. Service!Cardinality(RunningTasks) = Cardinality(RunningTasks)
      BY DEF Service!Cardinality, Cardinality, Service!IsFiniteSet, IsFiniteSet
    <2> QED
      BY <1>0, <1>1, <1>2, <1>4, <1>5, <2>1, Zenon DEF Service!Take

LEMMA CountFinishes ==
    ASSUME IInv, NEW w \in Workers, Count(w)
    PROVE  task[w] \in TaskIds /\ Service!Finish(task[w])
  <1>0. /\ TypeOK /\ TaskOrder
        /\ tasksStarted \in 0..MaxTasks /\ task[w] \in Nat /\ MaxTasks \in Nat
        /\ w \in Busy /\ Busy' = Busy \ {w}
        /\ \A v \in Busy' : task'[v] = task[v]
        /\ tasks' = tasks /\ tasksStarted' = tasksStarted
        /\ workers' = workers /\ phase' = phase
    BY PoolAssumption DEF IInv, TypeOK, Count, Goto, Busy, rings, ghosts
  <1>1. task[w] < tasksStarted
    BY <1>0 DEF TaskOrder, TasksInOrder
  <1>2. task[w] \in TaskIds /\ task[w] \in RunningTasks
    BY <1>0, <1>1 DEF TaskIds, RunningTasks
  <1>3. RunningTasks' = RunningTasks \ {task[w]}
    BY <1>0 DEF RunningTasks, TaskOrder, TasksInOrder
  <1>4. ((0..tasksStarted - 1) \ RunningTasks)'
           = ((0..tasksStarted - 1) \ RunningTasks) \cup {task[w]}
    BY <1>0, <1>1, <1>3
  <1>5. ServiceMode' = ServiceMode
    BY <1>0 DEF ServiceMode
  <1> QED
    BY <1>0, <1>2, <1>3, <1>4, <1>5 DEF Service!Finish

LEMMA EnqueueAccepts ==
    ASSUME IInv, NEW onHeap \in ArgKinds, Enqueue(onHeap), BusySame, phase /= "freed"
    PROVE  currentTaskId \in TaskIds /\ Service!Accept(currentTaskId)
  <1>0. /\ TypeOK /\ TaskOrder
        /\ currentTaskId \in TaskIds /\ currentTaskId \in Nat
        /\ tasks \in Seq(TaskIds) /\ Len(tasks) \in Nat /\ DOMAIN tasks = 1..Len(tasks)
        /\ tasksStarted \in Nat /\ currentTaskId = tasksStarted + Len(tasks)
        /\ tasks' = Append(tasks, currentTaskId)
        /\ tasksStarted' = tasksStarted
        /\ workers' = workers /\ phase' = phase
    <2>1. TypeOK /\ TaskOrder
      BY DEF IInv
    <2>2. tasks \in Seq(TaskIds) /\ tasksStarted \in Nat /\ currentTaskId \in Nat
      BY <2>1 DEF TypeOK
    <2>3. currentTaskId = tasksStarted + Len(tasks)
      BY <2>1 DEF TaskOrder, TaskAccounting
    <2>4. /\ tasks' = Append(tasks, currentTaskId) /\ tasksStarted' = tasksStarted
          /\ workers' = workers /\ phase' = phase
      BY DEF Enqueue, rings, ghosts
    <2> QED
      BY <2>1, <2>2, <2>3, <2>4, EnqueueStep, LenProperties
  <1>1. currentTaskId \notin Service!Waiting
    <2>1. \A i \in DOMAIN tasks : tasks[i] = tasksStarted + i - 1
      BY <1>0 DEF TaskOrder, TasksInOrder
    <2>2. \A i \in DOMAIN tasks : tasks[i] /= currentTaskId
      BY <1>0, <2>1
    <2> QED
      BY <2>2 DEF Service!Waiting
  <1>2. currentTaskId \notin RunningTasks
    <2>1. \A v \in Busy : task[v] < tasksStarted /\ task[v] \in Nat
      BY <1>0 DEF TaskOrder, TasksInOrder, TypeOK, Busy
    <2> QED
      BY <1>0, <2>1 DEF RunningTasks
  <1>3. currentTaskId \notin (0..tasksStarted - 1) \ RunningTasks
    BY <1>0
  <1>4. RunningTasks' = RunningTasks
    BY DEF BusySame, RunningTasks
  <1>5. ServiceMode' = ServiceMode /\ ServiceMode /= "closed"
    BY <1>0 DEF ServiceMode
  <1> QED
    BY <1>0, <1>1, <1>2, <1>3, <1>4, <1>5 DEF Service!Accept

LEMMA SpawnSwitchesOn ==
    ASSUME IInv, NEW c \in Callers, Spawn(c), BusySame
    PROVE  Service!SwitchOn \/ UNCHANGED ServiceVars
  <1>0. /\ tasks' = tasks /\ tasksStarted' = tasksStarted /\ phase' = phase
        /\ phase /= "freed"
        /\ workers' /= <<>>
    <2>1. mutexPool = c
      BY DEF IInv, PoolLock, Spawn
    <2>2. workers' /= <<>>
      BY NextWorkerFree, AppendProperties DEF IInv, TypeOK, Spawn
    <2> QED
      BY <2>1, <2>2, OthersIdle DEF IInv, Spawn, counters, ghosts
  <1>1. RunningTasks' = RunningTasks
    BY DEF BusySame, RunningTasks
  <1>2. ServiceMode' = "on" /\ ServiceMode \in {"off", "on"}
    BY <1>0 DEF ServiceMode
  <1> QED
    BY <1>0, <1>1, <1>2 DEF Service!SwitchOn, ServiceVars

LEMMA JoinSwitchesOff ==
    ASSUME IInv, NEW c \in Callers, Join(c), BusySame
    PROVE  Service!SwitchOff \/ UNCHANGED ServiceVars
  <1>0. /\ tasks' = tasks /\ tasksStarted' = tasksStarted /\ phase' = phase
        /\ phase /= "freed" /\ workers /= <<>>
        /\ workers' = Tail(workers) /\ wpc[Head(workers)] = "exited"
    BY OthersIdle DEF IInv, PoolLock, Join, counters, ghosts
  <1>1. RunningTasks' = RunningTasks
    BY DEF BusySame, RunningTasks
  <1>2. CASE workers' /= <<>>
    BY <1>0, <1>1, <1>2 DEF ServiceMode, ServiceVars
  <1>3. CASE workers' = <<>>
    <2>1. Len(workers) = 1 /\ Head(workers) = workers[1]
      <3>1. workers \in Seq(Workers) /\ workers /= <<>>
        BY <1>0 DEF IInv, TypeOK
      <3>2. Len(Tail(workers)) = Len(workers) - 1 /\ Head(workers) = workers[1]
        BY <3>1, HeadTailProperties
      <3>3. Len(Tail(workers)) = 0 /\ Len(workers) \in Nat
        BY <1>0, <1>3, <3>1, EmptySeq, LenProperties
      <3> QED
        BY <3>2, <3>3
    <2>2. DOMAIN workers = 1..1
      BY <2>1, LenProperties DEF IInv, TypeOK
    <2>3. \A w \in Workers : wpc[w] \in {"none", "exited"}
      BY <1>0, <2>1, <2>2 DEF IInv, WorkerRing, WorkersJoinable
    <2>4. RunningTasks = {}
      BY <2>3 DEF RunningTasks, Busy
    <2>5. ServiceMode = "on" /\ ServiceMode' = "off"
      BY <1>0, <1>3 DEF ServiceMode
    <2> QED
      BY <1>0, <1>1, <2>4, <2>5 DEF Service!SwitchOff
  <1> QED
    BY <1>2, <1>3

LEMMA DestroyCloses ==
    ASSUME IInv, NEW c \in Callers, Destroy(c), BusySame
    PROVE  Service!Close
  <1>1. phase /= "freed" /\ workers = <<>>
    BY OthersIdle DEF IInv, PoolLock, Destroy
  <1>2. tasks' = <<>> /\ tasksStarted' = tasksStarted /\ phase' = "freed"
    BY DEF Destroy, DiscardQueued, counters
  <1>3. RunningTasks' = RunningTasks
    BY DEF BusySame, RunningTasks
  <1>4. ServiceMode = "off" /\ ServiceMode' = "closed"
    BY <1>1, <1>2 DEF ServiceMode
  <1> QED
    BY <1>2, <1>3, <1>4 DEF Service!Close

LEMMA StepSimulation == IInv /\ [Next]_vars => [Service!Next]_Service!vars
  <1> SUFFICES ASSUME IInv, [Next]_vars
               PROVE  Service!Next \/ UNCHANGED Service!vars
    OBVIOUS
  <1>1. ASSUME NEW w \in Workers, Pop(w) PROVE Service!Next
    BY <1>1, PopTakes DEF Service!Next
  <1>2. ASSUME NEW w \in Workers, Count(w) PROVE Service!Next
    BY <1>2, CountFinishes DEF Service!Next
  <1>3. CASE BusySame
    <2>1. ASSUME NEW onHeap \in ArgKinds, Enqueue(onHeap), phase /= "freed"
          PROVE  Service!Next
      BY <1>3, <2>1, EnqueueAccepts DEF Service!Next
    <2>2. ASSUME NEW c \in Callers, Spawn(c)
          PROVE  Service!Next \/ UNCHANGED Service!vars
      BY <1>3, <2>2, SpawnSwitchesOn, InvisibleStep DEF Service!Next
    <2>3. ASSUME NEW c \in Callers, Join(c)
          PROVE  Service!Next \/ UNCHANGED Service!vars
      BY <1>3, <2>3, JoinSwitchesOff, InvisibleStep DEF Service!Next
    <2>4. ASSUME NEW c \in Callers, Destroy(c) PROVE Service!Next
      BY <1>3, <2>4, DestroyCloses DEF Service!Next
    <2>5. ASSUME NEW c \in Callers, NEW wait \in BOOLEAN, FreeBegin(c, wait)
          PROVE  UNCHANGED Service!vars
      <3>1. /\ tasks' = tasks /\ tasksStarted' = tasksStarted
            /\ workers' = workers /\ phase /= "freed" /\ phase' /= "freed"
        BY <2>5 DEF FreeBegin, TryLockPool, counters, rings
      <3> QED
        BY <1>3, <3>1, InvisibleStep DEF ServiceVars, ServiceMode, BusySame, RunningTasks
    <2>6. CASE UNCHANGED <<tasks, tasksStarted, phase, workers>>
      BY <1>3, <2>6, InvisibleStep DEF ServiceVars, ServiceMode, BusySame, RunningTasks
    <2>7. ASSUME NEW w \in Workers, NEW onHeap \in ArgKinds, TaskSubmits(w, onHeap)
          PROVE  phase /= "freed"
      BY <2>7 DEF IInv, TaskSubmits, PoolLock, WorkerRing, WorkersJoinable
    <2> QED
      BY <2>1, <2>2, <2>3, <2>4, <2>5, <2>6, <2>7, <1>1, <1>2
         DEF Next, vars, WorkerStep, CallStep, Client, System, Lock, Test, Park,
             Check, Run, StartDone, DrainCheck, Halt, Broadcast, Release,
             StartBegin, StopBegin, Submit, TaskSubmits, SpawnFails, SpuriousWake,
             SpuriousDrainWake, counters, ghosts, rings
  <1> QED
    BY <1>1, <1>2, <1>3, BusyStep

LEMMA InitSimulation == Init => Service!Init
  BY DEF Init, Service!Init, RunningTasks, Busy, ServiceMode

-----------------------------------------------------------------------------
(* The theorems.                                                           *)

\* IInv holds in every reachable state: the basis of everything below.
THEOREM Invariance == Spec => []IInv
  <1>1. IInv /\ [Next]_vars => IInv'
    BY TypeStep, QueueLockStep, PoolLockStep, WorkerRingStep, RunStateStep,
       PopGuardedStep, TaskOrderStep, MemoryStep DEF IInv
  <1> QED
    BY InitIInv, <1>1, PTL DEF Spec

\* The variables keep their types: no counter passes the tasks submitted, no
\* argument outlives its task in memory.
THEOREM TypeCorrect == Spec => []TypeOK
  <1>1. IInv => TypeOK
    BY DEF IInv
  <1> QED
    BY <1>1, Invariance, PTL

\* The counters that clients poll always agree with queue and workers.
THEOREM AccountingCorrect == Spec => []TaskAccounting
  <1>1. IInv => TaskAccounting
    BY DEF IInv, TaskOrder
  <1> QED
    BY <1>1, Invariance, PTL

\* Tasks start in submission order, each once, with any number of workers.
THEOREM OrderCorrect == Spec => []TasksInOrder
  <1>1. IInv => TasksInOrder
    BY DEF IInv, TaskOrder
  <1> QED
    BY <1>1, Invariance, PTL

\* The retry after a failed pop (91-94) is dead code.
THEOREM PopCorrect == Spec => []PopNeverFails
  <1>1. IInv => PopNeverFails
    BY DEF IInv, PopGuarded
  <1> QED
    BY <1>1, Invariance, PTL

\* A freed pool has no thread left in it.
THEOREM FreeCorrect == Spec => []NoUseAfterFree
  <1>1. ASSUME IInv, phase = "freed"
        PROVE  /\ \A w \in Workers : wpc[w] = "none"
               /\ \A c \in Callers : cpc[c] = "idle"
               /\ mutexQueue = NoThread
               /\ mutexPool = NoThread
    <2>1. workers = <<>> /\ mutexPool = NoThread
      BY <1>1 DEF IInv, PoolLock
    <2>2. \A w \in Workers : wpc[w] = "none"
      BY <1>1, <2>1 DEF IInv, WorkerRing, WorkersJoinable
    <2>3. mutexQueue = NoThread
      BY <1>1, <2>2 DEF IInv, QueueLock, InCritical, TypeOK
    <2>4. \A c \in Callers : cpc[c] = "idle"
      BY <1>1, <2>1, OthersIdle, PoolAssumption DEF IInv
    <2> QED
      BY <2>1, <2>2, <2>3, <2>4
  <1>2. IInv => NoUseAfterFree
    BY <1>1 DEF NoUseAfterFree
  <1> QED
    BY <1>2, Invariance, PTL

\* Between calls the pool is wholly started or wholly stopped, however the
\* last Start, Stop or failed Start went.
THEOREM StartStopCorrect == Spec => []StartedOrStopped
  <1>1. IInv => StartedOrStopped
    BY DEF IInv, StartedOrStopped, RunState, WorkerRing, WorkersJoinable
  <1> QED
    BY <1>1, Invariance, PTL

\* A thread is in the ring of joinable workers as long as it exists.
THEOREM JoinCorrect == Spec => []WorkersJoinable
  <1>1. IInv => WorkersJoinable
    BY DEF IInv, WorkerRing
  <1> QED
    BY <1>1, Invariance, PTL

\* ThreadPool_Free(pool, true) completes what was scheduled when it had
\* drained the queue.
THEOREM DrainCorrect == Spec => []FreeWaitCompletesTasks
  <1>1. ASSUME IInv, phase = "freed" PROVE tasksFinished >= drainMark
    <2>1. \A w \in Workers : wpc[w] = "none"
      BY <1>1 DEF IInv, PoolLock, WorkerRing, WorkersJoinable
    <2>2. Busy = {}
      BY <2>1 DEF Busy
    <2>3. Cardinality(Busy) = 0
      BY <2>2, FS_EmptySet
    <2> QED
      BY <1>1, <2>3 DEF IInv, TypeOK, TaskOrder, TaskAccounting
  <1>2. IInv => FreeWaitCompletesTasks
    BY <1>1 DEF FreeWaitCompletesTasks
  <1> QED
    BY <1>2, Invariance, PTL

\* Queued and running tasks are allocated, discarded ones are released.
THEOREM MemoryCorrect == Spec => []TaskMemory
  <1>1. IInv => TaskMemory
    BY DEF IInv, Memory
  <1> QED
    BY <1>1, Invariance, PTL

\* The pool implements the abstract service: everything it does, with any
\* number of clients and workers, is explained by a first-in first-out line
\* from which at most WorkersCount tasks are taken at a time.
THEOREM Refinement == Spec => ImplementsService
  BY InitSimulation, StepSimulation, Invariance, PTL
     DEF Spec, ImplementsService, Service!Spec
=============================================================================
