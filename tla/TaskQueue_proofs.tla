-------------------------- MODULE TaskQueue_proofs --------------------------
(***************************************************************************)
(* Proofs about TaskQueue, for any number of tasks, workers, clients and   *)
(* calls of Start() and Stop().  IInv of module TaskQueue is the inductive *)
(* invariant; there is one lemma per conjunct of it, and in the lemma one  *)
(* step per action the conjunct depends on.                                *)
(***************************************************************************)
EXTENDS TaskQueue, FiniteSetTheorems, TLAPS

USE ThreadCountAssumption, BoundAssumption, NoTaskAssumption, OwnerAssumption

-----------------------------------------------------------------------------
(* The queue                                                               *)

\* What PushItem makes of the queue.
LEMMA QueueAppend ==
  ASSUME NEW q \in Seq(Tasks), NEW t \in Tasks
  PROVE  /\ Append(q, t) \in Seq(Tasks) /\ Len(Append(q, t)) = Len(q) + 1
         /\ \A i \in 1 .. Len(q) : Append(q, t)[i] = q[i]
         /\ Append(q, t)[Len(q) + 1] = t
         /\ Append(q, t) # << >>
  OBVIOUS

\* What PopItem makes of the queue.
LEMMA QueueTail ==
  ASSUME NEW q \in Seq(Tasks), q # << >>
  PROVE  /\ Tail(q) \in Seq(Tasks) /\ Len(q) > 0 /\ Len(Tail(q)) = Len(q) - 1
         /\ \A i \in 1 .. Len(q) - 1 : Tail(q)[i] = q[i + 1]
         /\ Head(q) = q[1] /\ Head(q) \in Tasks
  OBVIOUS

\* An empty queue holds no task.
LEMMA QueueEmpty == ASSUME queue \in Seq(Tasks), queue = << >>, NEW t PROVE ~InQueue(t)
  BY DEF InQueue

\* No worker sleeps, so pthread_cond_signal wakes nobody.
LEMMA NobodyWakes ==
  ASSUME TypeOK, WorkersNeverSleep
  PROVE  /\ \A c : Signal(c, workerPC) => condition' = c /\ workerPC' = workerPC
         /\ \A w \in Workers : \A c : Signal(c, [workerPC EXCEPT ![w] = "run"]) =>
              condition' = c /\ workerPC' = [workerPC EXCEPT ![w] = "run"]
<1>1. ASSUME NEW wpc, \A v \in Workers : wpc[v] # "sleep"
      PROVE  Signalled(wpc) = {wpc}
  <2>1. {v \in Workers : wpc[v] = "sleep"} = {}
    BY <1>1
  <2> QED BY <2>1, Zenon DEF Signalled
<1>2. ASSUME NEW w \in Workers, NEW wpc, wpc = [workerPC EXCEPT ![w] = "run"]
      PROVE  Signalled(wpc) = {wpc}
  <2>1. workerPC \in [Workers -> WorkerPCs]
    BY DEF TypeOK
  <2>2. \A v \in Workers : wpc[v] # "sleep"
    BY <1>2, <2>1 DEF WorkersNeverSleep
  <2> QED BY <1>1, <2>2
<1>3. Signalled(workerPC) = {workerPC}
  BY <1>1 DEF WorkersNeverSleep
<1> QED BY <1>2, <1>3 DEF Signal

-----------------------------------------------------------------------------
\* The constructor establishes the invariant.
LEMMA InitInv == Init => IInv
<1> SUFFICES ASSUME Init PROVE IInv
  OBVIOUS
<1> USE DEF Init
<1>1. TypeOK
  BY DEF TypeOK, TaskQueueCondition, WorkerPCs, Unrun
<1>2. LockOwned
  BY DEF LockOwned, Workers
<1>3. EachTaskOnce
  BY DEF EachTaskOnce, InQueue, Running
<1>4. TaskCarried /\ WaitMeansDone
  BY DEF TaskCarried, WaitMeansDone, Unrun
<1>5. WorkersNeverSleep /\ StartOrder
  BY DEF WorkersNeverSleep, StartOrder, BeforeFirst
<1>6. EmptyMeansCancel
  BY DEF EmptyMeansCancel
<1>7. StopProgress
  BY DEF StopProgress
<1> QED BY <1>1, <1>2, <1>3, <1>4, <1>5, <1>6, <1>7 DEF IInv

-----------------------------------------------------------------------------
\* A worker's step touches the lock, the queue, the workers and the tasks.
LEMMA WorkerTypes ==
  ASSUME TypeOK, TaskCarried, WorkersNeverSleep, NEW w \in Workers, Worker(w)
  PROVE  TypeOK'
<1> USE DEF TypeOK, WorkerPCs, TaskQueueCondition, ownerVars
<1>1. CASE WorkerBegin(w) \/ WorkerExit(w)
  BY <1>1 DEF WorkerBegin, WorkerExit, queueVars, taskVars
<1>2. CASE WorkerLock(w) \/ WorkerBreak(w) \/ WorkerRetry(w)
  BY <1>2 DEF WorkerLock, WorkerBreak, WorkerRetry, taskVars
<1>3. CASE WorkerPop(w)
  BY <1>3, QueueTail DEF WorkerPop, taskVars
<1>4. CASE WorkerSignal(w)
  <2>1. condition' = ConditionStatus(queue) /\ workerPC' = [workerPC EXCEPT ![w] = "run"]
    BY <1>4, NobodyWakes DEF WorkerSignal
  <2> QED BY <1>4, <2>1 DEF WorkerSignal, ConditionStatus, taskVars
<1>5. CASE WorkerMain(w)
  BY <1>5 DEF WorkerMain, queueVars, TaskCarried
<1>6. CASE WorkerUnlock(w)
  BY <1>6 DEF WorkerUnlock, queueVars
<1> QED BY <1>1, <1>2, <1>3, <1>4, <1>5, <1>6 DEF Worker

\* The owner's steps touch everything but the tasks.
LEMMA OwnerTypes ==
  ASSUME TypeOK, WorkersNeverSleep, Start \/ Stop \/ Destroy
  PROVE  TypeOK'
<1> USE DEF TypeOK, WorkerPCs, TaskQueueCondition, taskVars
<1>1. CASE StartRead \/ StartWrite \/ StartReturn
  BY <1>1 DEF StartRead, StartWrite, StartReturn, ConditionStatus, ResolvedThreadCount, queueVars, workerVars
<1>2. CASE StartThread
  <2>1. PICK created \in BOOLEAN :
          /\ workerPC' = [workerPC EXCEPT ![threads + 1] = IF created THEN "begin" ELSE "failed"]
          /\ handle' = [handle EXCEPT ![threads + 1] = created]
    BY <1>2 DEF StartThread
  <2>2. workerPC' \in [Workers -> WorkerPCs] /\ handle' \in [Workers -> BOOLEAN]
    BY <2>1
  <2> QED BY <1>2, <2>2 DEF StartThread, queueVars
<1>3. ASSUME NEW wait \in BOOLEAN, StopEarly(wait) PROVE TypeOK'
  BY <1>3 DEF StopEarly, Owed, queueVars, workerVars
<1>4. ASSUME NEW wait \in BOOLEAN, StopSignal(wait) PROVE TypeOK'
  <2>1. condition' = "Cancel" /\ workerPC' = workerPC
    BY <1>4, NobodyWakes DEF StopSignal
  <2> QED BY <1>4, <2>1 DEF StopSignal, Owed
<1>5. CASE StopWait
  <2>1. ThreadStatus(cursor) \in {"Stopped", "Started", "Initialized"}
    BY DEF ThreadStatus
  <2> QED BY <1>5, <2>1 DEF StopWait, queueVars, workerVars
<1>6. CASE StopJoin
  <2>1. handle' \in [Workers -> BOOLEAN]
    BY <1>6 DEF StopJoin
  <2> QED BY <1>6, <2>1 DEF StopJoin, queueVars
<1>8. CASE StopReturn
  BY <1>8 DEF StopReturn, queueVars, workerVars
<1>7. CASE Destroy
  <2>1. condition' \in TaskQueueCondition /\ workerPC' = workerPC
    BY <1>7, NobodyWakes DEF Destroy
  <2> QED BY <1>7, <2>1 DEF Destroy
<1> QED BY <1>1, <1>2, <1>3, <1>4, <1>5, <1>6, <1>7, <1>8 DEF Start, Stop

\* Every step preserves the types.
LEMMA TypeInductive ==
  TypeOK /\ TaskCarried /\ WorkersNeverSleep /\ [Next]_vars => TypeOK'
<1> SUFFICES ASSUME TypeOK, TaskCarried, WorkersNeverSleep, [Next]_vars PROVE TypeOK'
  OBVIOUS
<1>1. ASSUME NEW t \in Tasks, PushTask(t) PROVE TypeOK'
  <2> USE DEF TypeOK, TaskQueueCondition, workerVars, taskVars, ownerVars
  <2>1. CASE PushLock(t)
    BY <2>1 DEF PushLock
  <2>3. CASE PushItem(t)
    BY <2>3, QueueAppend DEF PushItem
  <2>2. CASE PushSignal(t)
    <3>1. condition' = "Ready" /\ workerPC' = workerPC
      BY <2>2, NobodyWakes DEF PushSignal
    <3> QED BY <2>2, <3>1 DEF PushSignal
  <2> QED BY <1>1, <2>1, <2>2, <2>3 DEF PushTask
<1>2. ASSUME NEW c \in Waiters, Client(c) PROVE TypeOK'
  <2> USE DEF TypeOK, queueVars, workerVars, ownerVars
  <2>1. ASSUME NEW t \in Tasks, TaskWait(c, t) PROVE TypeOK'
    BY <2>1 DEF TaskWait
  <2>4. ASSUME NEW t \in Tasks, TaskTryLock(c, t) PROVE TypeOK'
    BY <2>4 DEF TaskTryLock
  <2>2. CASE TaskLock(c)
    BY <2>2 DEF TaskLock
  <2>3. CASE TaskReturn(c)
    BY <2>3 DEF TaskReturn, TaskCarried
  <2> QED BY <1>2, <2>1, <2>2, <2>3, <2>4 DEF Client
<1>3. CASE UNCHANGED vars
  BY <1>3 DEF TypeOK, vars, queueVars, workerVars, taskVars, ownerVars
<1> QED BY <1>1, <1>2, <1>3, WorkerTypes, OwnerTypes DEF Next

-----------------------------------------------------------------------------
(* The lock                                                                *)

\* Workers, pushers and Free are told apart.
LEMMA Distinct ==
  /\ \A w \in Workers : w \in Int /\ w \notin Tasks /\ w # Free
  /\ \A t \in Tasks : t # Free
  BY DEF Workers

\* Critical sections are entered by finding the mutex free and left by freeing it.
LEMMA LockInductive ==
  TypeOK /\ WorkersNeverSleep /\ StartOrder /\ LockOwned /\ [Next]_vars => LockOwned'
<1> SUFFICES ASSUME TypeOK, WorkersNeverSleep, StartOrder, LockOwned, [Next]_vars PROVE LockOwned'
  OBVIOUS
<1>0. /\ workerPC \in [Workers -> WorkerPCs]
      /\ pushPC \in [Tasks -> {"new", "push", "signal", "done"}]
  BY DEF TypeOK
<1> USE Distinct, <1>0 DEF LockOwned
<1>1. ASSUME NEW t \in Tasks, PushTask(t) PROVE LockOwned'
  <2>1. CASE PushLock(t)
    BY <2>1 DEF PushLock, workerVars
  <2>2. CASE PushItem(t)
    BY <2>2 DEF PushItem, workerVars
  <2>3. CASE PushSignal(t)
    <3>1. workerPC' = workerPC
      BY <2>3, NobodyWakes DEF PushSignal
    <3> QED BY <2>3, <3>1 DEF PushSignal
  <2> QED BY <1>1, <2>1, <2>2, <2>3 DEF PushTask
<1>2. ASSUME NEW w \in Workers, Worker(w) PROVE LockOwned'
  <2>1. CASE WorkerLock(w)
    BY <2>1 DEF WorkerLock
  <2>2. CASE WorkerPop(w)
    BY <2>2 DEF WorkerPop
  <2>3. CASE WorkerSignal(w)
    <3>1. workerPC' = [workerPC EXCEPT ![w] = "run"]
      BY <2>3, NobodyWakes DEF WorkerSignal
    <3> QED BY <2>3, <3>1 DEF WorkerSignal
  <2>4. CASE WorkerBreak(w) \/ WorkerRetry(w)
    BY <2>4 DEF WorkerBreak, WorkerRetry
  <2>5. CASE WorkerBegin(w) \/ WorkerMain(w) \/ WorkerUnlock(w) \/ WorkerExit(w)
    BY <2>5 DEF WorkerBegin, WorkerMain, WorkerUnlock, WorkerExit, queueVars
  <2> QED BY <1>2, <2>1, <2>2, <2>3, <2>4, <2>5 DEF Worker
<1>3. CASE StartThread
  <2>1. CASE threads + 1 \in Workers
    <3>1. workerPC[threads + 1] = "absent"
      BY <2>1 DEF StartOrder, TypeOK
    <3> QED BY <1>3, <2>1, <3>1 DEF StartThread, queueVars
  <2>2. CASE threads + 1 \notin Workers
    BY <1>3, <2>2 DEF StartThread, queueVars
  <2> QED BY <2>1, <2>2
<1>4. CASE StartRead \/ StartWrite \/ StartReturn
  BY <1>4 DEF StartRead, StartWrite, StartReturn, queueVars, workerVars
<1>5. CASE Stop \/ Destroy
  <2>1. workerPC' = workerPC /\ holder' = holder /\ pushPC' = pushPC
    BY <1>5, NobodyWakes DEF Stop, Destroy, StopEarly, StopSignal, StopWait, StopJoin, StopReturn,
                             queueVars, workerVars
  <2> QED BY <2>1
<1>6. ASSUME NEW c \in Waiters, Client(c) PROVE LockOwned'
  BY <1>6 DEF Client, TaskWait, TaskTryLock, TaskLock, TaskReturn, queueVars, workerVars
<1>7. CASE UNCHANGED vars
  BY <1>7 DEF vars, queueVars, workerVars
<1> QED BY <1>1, <1>2, <1>3, <1>4, <1>5, <1>6, <1>7 DEF Next, Start

-----------------------------------------------------------------------------
(* The tasks                                                               *)

\* Only PushItem, PopItem and the end of Main() move a task.
LEMMA TasksStay ==
  ASSUME EachTaskOnce, UNCHANGED <<queue, done>>,
         \A t \in Tasks : pushPC'[t] \in {"signal", "done"} <=> pushPC[t] \in {"signal", "done"},
         \A w \in Workers : workerPC'[w] \in {"signal", "run"} <=> workerPC[w] \in {"signal", "run"},
         \A w \in Workers : workerPC[w] \in {"signal", "run"} => workerTask'[w] = workerTask[w]
  PROVE  EachTaskOnce'
  BY DEF EachTaskOnce, InQueue, Running

\* PushItem: a task that was nowhere is at the end of the queue.
LEMMA PushMoves ==
  ASSUME TypeOK, EachTaskOnce, NEW t \in Tasks, PushItem(t)
  PROVE  EachTaskOnce'
<1>1. ~InQueue(t) /\ t \notin done /\ \A w \in Workers : Running(w) => workerTask[w] # t
  BY DEF EachTaskOnce, PushItem
<1>2. \A u : InQueue(u)' <=> InQueue(u) \/ u = t
  BY QueueAppend DEF InQueue, PushItem, TypeOK
<1>3. \A i, j \in 1 .. Len(queue') : queue'[i] = queue'[j] => i = j
  BY <1>1, QueueAppend DEF EachTaskOnce, InQueue, PushItem, TypeOK
<1>4. /\ UNCHANGED <<workerPC, workerTask, done>>
      /\ \A u \in Tasks : pushPC'[u] \in {"signal", "done"} <=> pushPC[u] \in {"signal", "done"} \/ u = t
  BY DEF PushItem, TypeOK, workerVars, taskVars
<1> QED BY <1>1, <1>2, <1>3, <1>4 DEF EachTaskOnce, Running

\* WorkerPop: the first task of the queue is in the worker's hands.
LEMMA PopMoves ==
  ASSUME TypeOK, EachTaskOnce, NEW w \in Workers, WorkerPop(w)
  PROVE  EachTaskOnce'
<1>0. \A i, j \in 1 .. Len(queue) : queue[i] = queue[j] => i = j
  BY DEF EachTaskOnce
<1>1. PICK t \in Tasks : t = Head(queue) /\ t = queue[1] /\ Len(queue) > 0 /\ InQueue(t)
  BY QueueTail DEF TypeOK, WorkerPop, InQueue
<1>2. \A u : InQueue(u)' <=> InQueue(u) /\ u # t
  <2>1. queue \in Seq(Tasks) /\ queue # << >> /\ queue' = Tail(queue)
    BY DEF TypeOK, WorkerPop
  <2>2. \A u : InQueue(u)' => InQueue(u)
    BY <2>1, QueueTail DEF InQueue
  <2>3. ~InQueue(t)'
    BY <1>0, <1>1, <2>1, QueueTail DEF InQueue
  <2>4. \A u : InQueue(u) /\ u # t => InQueue(u)'
    <3> SUFFICES ASSUME NEW u, NEW i \in 1 .. Len(queue), queue[i] = u, u # t PROVE InQueue(u)'
      BY DEF InQueue
    <3>1. i - 1 \in 1 .. Len(queue') /\ queue'[i - 1] = u
      BY <1>1, <2>1, QueueTail
    <3> QED BY <3>1 DEF InQueue
  <2> QED BY <2>2, <2>3, <2>4
<1>3. \A i, j \in 1 .. Len(queue') : queue'[i] = queue'[j] => i = j
  <2> SUFFICES ASSUME NEW i \in 1 .. Len(queue'), NEW j \in 1 .. Len(queue'), queue'[i] = queue'[j]
               PROVE  i = j
    OBVIOUS
  <2>1. /\ i + 1 \in 1 .. Len(queue) /\ j + 1 \in 1 .. Len(queue)
        /\ queue'[i] = queue[i + 1] /\ queue'[j] = queue[j + 1]
    BY QueueTail DEF TypeOK, WorkerPop
  <2>2. i + 1 = j + 1
    BY <1>0, <2>1
  <2>3. i \in Int /\ j \in Int
    OBVIOUS
  <2> QED BY <2>2, <2>3
<1>4. /\ workerPC[w] = "check" /\ workerPC'[w] = "signal" /\ workerTask'[w] = t
      /\ \A v \in Workers : v # w => workerPC'[v] = workerPC[v] /\ workerTask'[v] = workerTask[v]
      /\ UNCHANGED <<pushPC, done>>
  BY <1>1 DEF WorkerPop, TypeOK, taskVars
<1>5. \A u \in Tasks : InQueue(u) \/ (\E v \in Workers : Running(v) /\ workerTask[v] = u) <=>
                       InQueue(u)' \/ (\E v \in Workers : Running(v)' /\ workerTask'[v] = u)
  BY <1>1, <1>2, <1>4 DEF Running
<1>6. \A v \in Workers : Running(v) => workerTask[v] # t
  BY <1>1 DEF EachTaskOnce
<1>7. t \notin done
  BY <1>1 DEF EachTaskOnce
<1> QED BY <1>2, <1>3, <1>4, <1>5, <1>6, <1>7 DEF EachTaskOnce, Running

\* WorkerMain: the task in the worker's hands is done.
LEMMA MainMoves ==
  ASSUME TypeOK, EachTaskOnce, TaskCarried, NEW w \in Workers, WorkerMain(w)
  PROVE  EachTaskOnce'
<1>1. /\ workerPC[w] = "run" /\ workerPC'[w] = "unlock"
      /\ \A v \in Workers : v # w => workerPC'[v] = workerPC[v]
      /\ done' = done \cup {workerTask[w]}
      /\ UNCHANGED <<queue, pushPC, workerTask>>
  BY DEF WorkerMain, TypeOK, queueVars
<1>2. Running(w) /\ ~Running(w)' /\ \A v \in Workers : v # w => (Running(v)' <=> Running(v))
  BY <1>1 DEF Running
<1>3. \A u : InQueue(u)' <=> InQueue(u)
  BY <1>1 DEF InQueue
<1> QED BY <1>1, <1>2, <1>3 DEF EachTaskOnce

\* The steps of a worker other than PopItem and the end of Main() keep the task.
LEMMA WorkerKeeps ==
  ASSUME TypeOK, WorkersNeverSleep, EachTaskOnce, NEW w \in Workers, Worker(w),
         ~WorkerPop(w), ~WorkerMain(w)
  PROVE  EachTaskOnce'
<1> USE DEF TypeOK
<1>1. CASE WorkerSignal(w)
  <2>1. workerPC' = [workerPC EXCEPT ![w] = "run"]
    BY <1>1, NobodyWakes DEF WorkerSignal
  <2> QED BY <1>1, <2>1, TasksStay DEF WorkerSignal, taskVars
<1>2. CASE WorkerBegin(w) \/ WorkerUnlock(w) \/ WorkerExit(w)
  BY <1>2, TasksStay DEF WorkerBegin, WorkerUnlock, WorkerExit, queueVars, taskVars
<1>3. CASE WorkerLock(w) \/ WorkerBreak(w) \/ WorkerRetry(w)
  BY <1>3, TasksStay DEF WorkerLock, WorkerBreak, WorkerRetry, taskVars
<1> QED BY <1>1, <1>2, <1>3 DEF Worker

\* What Start() leaves alone: a new Thread has the place of an absent worker.
LEMMA StartKeeps ==
  ASSUME TypeOK, StartOrder, Start
  PROVE  /\ UNCHANGED <<pushPC, queue, holder, workerTask, taskVars>>
         /\ \A w \in Workers : \/ workerPC'[w] = workerPC[w]
                               \/ workerPC[w] = "absent" /\ workerPC'[w] \in {"begin", "failed"}
                                  /\ w = threads + 1 /\ threads' = w /\ ownerPC = "spawning"
<1>1. CASE StartThread
  <2>1. workerPC \in [Workers -> WorkerPCs] /\ threads \in Nat
    BY DEF TypeOK
  <2>2. threads + 1 \in Workers => workerPC[threads + 1] = "absent"
    BY <2>1 DEF StartOrder
  <2> QED BY <1>1, <2>1, <2>2 DEF StartThread, queueVars
<1>2. CASE StartRead \/ StartWrite \/ StartReturn
  BY <1>2 DEF StartRead, StartWrite, StartReturn, queueVars, workerVars
<1> QED BY <1>1, <1>2 DEF Start

\* What Stop() and the destructor leave alone.
LEMMA StopKeeps ==
  ASSUME TypeOK, WorkersNeverSleep, Stop \/ Destroy
  PROVE  UNCHANGED <<pushPC, queue, holder, workerPC, workerTask, taskVars>>
  BY NobodyWakes DEF Stop, Destroy, StopEarly, StopSignal, StopWait, StopJoin, StopReturn,
                     queueVars, workerVars

\* What a waiting client leaves alone.
LEMMA ClientKeeps ==
  ASSUME NEW c \in Waiters, Client(c)
  PROVE  UNCHANGED <<queueVars, pushPC, workerVars, done, ownerVars>>
  BY DEF Client, TaskWait, TaskTryLock, TaskLock, TaskReturn

\* A pushed task stays in exactly one place.
LEMMA TasksInductive == IInv /\ [Next]_vars => EachTaskOnce'
<1> SUFFICES ASSUME IInv, [Next]_vars PROVE EachTaskOnce'
  OBVIOUS
<1> USE DEF IInv
<1>1. ASSUME NEW t \in Tasks, PushTask(t) PROVE EachTaskOnce'
  <2>1. CASE PushLock(t)
    BY <2>1, TasksStay DEF PushLock, TypeOK, workerVars, taskVars
  <2>2. CASE PushSignal(t)
    <3>1. workerPC' = workerPC
      BY <2>2, NobodyWakes DEF PushSignal
    <3> QED BY <2>2, <3>1, TasksStay DEF PushSignal, TypeOK, taskVars
  <2> QED BY <1>1, <2>1, <2>2, PushMoves DEF PushTask
<1>2. ASSUME NEW w \in Workers, Worker(w) PROVE EachTaskOnce'
  BY <1>2, WorkerKeeps, PopMoves, MainMoves
<1>3. CASE Start
  BY <1>3, StartKeeps, TasksStay DEF taskVars
<1>4. CASE Stop \/ Destroy
  BY <1>4, StopKeeps, TasksStay DEF taskVars
<1>5. ASSUME NEW c \in Waiters, Client(c) PROVE EachTaskOnce'
  BY <1>5, ClientKeeps, TasksStay DEF queueVars, workerVars
<1>6. CASE UNCHANGED vars
  BY <1>6, TasksStay DEF vars, queueVars, workerVars, taskVars
<1> QED BY <1>1, <1>2, <1>3, <1>4, <1>5, <1>6 DEF Next

-----------------------------------------------------------------------------
(* The clients                                                             *)

\* A task's mutex is unlocked by the worker that has run it, and from then on
\* only passed between clients.
LEMMA WaitInductive == IInv /\ [Next]_vars => (TaskCarried /\ WaitMeansDone)'
<1> SUFFICES ASSUME IInv, [Next]_vars PROVE (TaskCarried /\ WaitMeansDone)'
  OBVIOUS
<1> USE DEF IInv, TypeOK, TaskCarried, WaitMeansDone
<1>1. ASSUME NEW t \in Tasks, PushTask(t) PROVE (TaskCarried /\ WaitMeansDone)'
  <2>1. UNCHANGED <<workerPC, workerTask, taskVars>>
    BY <1>1, NobodyWakes DEF PushTask, PushLock, PushItem, PushSignal, workerVars
  <2> QED BY <2>1 DEF taskVars
<1>2. ASSUME NEW w \in Workers, Worker(w) PROVE (TaskCarried /\ WaitMeansDone)'
  <2>1. CASE WorkerPop(w)
    BY <2>1, QueueTail DEF WorkerPop, taskVars
  <2>2. CASE WorkerSignal(w)
    <3>1. workerPC' = [workerPC EXCEPT ![w] = "run"]
      BY <2>2, NobodyWakes DEF WorkerSignal
    <3> QED BY <2>2, <3>1 DEF WorkerSignal, taskVars
  <2>3. CASE WorkerMain(w)
    BY <2>3 DEF WorkerMain
  <2>4. CASE WorkerUnlock(w)
    BY <2>4 DEF WorkerUnlock
  <2>5. CASE WorkerBegin(w) \/ WorkerExit(w)
    BY <2>5 DEF WorkerBegin, WorkerExit, taskVars
  <2>6. CASE WorkerLock(w) \/ WorkerBreak(w) \/ WorkerRetry(w)
    BY <2>6 DEF WorkerLock, WorkerBreak, WorkerRetry, taskVars
  <2> QED BY <1>2, <2>1, <2>2, <2>3, <2>4, <2>5, <2>6 DEF Worker
<1>3. CASE Start
  BY <1>3, StartKeeps DEF taskVars
<1>4. CASE Stop \/ Destroy
  BY <1>4, StopKeeps DEF taskVars
<1>5. ASSUME NEW c \in Waiters, Client(c) PROVE (TaskCarried /\ WaitMeansDone)'
  <2>1. ASSUME NEW t \in Tasks, TaskWait(c, t) PROVE (TaskCarried /\ WaitMeansDone)'
    BY <2>1 DEF TaskWait, workerVars
  <2>2. ASSUME NEW t \in Tasks, TaskTryLock(c, t) PROVE (TaskCarried /\ WaitMeansDone)'
    BY <2>2 DEF TaskTryLock, workerVars, Unrun
  <2>3. CASE TaskLock(c)
    BY <2>3 DEF TaskLock, workerVars, Unrun
  <2>4. CASE TaskReturn(c)
    BY <2>4 DEF TaskReturn, workerVars, Unrun
  <2> QED BY <1>5, <2>1, <2>2, <2>3, <2>4 DEF Client
<1>6. CASE UNCHANGED vars
  BY <1>6 DEF vars, workerVars, taskVars
<1> QED BY <1>1, <1>2, <1>3, <1>4, <1>5, <1>6 DEF Next

-----------------------------------------------------------------------------
(* The condition                                                           *)

\* What PushTask leaves alone, and the condition it leaves behind.
LEMMA PushKeeps ==
  ASSUME TypeOK, WorkersNeverSleep, NEW t \in Tasks, PushTask(t)
  PROVE  /\ UNCHANGED <<workerPC, workerTask, ownerVars>>
         /\ condition' = condition \/ condition' = "Ready"
  BY NobodyWakes DEF PushTask, PushLock, PushItem, PushSignal, workerVars

\* A worker's step moves nobody else, and does not put it to sleep.
LEMMA WorkerMoves ==
  ASSUME TypeOK, WorkersNeverSleep, NEW w \in Workers, Worker(w)
  PROVE  /\ \E label \in WorkerPCs \ {"absent", "sleep"} : workerPC' = [workerPC EXCEPT ![w] = label]
         /\ Live(w) \/ workerPC[w] = "leaving"
         /\ UNCHANGED ownerVars
<1> USE DEF WorkerPCs, Live
<1>1. CASE WorkerSignal(w)
  BY <1>1, NobodyWakes DEF WorkerSignal
<1>2. CASE WorkerRetry(w)
  BY <1>2 DEF WorkerRetry, WorkersNeverSleep
<1>3. CASE WorkerBegin(w) \/ WorkerLock(w) \/ WorkerPop(w) \/ WorkerMain(w)
  BY <1>3 DEF WorkerBegin, WorkerLock, WorkerPop, WorkerMain
<1>4. CASE WorkerUnlock(w) \/ WorkerBreak(w) \/ WorkerExit(w)
  BY <1>4 DEF WorkerUnlock, WorkerBreak, WorkerExit
<1> QED BY <1>1, <1>2, <1>3, <1>4 DEF Worker

\* No worker sees Waiting.
LEMMA StartInductive == IInv /\ [Next]_vars => (WorkersNeverSleep /\ StartOrder)'
<1> SUFFICES ASSUME IInv, [Next]_vars PROVE (WorkersNeverSleep /\ StartOrder)'
  OBVIOUS
<1> USE DEF IInv, TypeOK, WorkersNeverSleep, StartOrder, BeforeFirst
<1>1. ASSUME NEW t \in Tasks, PushTask(t) PROVE (WorkersNeverSleep /\ StartOrder)'
  BY <1>1, PushKeeps DEF ownerVars
<1>2. ASSUME NEW w \in Workers, Worker(w) PROVE (WorkersNeverSleep /\ StartOrder)'
  <2>1. ~BeforeFirst /\ condition # "Waiting" /\ w <= threads
    BY <1>2, WorkerMoves DEF Live, Workers
  <2>2. condition' # "Waiting"
    BY <1>2, <2>1 DEF Worker, WorkerBegin, WorkerLock, WorkerPop, WorkerSignal, WorkerMain,
         WorkerUnlock, WorkerBreak, WorkerRetry, WorkerExit, queueVars, Signal, ConditionStatus
  <2>3. PICK label \in WorkerPCs \ {"absent", "sleep"} : workerPC' = [workerPC EXCEPT ![w] = label]
    BY <1>2, WorkerMoves
  <2>4. UNCHANGED <<ownerPC, status, threads, starts>>
    BY <1>2, WorkerMoves DEF ownerVars
  <2>5. \A v \in Workers : /\ workerPC'[v] # "sleep"
                           /\ v # w => workerPC'[v] = workerPC[v]
    BY <2>3
  <2>6. WorkersNeverSleep'
    BY <2>2, <2>5
  <2>7. \A v \in Workers : v > threads => v # w
    BY <2>1 DEF Workers
  <2> QED BY <2>1, <2>2, <2>4, <2>5, <2>6, <2>7
<1>3. CASE Start
  <2>1. CASE StartRead
    BY <2>1 DEF StartRead, ConditionStatus, queueVars, workerVars
  <2>2. CASE StartWrite
    BY <2>2 DEF StartWrite, workerVars
  <2>3. CASE StartThread
    <3>1. UNCHANGED <<ownerPC, starts, condition, status>> /\ threads' = threads + 1
          /\ ownerPC = "spawning"
      BY <2>3 DEF StartThread, queueVars
    <3> QED BY <1>3, <3>1, StartKeeps DEF Workers
  <2>4. CASE StartReturn
    BY <2>4 DEF StartReturn, queueVars, workerVars
  <2> QED BY <1>3, <2>1, <2>2, <2>3, <2>4 DEF Start
<1>4. CASE Stop \/ Destroy
  <2>1. /\ ownerPC' \in {"idle", "stopping", "joining", "gone"} /\ ownerPC \notin {"starting", "spawning"}
        /\ UNCHANGED <<starts, status, threads>>
        /\ condition' = condition \/ condition' = "Cancel"
    BY <1>4, NobodyWakes DEF Stop, Destroy, StopEarly, StopSignal, StopWait, StopJoin, StopReturn,
                             queueVars, ThreadStatus
  <2> QED BY <1>4, <2>1, StopKeeps
<1>5. ASSUME NEW c \in Waiters, Client(c) PROVE (WorkersNeverSleep /\ StartOrder)'
  BY <1>5, ClientKeeps DEF queueVars, workerVars, ownerVars
<1>6. CASE UNCHANGED vars
  BY <1>6 DEF vars, queueVars, workerVars, ownerVars
<1> QED BY <1>1, <1>2, <1>3, <1>4, <1>5, <1>6 DEF Next

\* What Stop() and the destructor do to the condition and to the owner.
LEMMA StopMoves ==
  ASSUME TypeOK, WorkersNeverSleep, Stop \/ Destroy
  PROVE  /\ ownerPC \notin {"starting", "spawning"} /\ ownerPC' \notin {"starting", "spawning"}
         /\ UNCHANGED <<starts, status, threads>>
         /\ condition' = condition \/ condition' = "Cancel"
  BY NobodyWakes DEF Stop, Destroy, StopEarly, StopSignal, StopWait, StopJoin, StopReturn,
                     queueVars, ThreadStatus

\* An empty queue means Cancel.
LEMMA EmptyInductive == IInv /\ [Next]_vars => EmptyMeansCancel'
<1> SUFFICES ASSUME IInv, [Next]_vars PROVE EmptyMeansCancel'
  OBVIOUS
<1> USE DEF IInv, EmptyMeansCancel
<1>0. /\ workerPC \in [Workers -> WorkerPCs] /\ queue \in Seq(Tasks)
      /\ pushPC \in [Tasks -> {"new", "push", "signal", "done"}]
      /\ starts \in Nat
  BY DEF TypeOK
<1>1. ASSUME NEW t \in Tasks, PushTask(t) PROVE EmptyMeansCancel'
  <2>1. CASE PushLock(t)
    BY <1>0, <2>1 DEF PushLock, workerVars, ownerVars
  <2>2. CASE PushItem(t)
    <3>1. queue' # << >>
      BY <1>0, <2>2, QueueAppend DEF PushItem
    <3> QED BY <3>1
  <2>3. CASE PushSignal(t)
    <3>1. queue' # << >>
      BY <2>3 DEF PushSignal
    <3> QED BY <3>1
  <2> QED BY <1>1, <2>1, <2>2, <2>3 DEF PushTask
<1>2. ASSUME NEW w \in Workers, Worker(w) PROVE EmptyMeansCancel'
  <2>0. UNCHANGED <<ownerPC, status, starts, pushPC>>
    BY <1>2, WorkerMoves DEF ownerVars, Worker, WorkerBegin, WorkerLock, WorkerPop, WorkerSignal,
         WorkerMain, WorkerUnlock, WorkerBreak, WorkerRetry, WorkerExit
  <2>1. ~(starts = 1 /\ ownerPC = "starting")
    BY <1>2, WorkerMoves DEF StartOrder, BeforeFirst, Live
  <2>2. CASE WorkerPop(w)
    <3>1. \A t \in Tasks : pushPC[t] # "signal"
      BY <2>2, Distinct DEF WorkerPop, LockOwned
    <3>2. workerPC'[w] = "signal"
      BY <1>0, <2>2 DEF WorkerPop
    <3> QED BY <2>0, <2>1, <3>1, <3>2
  <2>3. CASE WorkerSignal(w)
    <3>1. queue' = queue /\ (queue = << >> => condition' = "Cancel")
      BY <2>3 DEF WorkerSignal, Signal, ConditionStatus
    <3> QED BY <2>0, <2>1, <3>1
  <2>4. CASE ~WorkerPop(w) /\ ~WorkerSignal(w)
    <3>1. UNCHANGED <<queue, condition>>
      BY <1>2, <2>4 DEF Worker, WorkerBegin, WorkerLock, WorkerMain, WorkerUnlock, WorkerBreak,
                        WorkerRetry, WorkerExit, queueVars
    <3>2. workerPC[w] # "signal"
      BY <1>2, <2>4 DEF Worker, WorkerBegin, WorkerLock, WorkerMain, WorkerUnlock, WorkerBreak,
                        WorkerRetry, WorkerExit
    <3>3. \A v \in Workers : workerPC[v] = "signal" => workerPC'[v] = "signal"
      BY <1>0, <1>2, <3>2, WorkerMoves
    <3> QED BY <2>0, <2>1, <3>1, <3>3
  <2> QED BY <2>2, <2>3, <2>4
<1>3. CASE Start
  <2>0. /\ UNCHANGED <<pushPC, queue>>
        /\ \A v \in Workers : workerPC[v] = "signal" => workerPC'[v] = "signal"
    BY <1>3, StartKeeps
  <2>1. CASE StartRead
    BY <1>0, <2>0, <2>1 DEF StartRead, ConditionStatus, StartOrder
  <2>2. CASE StartWrite
    BY <2>0, <2>2 DEF StartWrite
  <2>3. CASE StartThread \/ StartReturn
    BY <2>0, <2>3 DEF StartThread, StartReturn, queueVars
  <2> QED BY <1>3, <2>1, <2>2, <2>3 DEF Start
<1>4. CASE Stop \/ Destroy
  BY <1>4, StopKeeps, StopMoves
<1>5. ASSUME NEW c \in Waiters, Client(c) PROVE EmptyMeansCancel'
  BY <1>5, ClientKeeps DEF queueVars, workerVars, ownerVars
<1>6. CASE UNCHANGED vars
  BY <1>6 DEF vars, queueVars, workerVars, ownerVars
<1> QED BY <1>1, <1>2, <1>3, <1>4, <1>5, <1>6 DEF Next

-----------------------------------------------------------------------------
(* Stop                                                                    *)

\* The tasks Stop() found are where a worker will still finish them.
Located(t) ==
  \/ t \in done
  \/ \E w \in Workers : Running(w) /\ workerTask[w] = t
  \/ InQueue(t) /\ \E w \in Workers : Live(w)

\* A task that is located stays so: a worker leaves only an empty queue.
LEMMA WorkerLocates ==
  ASSUME IInv, NEW w \in Workers, Worker(w), NEW t \in Tasks, Located(t)
  PROVE  Located(t)'
<1> USE DEF IInv
<1>0. /\ workerPC \in [Workers -> WorkerPCs] /\ queue \in Seq(Tasks)
      /\ workerTask \in [Workers -> Tasks \cup {NoTask}]
  BY DEF TypeOK
<1>1. CASE WorkerPop(w)
  <2>1. /\ workerPC' = [workerPC EXCEPT ![w] = "signal"] /\ workerPC[w] = "check"
        /\ workerTask' = [workerTask EXCEPT ![w] = Head(queue)]
        /\ queue # << >> /\ queue' = Tail(queue) /\ done' = done
    BY <1>1 DEF WorkerPop, taskVars
  <2>2. Live(w)' /\ Running(w)' /\ workerTask'[w] = queue[1]
    BY <1>0, <2>1, QueueTail DEF Live, Running
  <2>3. CASE InQueue(t)
    <3>1. PICK i \in 1 .. Len(queue) : queue[i] = t
      BY <2>3 DEF InQueue
    <3>2. CASE i = 1
      BY <2>2, <3>1, <3>2 DEF Located
    <3>3. CASE i # 1
      <4>1. i - 1 \in 1 .. Len(queue') /\ queue'[i - 1] = t
        BY <1>0, <2>1, <3>1, <3>3, QueueTail
      <4> QED BY <2>2, <4>1 DEF Located, InQueue
    <3> QED BY <3>2, <3>3
  <2>4. CASE t \in done
    BY <2>1, <2>4 DEF Located
  <2>5. CASE \E v \in Workers : Running(v) /\ workerTask[v] = t
    BY <1>0, <2>1, <2>5 DEF Located, Running
  <2> QED BY <2>3, <2>4, <2>5 DEF Located
<1>2. CASE WorkerSignal(w)
  <2>1. /\ workerPC' = [workerPC EXCEPT ![w] = "run"] /\ workerPC[w] = "signal"
        /\ UNCHANGED <<workerTask, queue, done>>
    BY <1>2, NobodyWakes DEF WorkerSignal, taskVars
  <2> QED BY <1>0, <2>1 DEF Located, Running, Live, InQueue
<1>3. CASE WorkerMain(w)
  BY <1>0, <1>3 DEF WorkerMain, queueVars, Located, Running, Live, InQueue
<1>4. CASE WorkerUnlock(w)
  BY <1>0, <1>4 DEF WorkerUnlock, queueVars, Located, Running, Live, InQueue
<1>5. CASE WorkerBreak(w)
  <2>1. ~InQueue(t)
    BY <1>0, <1>5, QueueEmpty DEF WorkerBreak
  <2> QED BY <1>0, <1>5, <2>1 DEF WorkerBreak, taskVars, Located, Running
<1>6. CASE WorkerBegin(w) \/ WorkerLock(w) \/ WorkerRetry(w) \/ WorkerExit(w)
  <2>1. \E label \in {"lock", "check", "exited"} :
           workerPC' = [workerPC EXCEPT ![w] = label] /\ (label = "exited" => workerPC[w] = "leaving")
    BY <1>6 DEF WorkerBegin, WorkerLock, WorkerRetry, WorkerExit, WorkersNeverSleep
  <2>2. UNCHANGED <<workerTask, queue, done>> /\ workerPC[w] \in {"begin", "lock", "check", "leaving"}
    BY <1>6 DEF WorkerBegin, WorkerLock, WorkerRetry, WorkerExit, queueVars, taskVars
  <2> QED BY <1>0, <2>1, <2>2 DEF Located, Running, Live, InQueue
<1> QED BY <1>1, <1>2, <1>3, <1>4, <1>5, <1>6 DEF Worker

\* What Stop() owes when it is called is located.
LEMMA OwedLocated == ASSUME IInv, NEW t \in Owed PROVE t \in Tasks /\ Located(t)
  BY DEF IInv, Owed, EachTaskOnce, Located

\* The bookkeeping of Stop() is right at every step.
LEMMA StopInductive == IInv /\ [Next]_vars => StopProgress'
<1> SUFFICES ASSUME IInv, [Next]_vars PROVE StopProgress'
  OBVIOUS
<1> USE DEF IInv
<1>0. /\ workerPC \in [Workers -> WorkerPCs] /\ queue \in Seq(Tasks) /\ atStop \subseteq Tasks
      /\ threads \in Nat /\ cursor \in Int
      /\ \A t \in atStop : Located(t)
  BY DEF TypeOK, StopProgress, Located
<1>1. ASSUME NEW t \in Tasks, PushTask(t) PROVE StopProgress'
  <2>1. UNCHANGED <<workerPC, workerTask, ownerVars, done>>
    BY <1>1, PushKeeps DEF PushTask, PushLock, PushItem, PushSignal, taskVars
  <2>2. \A u : InQueue(u) => InQueue(u)'
    BY <1>0, <1>1, QueueAppend DEF PushTask, PushLock, PushItem, PushSignal, InQueue
  <2> QED BY <2>1, <2>2 DEF StopProgress, ownerVars, Running, Live
<1>2. ASSUME NEW w \in Workers, Worker(w) PROVE StopProgress'
  <2>1. \A v \in Workers : workerPC[v] = "exited" => workerPC'[v] = "exited"
    BY <1>0, <1>2, WorkerMoves DEF Live
  <2>2. UNCHANGED ownerVars
    BY <1>2, WorkerMoves
  <2>3. \A t \in atStop : Located(t)'
    BY <1>0, <1>2, WorkerLocates
  <2> QED BY <2>1, <2>2, <2>3 DEF StopProgress, ownerVars, Located
<1>3. CASE Start
  <2>1. /\ UNCHANGED <<queue, workerTask, done>>
        /\ \A v \in Workers : workerPC[v] # "absent" => workerPC'[v] = workerPC[v]
    BY <1>3, StartKeeps DEF taskVars
  <2>2. /\ ownerPC' \in {"idle", "starting", "spawning"} /\ outcome' # "joined"
        /\ UNCHANGED atStop
    BY <1>3 DEF Start, StartRead, StartWrite, StartThread, StartReturn, StopProgress
  <2>3. \A t \in atStop : Located(t)'
    BY <1>0, <2>1 DEF Located, Running, Live, InQueue
  <2> QED BY <2>2, <2>3 DEF StopProgress, Located
<1>4. CASE Stop \/ Destroy
  <2>0. UNCHANGED <<queue, workerPC, workerTask, done, threads>>
    BY <1>4, StopKeeps, StopMoves DEF taskVars
  <2>1. atStop' = atStop \/ atStop' = Owed
    BY <1>4 DEF Stop, Destroy, StopEarly, StopSignal, StopWait, StopJoin, StopReturn
  <2>2. \A t \in atStop' : Located(t)'
    BY <1>0, <2>0, <2>1, OwedLocated DEF Located, Running, Live, InQueue
  <2>3. ASSUME ownerPC' \in {"stopping", "joining"}
        PROVE  outcome' = "none" /\ \A w \in Workers : w < cursor' => workerPC'[w] = "exited"
    <3>1. CASE \E wait \in BOOLEAN : StopSignal(wait)
      BY <2>0, <2>3, <3>1 DEF StopSignal, Workers
    <3>2. CASE StopWait
      <4>1. /\ ownerPC = "stopping" /\ outcome' = outcome
            /\ \/ cursor' = cursor
               \/ cursor' = cursor + 1 /\ workerPC[cursor] = "exited"
        BY <2>3, <3>2 DEF StopWait, ThreadStatus
      <4> QED BY <1>0, <2>0, <4>1 DEF StopProgress, Workers
    <3>3. CASE StopJoin
      BY <1>0, <2>0, <3>3 DEF StopJoin, StopProgress, Workers
    <3>4. CASE StopReturn \/ Destroy \/ \E wait \in BOOLEAN : StopEarly(wait)
      BY <2>3, <3>4 DEF StopReturn, Destroy, StopEarly
    <3> QED BY <1>4, <3>1, <3>2, <3>3, <3>4 DEF Stop
  <2>4. ASSUME outcome' = "joined"
        PROVE  /\ ownerPC' \in {"idle", "gone"}
               /\ \A w \in Workers : w <= threads' => workerPC'[w] = "exited"
    <3>1. CASE StopReturn
      BY <1>0, <2>0, <3>1 DEF StopReturn, StopProgress, Workers
    <3>2. CASE Destroy
      BY <2>0, <2>4, <3>2 DEF Destroy, StopProgress
    <3>3. CASE StopWait \/ StopJoin \/ \E wait \in BOOLEAN : StopEarly(wait) \/ StopSignal(wait)
      BY <2>4, <3>3 DEF StopWait, StopJoin, StopEarly, StopSignal, StopProgress
    <3> QED BY <1>4, <3>1, <3>2, <3>3 DEF Stop
  <2> QED BY <2>2, <2>3, <2>4 DEF StopProgress, Located
<1>5. ASSUME NEW c \in Waiters, Client(c) PROVE StopProgress'
  BY <1>5, ClientKeeps DEF StopProgress, Running, Live, InQueue, queueVars, workerVars, ownerVars
<1>6. CASE UNCHANGED vars
  BY <1>6 DEF StopProgress, Running, Live, InQueue, vars, queueVars, workerVars, taskVars, ownerVars
<1> QED BY <1>1, <1>2, <1>3, <1>4, <1>5, <1>6 DEF Next

-----------------------------------------------------------------------------
(* The theorems                                                            *)

\* The inductive invariant holds of every behaviour of the queue.
THEOREM Invariance == Spec => []IInv
<1>1. IInv /\ [Next]_vars => IInv'
  BY TypeInductive, LockInductive, TasksInductive, WaitInductive, StartInductive, EmptyInductive,
     StopInductive DEF IInv
<1> QED BY InitInv, <1>1, PTL DEF Spec

\* Variables keep their types.
THEOREM TypeCorrect == Spec => []TypeOK
  BY Invariance, PTL DEF IInv

\* A pushed task is in exactly one place, for any number of workers, also when
\* Start() and Stop() are called again and again and workers fail to start.
THEOREM TaskTheorem == Spec => []EachTaskOnce
  BY Invariance, PTL DEF IInv

\* Task::Wait() and TryWait() return (true) only after Main().
THEOREM WaitTheorem == Spec => []WaitMeansDone
  BY Invariance, PTL DEF IInv

\* No worker ever sleeps in Condition::Wait.
THEOREM SleepTheorem == Spec => []WorkersNeverSleep
  BY Invariance, PTL DEF IInv

\* After a single Start() no worker spins on an empty queue.
THEOREM SpinTheorem == Spec => []NoBusyLoop
<1>1. IInv => NoBusyLoop
  <2> SUFFICES ASSUME IInv, starts = 1, NEW w \in Workers, workerPC[w] = "check", queue = << >>
               PROVE  condition = "Cancel"
    BY DEF NoBusyLoop
  <2>1. holder = w /\ \A v \in Workers : workerPC[v] = "signal" => v = w
    BY DEF IInv, LockOwned
  <2>2. ownerPC # "starting"
    BY DEF IInv, StartOrder, BeforeFirst
  <2> QED BY <2>1, <2>2 DEF IInv, EmptyMeansCancel
<1> QED BY Invariance, <1>1, PTL

\* A Stop(true) that joined its workers has waited for the tasks it found.
THEOREM StopTheorem == Spec => []JoinedMeansFinished
<1>1. IInv => JoinedMeansFinished
  <2> SUFFICES ASSUME IInv, outcome = "joined"
               PROVE  /\ \A w \in Workers : w <= threads => workerPC[w] = "exited"
                      /\ atStop \subseteq done
    BY DEF JoinedMeansFinished
  <2>1. \A w \in Workers : w <= threads => workerPC[w] = "exited"
    BY DEF IInv, StopProgress
  <2>2. \A w \in Workers : workerPC[w] \in {"exited", "absent"}
    BY <2>1 DEF IInv, StartOrder, TypeOK, Workers
  <2>3. atStop \subseteq done
    BY <2>2 DEF IInv, StopProgress, Running, Live
  <2> QED BY <2>1, <2>3
<1> QED BY Invariance, <1>1, PTL

-----------------------------------------------------------------------------
(* The TaskQueue implements the TaskPool: locks, conditions and threads    *)
(* away, tasks are taken in the order of the pushes, each once, and no     *)
(* more of them run at a time than there are workers.                      *)

\* The abstract pool's running tasks.
Busy == {workerTask[w] : w \in {v \in Workers : Running(v)}}

\* A step that moves no task in or out of a worker's hands.
LEMMA BusyStays ==
  ASSUME \A w \in Workers : workerPC'[w] \in {"signal", "run"} <=> workerPC[w] \in {"signal", "run"},
         \A w \in Workers : workerPC[w] \in {"signal", "run"} => workerTask'[w] = workerTask[w]
  PROVE  Busy' = Busy
  BY DEF Busy, Running

\* While a worker is free, fewer tasks run than there are workers.
LEMMA FreeSlot ==
  ASSUME NEW w \in Workers, ~Running(w)
  PROVE  Cardinality(Busy) < MaxWorkers
<1> DEFINE R == {v \in Workers : Running(v)}
           f == [v \in R |-> workerTask[v]]
<1>1. ResolvedThreadCount \in Int
  BY ThreadCountAssumption DEF ResolvedThreadCount
<1>2. MaxWorkers \in Int
  BY <1>1, BoundAssumption DEF MaxWorkers
<1>3. MaxWorkers >= 1
  BY <1>2 DEF Workers
<1>4. IsFiniteSet(Workers) /\ Cardinality(Workers) = MaxWorkers
  BY <1>2, <1>3, FS_Interval DEF Workers
<1>5. IsFiniteSet(Workers \ {w}) /\ Cardinality(Workers \ {w}) = MaxWorkers - 1
  BY <1>4, FS_RemoveElement
<1>6. R \in SUBSET (Workers \ {w})
  OBVIOUS
<1>7. IsFiniteSet(R) /\ Cardinality(R) <= MaxWorkers - 1
  BY <1>5, <1>6, FS_Subset
<1>8. f \in Surjection(R, Busy)
  BY DEF Busy, Surjection
<1>9. IsFiniteSet(Busy) /\ Cardinality(Busy) <= Cardinality(R)
  BY <1>7, <1>8, FS_Surjection
<1>10. Cardinality(Busy) \in Nat /\ Cardinality(R) \in Nat
  BY <1>7, <1>9, FS_CardinalityType
<1> QED BY <1>2, <1>7, <1>9, <1>10

-----------------------------------------------------------------------------
\* The empty queue is the empty pool.
LEMMA InitRefines == Init => Pool!PoolInit
  BY DEF Init, Pool!PoolInit, Running

\* PushItem is Push.
LEMMA PushRefines ==
  ASSUME IInv, NEW t \in Tasks, PushItem(t)
  PROVE  Pool!Push(t)
<1>1. ~InQueue(t) /\ t \notin done /\ t \notin Busy
  BY DEF IInv, EachTaskOnce, PushItem, Busy
<1>2. UNCHANGED <<workerPC, workerTask, done>> /\ queue' = Append(queue, t)
  BY DEF PushItem, workerVars, taskVars
<1>3. Busy' = Busy
  BY <1>2, BusyStays
<1> QED BY <1>1, <1>2, <1>3 DEF Pool!Push, Pool!Queued, InQueue, Busy

\* PopItem is Take: the worker that pops has a free slot.
LEMMA PopRefines ==
  ASSUME IInv, NEW w \in Workers, WorkerPop(w)
  PROVE  Pool!Take
<1>1. /\ workerPC[w] = "check" /\ workerPC' = [workerPC EXCEPT ![w] = "signal"]
      /\ workerTask' = [workerTask EXCEPT ![w] = Head(queue)]
      /\ queue # << >> /\ queue' = Tail(queue) /\ done' = done
  BY DEF WorkerPop, taskVars
<1>2. workerPC \in [Workers -> WorkerPCs] /\ workerTask \in [Workers -> Tasks \cup {NoTask}]
  BY DEF IInv, TypeOK
<1>3. Cardinality(Busy) < MaxWorkers
  BY <1>1, FreeSlot DEF Running
<1>4. /\ ~Running(w) /\ Running(w)' /\ workerTask'[w] = Head(queue)
      /\ \A v \in Workers : v # w => (Running(v)' <=> Running(v)) /\ workerTask'[v] = workerTask[v]
  BY <1>1, <1>2 DEF Running
<1>5. Busy' = Busy \cup {Head(queue)}
  BY <1>4 DEF Busy
<1>6. /\ Cardinality({workerTask[v] : v \in {u \in Workers : Running(u)}}) < MaxWorkers
      /\ {workerTask[v] : v \in {u \in Workers : Running(u)}}'
           = {workerTask[v] : v \in {u \in Workers : Running(u)}} \cup {Head(queue)}
  BY <1>3, <1>5, Zenon DEF Busy
<1> QED BY <1>1, <1>6, Zenon DEF Pool!Take, Pool!Cardinality, Cardinality

\* The end of Main() is Finish: nobody else had the task.
LEMMA MainRefines ==
  ASSUME IInv, NEW w \in Workers, WorkerMain(w)
  PROVE  \E t \in Tasks : Pool!Finish(t)
<1>1. /\ workerPC[w] = "run" /\ workerPC' = [workerPC EXCEPT ![w] = "unlock"]
      /\ UNCHANGED <<queue, workerTask>> /\ done' = done \cup {workerTask[w]}
  BY DEF WorkerMain, queueVars
<1>2. workerPC \in [Workers -> WorkerPCs]
  BY DEF IInv, TypeOK
<1>7. PICK t \in Tasks : t = workerTask[w]
  BY <1>1 DEF IInv, TaskCarried
<1>3. /\ Running(w) /\ ~Running(w)'
      /\ \A v \in Workers : v # w => (Running(v)' <=> Running(v))
  BY <1>1, <1>2 DEF Running
<1>4. \A v \in Workers : Running(v) /\ workerTask[v] = t => v = w
  BY <1>3, <1>7 DEF IInv, EachTaskOnce
<1>5. Busy' = Busy \ {t} /\ t \in Busy
  BY <1>1, <1>3, <1>4, <1>7 DEF Busy
<1>6. Pool!Finish(t)
  BY <1>1, <1>5, <1>7 DEF Pool!Finish, Busy
<1> QED BY <1>6

\* Every other step of the queue leaves the pool alone.
LEMMA OthersStutter ==
  ASSUME IInv, [Next]_vars, \A t \in Tasks : ~PushItem(t),
         \A w \in Workers : ~WorkerPop(w) /\ ~WorkerMain(w)
  PROVE  UNCHANGED <<queue, Busy, done>>
<1> USE DEF IInv
<1>0. workerPC \in [Workers -> WorkerPCs] /\ workerTask \in [Workers -> Tasks \cup {NoTask}]
  BY DEF TypeOK
<1>1. ASSUME NEW t \in Tasks, PushTask(t) PROVE UNCHANGED <<queue, Busy, done>>
  <2>1. UNCHANGED <<workerPC, workerTask, queue, done>>
    BY <1>1, PushKeeps DEF PushTask, PushLock, PushSignal, taskVars
  <2> QED BY <2>1, BusyStays
<1>2. ASSUME NEW w \in Workers, Worker(w) PROVE UNCHANGED <<queue, Busy, done>>
  <2>1. UNCHANGED <<queue, done>>
    BY <1>2 DEF Worker, WorkerBegin, WorkerLock, WorkerSignal, WorkerUnlock, WorkerBreak,
                WorkerRetry, WorkerExit, queueVars, taskVars
  <2>2. CASE WorkerSignal(w)
    <3>1. workerPC[w] = "signal" /\ workerPC' = [workerPC EXCEPT ![w] = "run"] /\ UNCHANGED workerTask
      BY <2>2, NobodyWakes DEF WorkerSignal
    <3> QED BY <1>0, <2>1, <3>1, BusyStays
  <2>3. CASE WorkerUnlock(w)
    BY <1>0, <2>1, <2>3, BusyStays DEF WorkerUnlock
  <2>4. CASE WorkerBegin(w) \/ WorkerLock(w) \/ WorkerBreak(w) \/ WorkerRetry(w) \/ WorkerExit(w)
    BY <1>0, <2>1, <2>4, BusyStays DEF WorkerBegin, WorkerLock, WorkerBreak, WorkerRetry, WorkerExit
  <2> QED BY <1>2, <2>2, <2>3, <2>4 DEF Worker
<1>3. CASE Start
  BY <1>3, StartKeeps, BusyStays DEF taskVars
<1>4. CASE Stop \/ Destroy
  BY <1>4, StopKeeps, BusyStays DEF taskVars
<1>5. ASSUME NEW c \in Waiters, Client(c) PROVE UNCHANGED <<queue, Busy, done>>
  BY <1>5, ClientKeeps, BusyStays DEF queueVars, workerVars
<1>6. CASE UNCHANGED vars
  BY <1>6, BusyStays DEF vars, queueVars, workerVars, taskVars
<1> QED BY <1>1, <1>2, <1>3, <1>4, <1>5, <1>6 DEF Next

\* The TaskQueue implements the TaskPool.
THEOREM Refinement == Spec => ImplementsPool
<1>1. IInv /\ [Next]_vars => [Pool!PoolNext]_Pool!poolVars
  <2> SUFFICES ASSUME IInv, [Next]_vars PROVE [Pool!PoolNext]_Pool!poolVars
    OBVIOUS
  <2>1. ASSUME NEW t \in Tasks, PushItem(t) PROVE Pool!PoolNext
    BY <2>1, PushRefines DEF Pool!PoolNext
  <2>2. ASSUME NEW w \in Workers, WorkerPop(w) PROVE Pool!PoolNext
    BY <2>2, PopRefines DEF Pool!PoolNext
  <2>3. ASSUME NEW w \in Workers, WorkerMain(w) PROVE Pool!PoolNext
    BY <2>3, MainRefines DEF Pool!PoolNext
  <2>4. CASE /\ \A t \in Tasks : ~PushItem(t)
             /\ \A w \in Workers : ~WorkerPop(w) /\ ~WorkerMain(w)
    BY <2>4, OthersStutter DEF Pool!poolVars, Busy
  <2> QED BY <2>1, <2>2, <2>3, <2>4
<1> QED BY InitRefines, Invariance, <1>1, PTL DEF Spec, ImplementsPool, Pool!PoolSpec

=============================================================================
