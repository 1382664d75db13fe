------------------------------ MODULE TaskQueue ------------------------------
(***************************************************************************)
(* Bricks::Threading::TaskQueue with its worker threads, and the TaskBase  *)
(* objects that travel through it.                                         *)
(*                                                                         *)
(* Actors: the owner of the queue (Start, Stop, the destructor), one       *)
(* pusher per task (PushTask), the workers (TaskQueueThread::operator()),  *)
(* and the clients that Wait() or TryWait() for a task.  queueCondition is *)
(* the ConditionLock of module ConditionLock, here an owner-or-Free cell:  *)
(* every user but Start holds it across its critical section.  Start       *)
(* writes the condition and reads the queue WITHOUT it.                    *)
(***************************************************************************)
EXTENDS Integers, Sequences, FiniteSets

CONSTANTS
  Tasks,                \* the tasks to push, each pushed once by a thread of its own
  Waiters,              \* the clients that wait for tasks
  ThreadCount,          \* the constructor's argument (0: choose for me)
  HardwareConcurrency,  \* what Thread::GetHardwareConcurrency() reports (0: unknown)
  MaxStarts,            \* bound: how often the owner calls Start()
  MaxStops,             \* bound: how often the owner calls Stop()
  SpawnMayFail,         \* TRUE: pthread_create may fail
  Free, NoTask          \* nobody owns the lock; a worker without a task

ASSUME ThreadCountAssumption == ThreadCount \in Int /\ HardwareConcurrency \in Nat
ASSUME BoundAssumption == MaxStarts \in Nat /\ MaxStops \in Nat /\ SpawnMayFail \in BOOLEAN
ASSUME NoTaskAssumption == NoTask \notin Tasks
ASSUME OwnerAssumption == /\ Free \notin Tasks \cup Int
                          /\ Tasks \cap Int = {}
                          /\ "unrun" \notin {Free} \cup Waiters

\* Start(): the thread count it settles on.
ResolvedThreadCount ==
  IF ThreadCount # 0 THEN ThreadCount
  ELSE IF HardwareConcurrency # 0 THEN HardwareConcurrency
  ELSE 2

\* The workers, numbered in the order in which StartThread() creates them.
MaxWorkers == MaxStarts * ResolvedThreadCount
Workers == 1 .. MaxWorkers

VARIABLES
  holder,     \* who owns queueCondition's mutex
  condition,  \* queueCondition's condition: Waiting, Ready or Cancel
  queue,      \* the queued tasks
  pushPC,     \* each task's pusher: new, push, signal, done
  workerPC,   \* each worker: where it is in operator()(), see WorkerPCs
  workerTask, \* the task a worker has popped
  handle,     \* each worker's Thread has a pthread handle
  done,       \* the tasks whose Main() has returned
  taskMutex,  \* each TaskBase::mutex: its owner, Unrun since the constructor, or Free
  waiterPC,   \* each client: idle, waiting, locked
  waiterTask, \* the task it waits for
  returned,   \* the tasks for which some Wait() or TryWait() returned (true)
  ownerPC,    \* the owner: idle, starting, spawning, stopping, joining, gone
  status,     \* Start(): the ConditionStatus it read; elsewhere unused
  threads,    \* how many Threads are in the threads array
  cursor,     \* Start(): threads still to create; Stop(): index of the thread waited for
  starts, stops,  \* how often Start() and Stop() were called
  outcome,    \* how the last Stop() since Start() ended: none, nowait; early, joined, threw if wait
  atStop      \* the tasks pushed, with a worker left to run them, when Stop() was called

queueVars  == <<holder, condition, queue>>
workerVars == <<workerPC, workerTask, handle>>
taskVars   == <<done, taskMutex, waiterPC, waiterTask, returned>>
ownerVars  == <<ownerPC, status, threads, cursor, starts, stops, outcome, atStop>>

vars == <<queueVars, pushPC, workerVars, taskVars, ownerVars>>

Unrun == "unrun"

TaskQueueCondition == {"Waiting", "Ready", "Cancel"}

\* absent: not created; failed: pthread_create failed; begin: reads the queue's
\* fields; lock: at MutexLock; check: owns the lock; sleep: in Condition::Wait;
\* signal: has popped, still owns the lock; run: in Main(); unlock: Main() has
\* returned; leaving: out of the loop; exited: status is Stopped.
WorkerPCs == {"absent", "failed", "begin", "lock", "check", "sleep", "signal",
              "run", "unlock", "leaving", "exited"}

Init ==
  /\ holder = Free /\ condition = "Waiting" /\ queue = << >>
  /\ pushPC = [t \in Tasks |-> "new"]
  /\ workerPC = [w \in Workers |-> "absent"]
  /\ workerTask = [w \in Workers |-> NoTask]
  /\ handle = [w \in Workers |-> FALSE]
  /\ done = {} /\ taskMutex = [t \in Tasks |-> Unrun]
  /\ waiterPC = [c \in Waiters |-> "idle"]
  /\ waiterTask = [c \in Waiters |-> NoTask]
  /\ returned = {}
  /\ ownerPC = "idle" /\ status = "Waiting" /\ threads = 0 /\ cursor = 0
  /\ starts = 0 /\ stops = 0 /\ outcome = "none" /\ atStop = {}

\* TaskQueue::ConditionStatus
ConditionStatus(q) == IF q # << >> THEN "Ready" ELSE "Cancel"

\* pthread_cond_signal: if workers sleep, one of them goes on to reacquire.
Signalled(wpc) ==
  LET sleepers == {w \in Workers : wpc[w] = "sleep"}
  IN  IF sleepers = {} THEN {wpc} ELSE {[wpc EXCEPT ![w] = "lock"] : w \in sleepers}

Signal(c, wpc) == condition' = c /\ workerPC' \in Signalled(wpc)

-----------------------------------------------------------------------------
(* PushTask(t), by the task's pusher                                       *)

PushLock(t) ==
  /\ pushPC[t] = "new" /\ ownerPC # "gone"
  /\ holder = Free
  /\ holder' = t
  /\ pushPC' = [pushPC EXCEPT ![t] = "push"]
  /\ UNCHANGED <<condition, queue, workerVars, taskVars, ownerVars>>

\* Mutant of PushItem: the task is put in front.
PushItem_Front(t) ==
  /\ pushPC[t] = "push"
  /\ queue' = <<t>> \o queue
  /\ pushPC' = [pushPC EXCEPT ![t] = "signal"]
  /\ UNCHANGED <<holder, condition, workerVars, taskVars, ownerVars>>

PushItem(t) ==
  /\ pushPC[t] = "push"
  /\ queue' = Append(queue, t)
  /\ pushPC' = [pushPC EXCEPT ![t] = "signal"]
  /\ UNCHANGED <<holder, condition, workerVars, taskVars, ownerVars>>

\* Signal(Ready), and the MutexLock goes out of scope.
PushSignal(t) ==
  /\ pushPC[t] = "signal"
  /\ Signal("Ready", workerPC)
  /\ holder' = Free
  /\ pushPC' = [pushPC EXCEPT ![t] = "done"]
  /\ UNCHANGED <<queue, workerTask, handle, taskVars, ownerVars>>

-----------------------------------------------------------------------------
(* TaskQueueThread::operator()(), by worker w                              *)

\* Takes its references to the condition and the tasks through the raw queue
\* pointer, which must still be valid (see Destroy).
WorkerBegin(w) ==
  /\ workerPC[w] = "begin"
  /\ workerPC' = [workerPC EXCEPT ![w] = "lock"]
  /\ UNCHANGED <<queueVars, pushPC, workerTask, handle, taskVars, ownerVars>>

WorkerLock(w) ==
  /\ workerPC[w] = "lock"
  /\ holder = Free
  /\ holder' = w
  /\ workerPC' = [workerPC EXCEPT ![w] = "check"]
  /\ UNCHANGED <<condition, queue, pushPC, workerTask, handle, taskVars, ownerVars>>

\* Mutant of WorkerPop: the task stays in the queue.
WorkerPop_Peek(w) ==
  /\ workerPC[w] = "check"
  /\ condition # "Waiting"
  /\ queue # << >>
  /\ workerTask' = [workerTask EXCEPT ![w] = Head(queue)]
  /\ workerPC' = [workerPC EXCEPT ![w] = "signal"]
  /\ UNCHANGED <<holder, condition, queue, pushPC, handle, taskVars, ownerVars>>

\* There is a task: PopItem().
WorkerPop(w) ==
  /\ workerPC[w] = "check"
  /\ condition # "Waiting"
  /\ queue # << >>
  /\ workerTask' = [workerTask EXCEPT ![w] = Head(queue)]
  /\ queue' = Tail(queue)
  /\ workerPC' = [workerPC EXCEPT ![w] = "signal"]
  /\ UNCHANGED <<holder, condition, pushPC, handle, taskVars, ownerVars>>

\* Mutant of WorkerSignal: the task's mutex is unlocked before Main().
WorkerSignal_UnlocksTask(w) ==
  /\ workerPC[w] = "signal"
  /\ Signal(ConditionStatus(queue), [workerPC EXCEPT ![w] = "run"])
  /\ taskMutex' = [taskMutex EXCEPT ![workerTask[w]] = Free]
  /\ holder' = Free
  /\ UNCHANGED <<queue, pushPC, workerTask, handle, done, waiterPC, waiterTask, returned, ownerVars>>

\* Signal(ConditionStatus(tasks)); lock.Unlock(); SetThread.
WorkerSignal(w) ==
  /\ workerPC[w] = "signal"
  /\ Signal(ConditionStatus(queue), [workerPC EXCEPT ![w] = "run"])
  /\ holder' = Free
  /\ UNCHANGED <<queue, pushPC, workerTask, handle, taskVars, ownerVars>>

\* TaskBase::Run: Main() returns ...
WorkerMain(w) ==
  /\ workerPC[w] = "run"
  /\ done' = done \cup {workerTask[w]}
  /\ workerPC' = [workerPC EXCEPT ![w] = "unlock"]
  /\ UNCHANGED <<queueVars, pushPC, workerTask, handle, taskMutex, waiterPC, waiterTask,
                 returned, ownerVars>>

\* ... and mutex->Unlock() lets the waiters in.
WorkerUnlock(w) ==
  /\ workerPC[w] = "unlock"
  /\ taskMutex' = [taskMutex EXCEPT ![workerTask[w]] = Free]
  /\ workerTask' = [workerTask EXCEPT ![w] = NoTask]
  /\ workerPC' = [workerPC EXCEPT ![w] = "lock"]
  /\ UNCHANGED <<queueVars, pushPC, handle, done, waiterPC, waiterTask, returned, ownerVars>>

\* Mutant of WorkerBreak: Cancel is looked at before the queue.
WorkerBreak_CancelFirst(w) ==
  /\ workerPC[w] = "check"
  /\ condition = "Cancel"
  /\ holder' = Free
  /\ workerPC' = [workerPC EXCEPT ![w] = "leaving"]
  /\ UNCHANGED <<condition, queue, pushPC, workerTask, handle, taskVars, ownerVars>>

\* No task and Cancel: break, the MutexLock goes out of scope.
WorkerBreak(w) ==
  /\ workerPC[w] = "check"
  /\ queue = << >> /\ condition = "Cancel"
  /\ holder' = Free
  /\ workerPC' = [workerPC EXCEPT ![w] = "leaving"]
  /\ UNCHANGED <<condition, queue, pushPC, workerTask, handle, taskVars, ownerVars>>

\* Waiting: Condition::Wait() releases the lock and sleeps.  Ready without a
\* task: the lock is released and the loop starts over.
WorkerRetry(w) ==
  /\ workerPC[w] = "check"
  /\ condition = "Waiting" \/ (queue = << >> /\ condition = "Ready")
  /\ holder' = Free
  /\ workerPC' = [workerPC EXCEPT ![w] = IF condition = "Waiting" THEN "sleep" ELSE "lock"]
  /\ UNCHANGED <<condition, queue, pushPC, workerTask, handle, taskVars, ownerVars>>

\* Thread::StaticCleanup: the thread's status becomes Stopped.
WorkerExit(w) ==
  /\ workerPC[w] = "leaving"
  /\ workerPC' = [workerPC EXCEPT ![w] = "exited"]
  /\ UNCHANGED <<queueVars, pushPC, workerTask, handle, taskVars, ownerVars>>

-----------------------------------------------------------------------------
(* Start(), by the owner                                                   *)

\* ConditionStatus(queue), read without the lock.
StartRead ==
  /\ ownerPC = "idle" /\ starts < MaxStarts
  /\ starts' = starts + 1
  /\ status' = ConditionStatus(queue)
  /\ ownerPC' = "starting"
  /\ outcome' = "none"
  /\ UNCHANGED <<queueVars, pushPC, workerVars, taskVars, threads, cursor, stops, atStop>>

\* SetCondition, also without it; then the loop over StartThread().
StartWrite ==
  /\ ownerPC = "starting"
  /\ condition' = status
  /\ cursor' = ResolvedThreadCount
  /\ ownerPC' = "spawning"
  /\ UNCHANGED <<holder, queue, pushPC, workerVars, taskVars, status, threads, starts, stops,
                 outcome, atStop>>

\* A Thread whose pthread_create failed has no handle; StartThread() does not
\* notice and adds it to threads all the same.
StartThread ==
  /\ ownerPC = "spawning" /\ cursor > 0
  /\ \E created \in (IF SpawnMayFail THEN BOOLEAN ELSE {TRUE}) :
       /\ workerPC' = [workerPC EXCEPT ![threads + 1] = IF created THEN "begin" ELSE "failed"]
       /\ handle' = [handle EXCEPT ![threads + 1] = created]
  /\ threads' = threads + 1
  /\ cursor' = cursor - 1
  /\ UNCHANGED <<queueVars, pushPC, workerTask, taskVars, ownerPC, status, starts, stops, outcome,
                 atStop>>

StartReturn ==
  /\ ownerPC = "spawning" /\ cursor <= 0
  /\ ownerPC' = "idle"
  /\ UNCHANGED <<queueVars, pushPC, workerVars, taskVars, status, threads, cursor, starts, stops,
                 outcome, atStop>>

-----------------------------------------------------------------------------
(* Stop(wait), by the owner                                                *)

\* Workers that have not left the loop.
Live(w) == workerPC[w] \in {"begin", "lock", "check", "signal", "run", "unlock"}

\* The tasks Stop finds pushed, provided there still is a worker to run them.
Owed == IF \E w \in Workers : Live(w) THEN {t \in Tasks : pushPC[t] = "done"} ELSE {}

\* The critical section of Stop when the condition is Cancel already: return,
\* without waiting for anything.
StopEarly(wait) ==
  /\ ownerPC = "idle" /\ stops < MaxStops
  /\ holder = Free /\ condition = "Cancel"
  /\ stops' = stops + 1
  /\ outcome' = IF wait THEN "early" ELSE "nowait"
  /\ atStop' = Owed
  /\ UNCHANGED <<queueVars, pushPC, workerVars, taskVars, ownerPC, status, threads, cursor, starts>>

\* The critical section otherwise.
StopSignal(wait) ==
  /\ ownerPC = "idle" /\ stops < MaxStops
  /\ holder = Free /\ condition # "Cancel"
  /\ Signal("Cancel", workerPC)
  /\ stops' = stops + 1
  /\ outcome' = IF wait THEN "none" ELSE "nowait"
  /\ ownerPC' = IF wait THEN "stopping" ELSE "idle"
  /\ cursor' = 1
  /\ atStop' = Owed
  /\ UNCHANGED <<holder, queue, pushPC, workerTask, handle, taskVars, status, threads, starts>>

\* Thread::GetStatus() of an owned thread.
ThreadStatus(w) ==
  IF ~handle[w] THEN "Initialized" ELSE IF workerPC[w] = "exited" THEN "Stopped" ELSE "Started"

\* The next Thread::Wait() of the foreach reads the status: a stopped thread is
\* passed over, a running one is joined, one without a handle throws
\* InvalidOperationException out of Stop().
StopWait ==
  /\ ownerPC = "stopping" /\ cursor <= threads
  /\ LET s == ThreadStatus(cursor)
     IN  /\ ownerPC' = CASE s = "Stopped" -> "stopping"
                         [] s = "Started" -> "joining"
                         [] s = "Initialized" -> "idle"
         /\ cursor' = IF s = "Stopped" THEN cursor + 1 ELSE cursor
         /\ outcome' = IF s = "Initialized" THEN "threw" ELSE outcome
  /\ UNCHANGED <<queueVars, pushPC, workerVars, taskVars, status, threads, starts, stops, atStop>>

\* pthread_join returns; Cleanup() drops the handle.
StopJoin ==
  /\ ownerPC = "joining" /\ workerPC[cursor] = "exited"
  /\ handle' = [handle EXCEPT ![cursor] = FALSE]
  /\ cursor' = cursor + 1
  /\ ownerPC' = "stopping"
  /\ UNCHANGED <<queueVars, pushPC, workerPC, workerTask, taskVars, status, threads, starts, stops,
                 outcome, atStop>>

StopReturn ==
  /\ ownerPC = "stopping" /\ cursor > threads
  /\ ownerPC' = "idle"
  /\ outcome' = "joined"
  /\ UNCHANGED <<queueVars, pushPC, workerVars, taskVars, status, threads, cursor, starts, stops, atStop>>

\* ~TaskQueue() is Stop(false) followed by the release of the members.  A worker
\* that has not yet taken its references would read freed memory: the owner is
\* taken to destroy the queue only when every worker has begun.
Destroy ==
  /\ ownerPC = "idle" /\ holder = Free
  /\ \A w \in Workers : workerPC[w] # "begin"
  /\ IF condition = "Cancel" THEN UNCHANGED <<condition, workerPC>> ELSE Signal("Cancel", workerPC)
  /\ ownerPC' = "gone"
  /\ UNCHANGED <<holder, queue, pushPC, workerTask, handle, taskVars, status, threads, cursor, starts,
                 stops, outcome, atStop>>

-----------------------------------------------------------------------------
(* Task::Wait() and Task::TryWait(), by client c                           *)

\* Wait() blocks in MutexLock until the mutex is free.
TaskWait(c, t) ==
  /\ waiterPC[c] = "idle"
  /\ waiterPC' = [waiterPC EXCEPT ![c] = "waiting"]
  /\ waiterTask' = [waiterTask EXCEPT ![c] = t]
  /\ UNCHANGED <<queueVars, pushPC, workerVars, done, taskMutex, returned, ownerVars>>

TaskLock(c) ==
  /\ waiterPC[c] = "waiting"
  /\ taskMutex[waiterTask[c]] = Free
  /\ taskMutex' = [taskMutex EXCEPT ![waiterTask[c]] = c]
  /\ waiterPC' = [waiterPC EXCEPT ![c] = "locked"]
  /\ UNCHANGED <<queueVars, pushPC, workerVars, done, waiterTask, returned, ownerVars>>

\* TryWait() gets the mutex; when it does not, it returns false and nothing
\* changes (whether because the task has not run or because another client
\* holds the mutex for a moment).
TaskTryLock(c, t) ==
  /\ waiterPC[c] = "idle"
  /\ taskMutex[t] = Free
  /\ taskMutex' = [taskMutex EXCEPT ![t] = c]
  /\ waiterTask' = [waiterTask EXCEPT ![c] = t]
  /\ waiterPC' = [waiterPC EXCEPT ![c] = "locked"]
  /\ UNCHANGED <<queueVars, pushPC, workerVars, done, returned, ownerVars>>

\* Mutant of TaskReturn: the mutex is not released.
TaskReturn_NoUnlock(c) ==
  /\ waiterPC[c] = "locked"
  /\ returned' = returned \cup {waiterTask[c]}
  /\ waiterTask' = [waiterTask EXCEPT ![c] = NoTask]
  /\ waiterPC' = [waiterPC EXCEPT ![c] = "idle"]
  /\ UNCHANGED <<queueVars, pushPC, workerVars, done, taskMutex, ownerVars>>

\* The MutexLock goes out of scope and the call returns (true, retValue).
TaskReturn(c) ==
  /\ waiterPC[c] = "locked"
  /\ taskMutex' = [taskMutex EXCEPT ![waiterTask[c]] = Free]
  /\ returned' = returned \cup {waiterTask[c]}
  /\ waiterTask' = [waiterTask EXCEPT ![c] = NoTask]
  /\ waiterPC' = [waiterPC EXCEPT ![c] = "idle"]
  /\ UNCHANGED <<queueVars, pushPC, workerVars, done, ownerVars>>

-----------------------------------------------------------------------------
PushTask(t) == PushLock(t) \/ PushItem(t) \/ PushSignal(t)

Worker(w) ==
  \/ WorkerBegin(w) \/ WorkerLock(w) \/ WorkerPop(w) \/ WorkerSignal(w) \/ WorkerMain(w)
  \/ WorkerUnlock(w) \/ WorkerBreak(w) \/ WorkerRetry(w) \/ WorkerExit(w)

Start == StartRead \/ StartWrite \/ StartThread \/ StartReturn

Stop == (\E wait \in BOOLEAN : StopEarly(wait) \/ StopSignal(wait)) \/ StopWait \/ StopJoin \/ StopReturn

Client(c) == (\E t \in Tasks : TaskWait(c, t) \/ TaskTryLock(c, t)) \/ TaskLock(c) \/ TaskReturn(c)

Next ==
  \/ \E t \in Tasks : PushTask(t)
  \/ \E w \in Workers : Worker(w)
  \/ Start \/ Stop \/ Destroy
  \/ \E c \in Waiters : Client(c)

Spec == Init /\ [][Next]_vars

\* Threads that can run do run, Main() terminates, and a mutex that becomes free
\* again and again is eventually had by whoever waits for it.  When calls are
\* made, and whether, is up to their callers.
Fairness ==
  /\ \A t \in Tasks : WF_vars(PushItem(t) \/ PushSignal(t))
  /\ \A w \in Workers : WF_vars(Worker(w)) /\ SF_vars(WorkerLock(w))
  /\ WF_vars(StartWrite \/ StartThread \/ StartReturn)
  /\ WF_vars(StopWait \/ StopJoin \/ StopReturn)
  /\ \A c \in Waiters : WF_vars(TaskReturn(c)) /\ SF_vars(TaskLock(c))

FairSpec == Spec /\ Fairness

-----------------------------------------------------------------------------
\* All state of taskqueue.cpp and task.cpp stays in its domain: only tasks are
\* queued, popped and waited for, and a task's mutex is never held by a worker.
TypeOK ==
  /\ holder \in {Free} \cup Tasks \cup Workers
  /\ condition \in TaskQueueCondition
  /\ queue \in Seq(Tasks)
  /\ pushPC \in [Tasks -> {"new", "push", "signal", "done"}]
  /\ workerPC \in [Workers -> WorkerPCs]
  /\ workerTask \in [Workers -> Tasks \cup {NoTask}]
  /\ handle \in [Workers -> BOOLEAN]
  /\ done \subseteq Tasks
  /\ taskMutex \in [Tasks -> {Unrun, Free} \cup Waiters]
  /\ waiterPC \in [Waiters -> {"idle", "waiting", "locked"}]
  /\ waiterTask \in [Waiters -> Tasks \cup {NoTask}]
  /\ returned \subseteq Tasks
  /\ ownerPC \in {"idle", "starting", "spawning", "stopping", "joining", "gone"}
  /\ status \in TaskQueueCondition
  /\ threads \in Nat
  /\ cursor \in Int
  /\ starts \in 0 .. MaxStarts /\ stops \in 0 .. MaxStops
  /\ outcome \in {"none", "early", "nowait", "joined", "threw"}
  /\ atStop \subseteq Tasks

-----------------------------------------------------------------------------
(* Safety                                                                  *)

InQueue(t) == \E i \in 1 .. Len(queue) : queue[i] = t

\* Workers between PopItem() and the end of Main().
Running(w) == workerPC[w] \in {"signal", "run"}

\* A task that was pushed is in exactly one place: once in the queue, in the
\* hands of one worker, or done.  It is never lost on the way, never returns to
\* the queue once popped, and its Main() is not run again.
EachTaskOnce ==
  /\ \A t \in Tasks : pushPC[t] \in {"signal", "done"} <=>
       InQueue(t) \/ t \in done \/ \E w \in Workers : Running(w) /\ workerTask[w] = t
  /\ \A i, j \in 1 .. Len(queue) : queue[i] = queue[j] => i = j
  /\ \A w, v \in Workers : Running(w) /\ Running(v) /\ workerTask[w] = workerTask[v] => w = v
  /\ \A w \in Workers : Running(w) => ~InQueue(workerTask[w]) /\ workerTask[w] \notin done
  /\ \A t \in done : ~InQueue(t)

\* The condition is never Waiting where a worker looks at it, so the Wait() in
\* the worker loop never sleeps: ConditionStatus turns an empty queue into
\* Cancel, and Start() writes the condition before it creates the first thread.
WorkersNeverSleep ==
  \A w \in Workers :
     /\ workerPC[w] # "sleep"
     /\ workerPC[w] = "check" => condition # "Waiting"

\* With a single Start(), a worker that finds the queue empty finds Cancel too,
\* and leaves: no worker spins on a Ready condition, although Start() reads
\* the queue and writes the condition without the lock while tasks are pushed.
\* (A second Start() can write back a Ready it read before the last pop.)
NoBusyLoop ==
  starts = 1 =>
     \A w \in Workers : workerPC[w] = "check" /\ queue = << >> => condition = "Cancel"

\* When Stop(true) got to its foreach and came out of it, every worker has
\* exited, and every task pushed before the Stop has been run unless all the
\* workers had left by then: Cancel makes a worker leave only once the queue is
\* empty, and whoever was running a task is waited for.
JoinedMeansFinished ==
  outcome = "joined" =>
     /\ \A w \in Workers : w <= threads => workerPC[w] = "exited"
     /\ atStop \subseteq done

\* "Waits for queue to finish": when Stop(true) returns, the tasks pushed before
\* it, with a worker left to run them, have been run.
StopWaitsForQueue == outcome \in {"early", "joined"} => atStop \subseteq done

\* Task::Wait() and a true TryWait() return only after the task's Main() has
\* returned, so that retValue is set; clients that share a task's mutex cannot
\* let each other in early.
WaitMeansDone ==
  /\ returned \subseteq done
  /\ \A c \in Waiters : waiterPC[c] = "locked" => waiterTask[c] \in done

\* The queue implements the abstract pool, one slot per worker thread: tasks
\* are started in the order of the pushes, and by one worker serially.
Pool == INSTANCE TaskPool WITH
  Slots    <- MaxWorkers,
  pending  <- queue,
  running  <- {workerTask[w] : w \in {v \in Workers : Running(v)}},
  finished <- done

ImplementsPool == Pool!PoolSpec

-----------------------------------------------------------------------------
(* What makes the safety properties inductive.                             *)

\* queueCondition's mutex is held by whoever is in its critical section.
LockOwned ==
  /\ \A w \in Workers : holder = w <=> workerPC[w] \in {"check", "signal"}
  /\ \A t \in Tasks : holder = t <=> pushPC[t] \in {"push", "signal"}

\* What a worker carries, and what an unlocked TaskBase::mutex tells.
TaskCarried ==
  /\ \A w \in Workers : workerPC[w] \in {"signal", "run", "unlock"} => workerTask[w] \in Tasks
  /\ \A w \in Workers : workerPC[w] = "unlock" => workerTask[w] \in done
  /\ \A c \in Waiters : waiterPC[c] # "idle" => waiterTask[c] \in Tasks
  /\ \A t \in Tasks : taskMutex[t] # Unrun => t \in done

\* The first Start() has not written the condition yet.
BeforeFirst == starts = 0 \/ (starts = 1 /\ ownerPC = "starting")

\* Until then there is no worker; afterwards the condition is not Waiting.
StartOrder ==
  /\ ownerPC \in {"starting", "spawning"} => starts > 0
  /\ ownerPC = "starting" => status # "Waiting"
  /\ BeforeFirst => \A w \in Workers : workerPC[w] = "absent"
  /\ ~BeforeFirst => condition # "Waiting"
  /\ \A w \in Workers : w > threads => workerPC[w] = "absent"

\* With a single Start(), an empty queue means Cancel, except between a pop and
\* its signal; and Start() itself writes Cancel if the queue is still empty.
EmptyMeansCancel ==
  /\ \A t \in Tasks : pushPC[t] = "signal" => queue # << >>
  /\ starts = 1 /\ queue = << >> =>
       IF ownerPC = "starting" THEN status = "Cancel"
       ELSE condition = "Cancel" \/ \E w \in Workers : workerPC[w] = "signal"

\* What Stop(true) has waited for so far, and where the tasks it found are.
StopProgress ==
  /\ ownerPC \in {"stopping", "joining"} =>
       /\ outcome = "none"
       /\ \A w \in Workers : w < cursor => workerPC[w] = "exited"
  /\ outcome = "joined" =>
       /\ ownerPC \in {"idle", "gone"}
       /\ \A w \in Workers : w <= threads => workerPC[w] = "exited"
  /\ \A t \in atStop :
       \/ t \in done
       \/ \E w \in Workers : Running(w) /\ workerTask[w] = t
       \/ InQueue(t) /\ \E w \in Workers : Live(w)

IInv ==
  /\ TypeOK
  /\ LockOwned
  /\ EachTaskOnce
  /\ TaskCarried
  /\ WaitMeansDone
  /\ WorkersNeverSleep
  /\ StartOrder
  /\ EmptyMeansCancel
  /\ StopProgress

-----------------------------------------------------------------------------
(* Liveness                                                                *)

\* As long as a worker has not left its loop, every queued task gets run.
LiveWorkerDrains ==
  \A t \in Tasks : (InQueue(t) /\ \E w \in Workers : Live(w)) ~> (t \in done)

\* A client that waits for a task whose Main() has returned comes back.
WaiterReturns ==
  \A c \in Waiters : (waiterPC[c] = "waiting" /\ waiterTask[c] \in done) ~> (waiterPC[c] = "idle")

=============================================================================
