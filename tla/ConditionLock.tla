---------------------------- MODULE ConditionLock ----------------------------
(***************************************************************************)
(* Bricks::Threading::Mutex, Condition and ConditionLock.                  *)
(*                                                                         *)
(* A ConditionLock is a pthread mutex, a pthread condition variable and a  *)
(* volatile integer `condition'.  Lock(t) returns with the mutex held once *)
(* condition = t; Signal(t), Broadcast(t) and Unlock(t) assign condition   *)
(* and wake sleepers.  None of the notifying operations takes the mutex    *)
(* itself: whether the caller holds it is up to the caller, and both cases *)
(* are modelled.                                                           *)
(*                                                                         *)
(* One action is one atomic access to shared state: a pthread call, the    *)
(* evaluation of the loop condition, or the assignment to condition.       *)
(***************************************************************************)
EXTENDS Integers, FiniteSets

CONSTANTS
  Threads,          \* the callers
  Conditions,       \* the values the clients use as conditions
  NoTarget,         \* stands for the target of a plain Lock()/TryLock(), which tests none
  InitialCondition, \* the constructor's argument
  NotifyKinds       \* the notifying operations the clients use

ASSUME ConditionAssumption == InitialCondition \in Conditions
ASSUME NotifyAssumption == NotifyKinds \subseteq {"Signal", "Broadcast", "Unlock", "Set"}

ASSUME NoTargetAssumption == NoTarget \notin Conditions

VARIABLES
  locked,     \* the pthread mutex is held by somebody
  condition,  \* ConditionLock::condition
  pc,         \* where each thread is inside (or between) its calls
  op,         \* the operation each thread is in, or was last in
  sound       \* history: condition was last assigned under the mutex, for a broadcast

vars == <<locked, condition, pc, op, sound>>

Targets == Conditions \cup {NoTarget}

LockKinds == {"Lock", "TimedLock", "TryLock"}

Ops == [kind : LockKinds \cup NotifyKinds, target : Targets]

\* pc values at which the thread's own code holds the mutex.
Owning == {"test", "wait", "giveup", "held", "notify", "release"}

PCs == Owning \cup {"idle", "acquire", "sleep", "woken", "expired", "loose"}

Init ==
  /\ locked = FALSE
  /\ condition = InitialCondition
  /\ pc = [t \in Threads |-> "idle"]
  /\ op = [t \in Threads |-> [kind |-> "Lock", target |-> NoTarget]]
  /\ sound = TRUE

Goto(t, label) == pc' = [pc EXCEPT ![t] = label]

\* ConditionLockCondition::operator(): an unlocked read of the volatile.
GetCondition(t) == condition = op[t].target

-----------------------------------------------------------------------------
(* Lock(), Lock(t), Lock(t, timeout), TryLock(), TryLock(t)                *)

\* The call is made; a plain Lock()/TryLock() has target NoTarget.
CallLock(t, kind, target) ==
  /\ pc[t] = "idle"
  /\ op' = [op EXCEPT ![t] = [kind |-> kind, target |-> target]]
  /\ Goto(t, "acquire")
  /\ UNCHANGED <<locked, condition, sound>>

\* pthread_mutex_lock, _timedlock and _trylock when the mutex is free.
Acquire(t) ==
  /\ pc[t] = "acquire"
  /\ ~locked
  /\ locked' = TRUE
  /\ Goto(t, IF op[t].target = NoTarget THEN "held" ELSE "test")
  /\ UNCHANGED <<condition, op, sound>>

\* Mutex::Lock(timeout) and Mutex::TryLock report that the mutex stayed busy.
AcquireFails(t) ==
  /\ pc[t] = "acquire"
  /\ op[t].kind \in {"TimedLock", "TryLock"}
  /\ locked
  /\ Goto(t, "idle")
  /\ UNCHANGED <<locked, condition, op, sound>>

\* The loop condition holds: the call returns (true) with the mutex held.
TestHolds(t) ==
  /\ pc[t] = "test"
  /\ GetCondition(t)
  /\ Goto(t, "held")
  /\ UNCHANGED <<locked, condition, op, sound>>

\* The loop condition fails.  A TryLock gives up; a Lock is about to enter
\* pthread_cond_wait, still holding the mutex.
TestFails(t) ==
  /\ pc[t] = "test"
  /\ ~GetCondition(t)
  /\ Goto(t, IF op[t].kind = "TryLock" THEN "giveup" ELSE "wait")
  /\ UNCHANGED <<locked, condition, op, sound>>

\* pthread_cond_wait / _timedwait: release the mutex and sleep, atomically.
Wait(t) ==
  /\ pc[t] = "wait"
  /\ locked' = FALSE
  /\ Goto(t, "sleep")
  /\ UNCHANGED <<condition, op, sound>>

\* POSIX allows pthread_cond_wait to return with nobody having notified.
SpuriousWakeup(t) ==
  /\ pc[t] = "sleep"
  /\ Goto(t, "woken")
  /\ UNCHANGED <<locked, condition, op, sound>>

\* The deadline of pthread_cond_timedwait passes.
Timeout(t) ==
  /\ pc[t] = "sleep"
  /\ op[t].kind = "TimedLock"
  /\ Goto(t, "expired")
  /\ UNCHANGED <<locked, condition, op, sound>>

\* Mutant of Reacquire: "if" instead of "while" in Condition::Lock.
Reacquire_NoRetest(t) ==
  /\ pc[t] \in {"woken", "expired"}
  /\ ~locked
  /\ locked' = TRUE
  /\ Goto(t, IF pc[t] = "woken" THEN "held" ELSE "giveup")
  /\ UNCHANGED <<condition, op, sound>>

\* The wait returns with the mutex reacquired: back to the loop condition, or,
\* after ETIMEDOUT, to Unlock() and false without another look at it.
Reacquire(t) ==
  /\ pc[t] \in {"woken", "expired"}
  /\ ~locked
  /\ locked' = TRUE
  /\ Goto(t, IF pc[t] = "woken" THEN "test" ELSE "giveup")
  /\ UNCHANGED <<condition, op, sound>>

\* Mutant of GiveUp: false is returned without Unlock().
GiveUp_NoUnlock(t) ==
  /\ pc[t] = "giveup"
  /\ Goto(t, "idle")
  /\ UNCHANGED <<locked, condition, op, sound>>

\* The Unlock() before a false return.
GiveUp(t) ==
  /\ pc[t] = "giveup"
  /\ locked' = FALSE
  /\ Goto(t, "idle")
  /\ UNCHANGED <<condition, op, sound>>

-----------------------------------------------------------------------------
(* Unlock(), Unlock(c), Signal(c), Broadcast(c), SetCondition(c)           *)

\* Unlock() by the owner.
Unlock(t) ==
  /\ pc[t] = "held"
  /\ locked' = FALSE
  /\ Goto(t, "idle")
  /\ UNCHANGED <<condition, op, sound>>

\* The caller holds the mutex and goes on to wake every sleeper.
Sound(t, kind) == pc[t] = "held" /\ kind \in {"Broadcast", "Unlock"}

\* First half of a notification: the assignment to condition.  SetCondition
\* consists of nothing else.  Unlock(c) is for the owner only.
Assign(t, kind, c) ==
  /\ \/ pc[t] = "held"
     \/ pc[t] = "idle" /\ kind # "Unlock"
  /\ condition' = c
  /\ op' = [op EXCEPT ![t] = [kind |-> kind, target |-> c]]
  /\ Goto(t, IF kind = "Set" THEN pc[t] ELSE IF pc[t] = "held" THEN "notify" ELSE "loose")
  /\ sound' = Sound(t, kind)
  /\ UNCHANGED locked

\* Where a notifier goes after its wake call.
Notified(t) == IF pc[t] = "loose" THEN "idle"
               ELSE IF op[t].kind = "Unlock" THEN "release" ELSE "held"

\* Mutant of Woken: every wake call wakes one sleeper only.
Woken_One(kind) ==
  LET sleepers == {s \in Threads : pc[s] = "sleep"}
  IN  IF sleepers = {} THEN {{}} ELSE {{s} : s \in sleepers}

\* Mutant of Woken: the condition is assigned and nobody is woken.
Woken_None(kind) == {{}}

\* Those a wake call may move from "sleep" to "woken": pthread_cond_signal picks
\* one sleeper if there is one, pthread_cond_broadcast takes all of them.
Woken(kind) ==
  LET sleepers == {s \in Threads : pc[s] = "sleep"}
  IN  IF kind = "Signal" /\ sleepers # {}
        THEN {{s} : s \in sleepers}
        ELSE {sleepers}

\* Second half: pthread_cond_signal / pthread_cond_broadcast.
Notify(t) ==
  /\ pc[t] \in {"notify", "loose"}
  /\ \E woken \in Woken(op[t].kind) :
       pc' = [s \in Threads |-> IF s = t THEN Notified(t)
                                ELSE IF s \in woken THEN "woken" ELSE pc[s]]
  /\ UNCHANGED <<locked, condition, op, sound>>

\* The Unlock() at the end of Unlock(c).
Release(t) ==
  /\ pc[t] = "release"
  /\ locked' = FALSE
  /\ Goto(t, "idle")
  /\ UNCHANGED <<condition, op, sound>>

-----------------------------------------------------------------------------
\* The calls a client may choose to make.
Call(t) ==
  \/ \E kind \in LockKinds, target \in Targets : CallLock(t, kind, target)
  \/ \E kind \in NotifyKinds, c \in Conditions : Assign(t, kind, c)
  \/ Unlock(t)

\* The steps inside a call, once it has been made.
Progress(t) ==
  \/ Acquire(t) \/ AcquireFails(t) \/ TestHolds(t) \/ TestFails(t) \/ Wait(t)
  \/ Reacquire(t) \/ GiveUp(t) \/ Notify(t) \/ Release(t)

\* Steps of the environment: what the system may do to a sleeper.
Environment(t) == SpuriousWakeup(t) \/ Timeout(t)

Next == \E t \in Threads : Call(t) \/ Progress(t) \/ Environment(t)

\* A thread inside a call keeps running.  Clients owe nothing, and nothing makes
\* a sleeper wake.  The scheduler eventually lets a waiter that finds the mutex
\* free again and again have it (strong fairness of the two acquisitions).
Fairness == \A t \in Threads :
  /\ WF_vars(TestHolds(t) \/ TestFails(t) \/ Wait(t) \/ GiveUp(t) \/ Notify(t) \/ Release(t))
  /\ SF_vars(Acquire(t) \/ Reacquire(t))

Spec == Init /\ [][Next]_vars

FairSpec == Spec /\ Fairness

-----------------------------------------------------------------------------
\* The lock, its condition and every thread's place in condition.h stay in their
\* domains; the condition is always a value some client asked for.
TypeOK ==
  /\ locked \in BOOLEAN
  /\ condition \in Conditions
  /\ pc \in [Threads -> PCs]
  /\ op \in [Threads -> Ops]
  /\ sound \in BOOLEAN

\* The mutex is held exactly when one thread's code is between an acquisition
\* and the matching release, on every path of every Lock, TryLock, timed Lock
\* and Unlock (condition.h): no path leaves it locked with no owner, and no two
\* threads own it at once.
MutualExclusion ==
  /\ \A t, u \in Threads : pc[t] \in Owning /\ pc[u] \in Owning => t = u
  /\ locked <=> \E t \in Threads : pc[t] \in Owning

\* From the moment Lock(c) returns until its caller itself notifies, the
\* condition is c; after Broadcast(c) or Signal(c) by the owner it is that c.
\* It holds as long as notifiers hold the mutex: a notification without it can
\* change the condition under the owner's hands.
OwnerKnowsCondition ==
  sound => \A t \in Threads :
     pc[t] \in {"held", "notify", "release"} /\ op[t].target # NoTarget
        => condition = op[t].target

\* A thread asleep for the condition that now holds has its wake call coming:
\* the owner is between its assignment and its broadcast.  This is what the
\* while-loop of Condition::Lock under the mutex buys, provided the condition
\* was assigned by an owner who broadcasts: Signal(c) wakes a single sleeper,
\* perhaps one who waits for something else, and without the mutex the wake
\* call can fall between a sleeper's test and its sleep.
NoLostWakeup ==
  sound => \A s \in Threads :
     pc[s] = "sleep" /\ op[s].target = condition
        => \E t \in Threads : pc[t] = "notify"

(* What makes the two inductive, besides mutual exclusion.                 *)

\* Between a failed test and the sleep nobody makes the condition come true:
\* both happen under the mutex, and so does a sound assignment.
WaiterTested ==
  sound => \A t \in Threads : pc[t] = "wait" => op[t].target # condition

\* The owner whose wake call is still to come wakes everybody.
NotifierBroadcasts ==
  sound => \A t \in Threads : pc[t] = "notify" => op[t].kind \in {"Broadcast", "Unlock"}

IInv ==
  /\ TypeOK
  /\ MutualExclusion
  /\ OwnerKnowsCondition
  /\ WaiterTested
  /\ NotifierBroadcasts
  /\ NoLostWakeup

\* If the condition settles at c through a sound notification, and owners keep
\* releasing the mutex, a pending Lock(c) returns, wherever in its loop it was:
\* neither the test nor the sleep nor the reacquisition can be where it stays.
LockReturns ==
  \A t \in Threads, c \in Conditions :
     (<>[](sound /\ condition = c) /\ []<>(~locked))
        => ((pc[t] = "acquire" /\ op[t] = [kind |-> "Lock", target |-> c]) ~> (pc[t] = "held"))

=============================================================================
