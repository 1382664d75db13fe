------------------------- MODULE ConditionLockHandoff -------------------------
(***************************************************************************)
(* The threads of test/threading-thread.cpp, TEST(ConditionLock), composed *)
(* with the lock they share: two threads pass the condition on,            *)
(*                                                                         *)
(*    thread1: Lock(1); Unlock(2)        thread2: Lock(2); Unlock(3)       *)
(*                                                                         *)
(* and the main thread starts them, sleeps 50 ms, calls Broadcast(1)       *)
(* WITHOUT the mutex, and then Lock(3, 1 s) followed by Unlock().          *)
(***************************************************************************)
EXTENDS ConditionLock, Sequences

CONSTANTS Main, Thread1, Thread2    \* the three members of Threads

VARIABLE done     \* how many calls of its program each thread has made

handoffVars == <<vars, done>>

\* The calls each thread makes, in order.
Program ==
  [t \in Threads |->
     CASE t = Main    -> << [kind |-> "Broadcast", target |-> 1],
                            [kind |-> "TimedLock", target |-> 3],
                            [kind |-> "Release",   target |-> NoTarget] >>
       [] t = Thread1 -> << [kind |-> "Lock",      target |-> 1],
                            [kind |-> "Unlock",    target |-> 2] >>
       [] t = Thread2 -> << [kind |-> "Lock",      target |-> 2],
                            [kind |-> "Unlock",    target |-> 3] >>]

HandoffInit == Init /\ done = [t \in Threads |-> 0]

\* The thread makes the next call of its program.
NextCall(t) ==
  /\ done[t] < Len(Program[t])
  /\ LET call == Program[t][done[t] + 1]
     IN  \/ call.kind \in LockKinds /\ CallLock(t, call.kind, call.target)
         \/ call.kind \in NotifyKinds /\ Assign(t, call.kind, call.target)
         \/ call.kind = "Release" /\ Unlock(t)
  /\ done' = [done EXCEPT ![t] = @ + 1]

\* The second allowed to Lock(3, 1 s) runs out only when the other threads have
\* nothing left to do: it is long against any step of theirs.
Expire ==
  /\ \A t \in Threads \ {Main} : pc[t] = "sleep" \/ (pc[t] = "idle" /\ done[t] = Len(Program[t]))
  /\ Timeout(Main)

\* Everything else a thread does inside a call; AcquireFails is left out for the
\* same reason.
Inside(t) ==
  \/ Acquire(t) \/ TestHolds(t) \/ TestFails(t) \/ Wait(t)
  \/ Reacquire(t) \/ GiveUp(t) \/ Notify(t) \/ Release(t)

HandoffNext ==
  \/ \E t \in Threads : NextCall(t)
  \/ Expire /\ UNCHANGED done
  \/ \E t \in Threads : (Inside(t) \/ SpuriousWakeup(t)) /\ UNCHANGED done

\* Once all is over the test has ended.
HandoffFairness == \A t \in Threads :
  /\ WF_handoffVars(NextCall(t))
  /\ SF_handoffVars(Inside(t) /\ UNCHANGED done)

HandoffSpec == HandoffInit /\ [][HandoffNext]_handoffVars /\ HandoffFairness

\* The branch of the test that expects condition 3 after both threads finished.
Completed ==
  /\ condition = 3
  /\ \A t \in Threads : pc[t] = "idle" /\ done[t] = Len(Program[t])

\* What the test asserts: Lock(3, 1 s) succeeds and the condition ends as 3
\* (its other branch is FAIL()).
HandoffCompletes == <>Completed

=============================================================================
