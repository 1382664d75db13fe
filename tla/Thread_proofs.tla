---------------------------- MODULE Thread_proofs ----------------------------
(***************************************************************************)
(* Safety of Thread, for any number of starts and pollers.                 *)
(*                                                                         *)
(* The argument: a handle is dropped only by the owner's join or by the    *)
(* destructor.  Hence Start(), which insists on a NULL handle, leaves no   *)
(* thread behind (EarlierAreOver); what the owner has seen of its thread   *)
(* is still so when it acts on it (OwnerPlace); and a poller, who gets     *)
(* past the status lock only once it says Stopped, never joins             *)
(* (PollerPlace).  CountExact keeps the object alive that long.            *)
(***************************************************************************)
EXTENDS Thread, TLAPS

USE ClientAssumption, MaxStartsAssumption
USE DEF Starts, Null, Clients, lockVars, threadVars, clientVars, Goto, Alone

-----------------------------------------------------------------------------
\* A new object satisfies IInv.
LEMMA InitInv == Init => IInv
<1> SUFFICES ASSUME Init PROVE IInv
  OBVIOUS
<1> USE DEF Init
<1>1. TypeOK
  <2>1. /\ locked \in [Starts -> BOOLEAN] /\ cancelled \in [Starts -> BOOLEAN]
        /\ threw \in [Clients -> BOOLEAN] /\ owned \in BOOLEAN /\ fault \in BOOLEAN
    BY Zenon
  <2> QED BY <2>1 DEF TypeOK
<1>2. NoFault /\ StatusTells /\ EarlierAreOver
  BY DEF NoFault, StatusTells, EarlierAreOver
<1>3. OwnerPlace /\ PollerPlace /\ HandleTells
  BY DEF OwnerPlace, PollerPlace, HandleTells
<1>4. CountExact
  BY DEF CountExact
<1>5. WaitedIsOver /\ RunningIsNamed
  BY DEF WaitedIsOver, RunningIsNamed
<1> QED BY <1>1, <1>2, <1>3, <1>4, <1>5 DEF IInv

-----------------------------------------------------------------------------
(* The owner                                                               *)

\* Start() begins only with a NULL handle: what went before is over, and the new
\* thread gets a reference of its own.
LEMMA StartStep == ASSUME IInv, Start PROVE IInv'
<1> USE DEF Start
<1>1. TypeOK'
  BY DEF IInv, TypeOK
<1>2. StatusTells'
  BY DEF IInv, TypeOK, StatusTells, EarlierAreOver
<1>3. EarlierAreOver'
  BY DEF IInv, TypeOK, EarlierAreOver, HandleTells
<1>4. OwnerPlace'
  BY DEF IInv, TypeOK, EarlierAreOver, OwnerPlace
<1>5. PollerPlace'
  BY DEF IInv, PollerPlace
<1>6. HandleTells'
  BY DEF IInv, TypeOK, EarlierAreOver, HandleTells, CountExact
<1>7. CountExact'
  BY DEF IInv, TypeOK, HandleTells, CountExact
<1>8. RunningIsNamed'
  BY DEF IInv, RunningIsNamed
<1>9. NoFault' /\ WaitedIsOver'
  BY DEF IInv, NoFault, WaitedIsOver
<1> QED BY <1>1, <1>2, <1>3, <1>4, <1>5, <1>6, <1>7, <1>8, <1>9 DEF IInv

\* pthread_create: the thread may run from now on, before its handle is stored.
LEMMA StartCreateStep == ASSUME IInv, StartCreate PROVE IInv'
<1> USE DEF StartCreate
<1>1. TypeOK'
  BY DEF IInv, TypeOK, OwnerPlace
<1>2. StatusTells'
  BY DEF IInv, StatusTells, OwnerPlace
<1>3. EarlierAreOver'
  BY DEF IInv, EarlierAreOver
<1>4. OwnerPlace'
  BY DEF IInv, TypeOK, OwnerPlace
<1>5. PollerPlace'
  BY DEF IInv, PollerPlace
<1>6. HandleTells'
  BY DEF IInv, TypeOK, OwnerPlace, HandleTells
<1>7. CountExact'
  BY DEF IInv, TypeOK, OwnerPlace, CountExact
<1>8. WaitedIsOver'
  BY DEF IInv, OwnerPlace, WaitedIsOver
<1>9. RunningIsNamed'
  BY DEF IInv, TypeOK, RunningIsNamed
<1>10. NoFault'
  BY DEF IInv, NoFault
<1> QED BY <1>1, <1>2, <1>3, <1>4, <1>5, <1>6, <1>7, <1>8, <1>9, <1>10 DEF IInv

\* pthread_create fails and the reference is given back.
LEMMA StartFailsStep == ASSUME IInv, StartFails PROVE IInv'
<1> USE DEF StartFails
<1>1. TypeOK'
  BY DEF IInv, TypeOK, CountExact
<1>2. OwnerPlace'
  BY DEF IInv, OwnerPlace
<1>3. PollerPlace'
  BY DEF IInv, PollerPlace
<1>4. HandleTells'
  BY DEF IInv, HandleTells, CountExact
<1>5. CountExact'
  BY DEF IInv, TypeOK, OwnerPlace, CountExact
<1>6. RunningIsNamed'
  BY DEF IInv, RunningIsNamed
<1>7. NoFault' /\ StatusTells' /\ EarlierAreOver' /\ WaitedIsOver'
  BY DEF IInv, NoFault, StatusTells, EarlierAreOver, WaitedIsOver
<1> QED BY <1>1, <1>2, <1>3, <1>4, <1>5, <1>6, <1>7 DEF IInv

\* The handle is stored; the thread may be over by now.
LEMMA StartSetHandleStep == ASSUME IInv, StartSetHandle PROVE IInv'
<1> USE DEF StartSetHandle
<1>1. TypeOK'
  BY DEF IInv, TypeOK
<1>2. EarlierAreOver'
  BY DEF IInv, EarlierAreOver
<1>3. OwnerPlace'
  BY DEF IInv, TypeOK, OwnerPlace
<1>4. PollerPlace'
  BY DEF IInv, PollerPlace
<1>5. HandleTells'
  BY DEF IInv, OwnerPlace, HandleTells
<1>6. CountExact'
  BY DEF IInv, OwnerPlace, CountExact
<1>7. RunningIsNamed'
  BY DEF IInv, EarlierAreOver, RunningIsNamed
<1>8. NoFault' /\ StatusTells' /\ WaitedIsOver'
  BY DEF IInv, NoFault, StatusTells, WaitedIsOver
<1> QED BY <1>1, <1>2, <1>3, <1>4, <1>5, <1>6, <1>7, <1>8 DEF IInv

\* The owner calls Wait().
LEMMA CallWaitStep == ASSUME IInv, CallWait PROVE IInv'
<1> USE DEF CallWait
<1>1. TypeOK'
  BY DEF IInv, TypeOK
<1>2. OwnerPlace'
  BY DEF IInv, OwnerPlace
<1>3. PollerPlace'
  BY DEF IInv, PollerPlace
<1>4. HandleTells'
  BY DEF IInv, HandleTells
<1>5. CountExact'
  BY DEF IInv, CountExact
<1>6. RunningIsNamed'
  BY DEF IInv, RunningIsNamed
<1>7. NoFault' /\ StatusTells' /\ EarlierAreOver' /\ WaitedIsOver'
  BY DEF IInv, NoFault, StatusTells, EarlierAreOver, WaitedIsOver
<1> QED BY <1>1, <1>2, <1>3, <1>4, <1>5, <1>6, <1>7 DEF IInv

\* The owner calls Stop() on a thread whose status is Started, so there is a handle.
LEMMA CallStopStep == ASSUME IInv, CallStop PROVE IInv'
<1> USE DEF CallStop, GetStatus
<1>1. TypeOK'
  BY DEF IInv, TypeOK
<1>2. OwnerPlace'
  BY DEF IInv, OwnerPlace
<1>3. PollerPlace'
  BY DEF IInv, PollerPlace
<1>4. HandleTells'
  BY DEF IInv, HandleTells
<1>5. CountExact'
  BY DEF IInv, CountExact
<1>6. RunningIsNamed'
  BY DEF IInv, RunningIsNamed
<1>7. NoFault' /\ StatusTells' /\ EarlierAreOver' /\ WaitedIsOver'
  BY DEF IInv, NoFault, StatusTells, EarlierAreOver, WaitedIsOver
<1> QED BY <1>1, <1>2, <1>3, <1>4, <1>5, <1>6, <1>7 DEF IInv

\* The handle is still there when pthread_cancel is called: only the owner drops it.
LEMMA StopCancelStep == ASSUME IInv, StopCancel PROVE IInv'
<1> USE DEF StopCancel
<1>1. TypeOK'
  BY DEF IInv, TypeOK, OwnerPlace
<1>2. NoFault'
  BY DEF IInv, TypeOK, NoFault, OwnerPlace, HandleTells
<1>3. OwnerPlace'
  BY DEF IInv, OwnerPlace
<1>4. PollerPlace'
  BY DEF IInv, PollerPlace
<1>5. HandleTells'
  BY DEF IInv, HandleTells
<1>6. CountExact'
  BY DEF IInv, CountExact
<1>7. RunningIsNamed'
  BY DEF IInv, RunningIsNamed
<1>8. StatusTells' /\ EarlierAreOver' /\ WaitedIsOver'
  BY DEF IInv, StatusTells, EarlierAreOver, WaitedIsOver
<1> QED BY <1>1, <1>2, <1>3, <1>4, <1>5, <1>6, <1>7, <1>8 DEF IInv

\* The owner lets go: the object dies now, or when the thread has copied it.
LEMMA OwnerReleasesStep == ASSUME IInv, OwnerReleases PROVE IInv'
<1> USE DEF OwnerReleases, Release, GetStatus
<1>1. TypeOK'
  <2>1. refs' \in Nat /\ handle' \in Starts \cup {Null}
    BY DEF IInv, TypeOK, CountExact
  <2>2. reclaimed' \in [Starts -> {"no", "joined", "detached"}]
    BY DEF IInv, TypeOK
  <2>3. fault' \in BOOLEAN /\ owned' \in BOOLEAN
    BY Zenon DEF IInv, TypeOK
  <2> QED BY <2>1, <2>2, <2>3 DEF IInv, TypeOK
<1>2. NoFault'
  BY DEF IInv, TypeOK, NoFault, HandleTells
<1>3. EarlierAreOver'
  BY DEF IInv, TypeOK, EarlierAreOver
<1>4. OwnerPlace'
  BY DEF IInv, OwnerPlace
<1>5. PollerPlace'
  BY DEF IInv, PollerPlace
<1>6. HandleTells'
  BY DEF IInv, TypeOK, HandleTells, CountExact
<1>7. CountExact'
  BY DEF IInv, CountExact
<1>8. RunningIsNamed'
  BY DEF IInv, TypeOK, StatusTells, EarlierAreOver, HandleTells, WaitedIsOver,
         RunningIsNamed
<1>9. StatusTells' /\ WaitedIsOver'
  BY DEF IInv, StatusTells, WaitedIsOver
<1> QED BY <1>1, <1>2, <1>3, <1>4, <1>5, <1>6, <1>7, <1>8, <1>9 DEF IInv

-----------------------------------------------------------------------------
(* Waiting                                                                 *)

\* A timed wait got the status lock with Stopped.
LEMMA CallTimedWaitStep == ASSUME IInv, NEW k \in Clients, CallTimedWait(k) PROVE IInv'
<1> USE DEF CallTimedWait
<1>1. TypeOK'
  BY DEF IInv, TypeOK
<1>2. OwnerPlace'
  BY DEF IInv, OwnerPlace
<1>3. PollerPlace'
  BY DEF IInv, TypeOK, PollerPlace
<1>4. HandleTells'
  BY DEF IInv, HandleTells
<1>5. CountExact'
  BY DEF IInv, CountExact
<1>6. RunningIsNamed'
  BY DEF IInv, RunningIsNamed
<1>7. NoFault' /\ StatusTells' /\ EarlierAreOver' /\ WaitedIsOver'
  BY DEF IInv, NoFault, StatusTells, EarlierAreOver, WaitedIsOver
<1> QED BY <1>1, <1>2, <1>3, <1>4, <1>5, <1>6, <1>7 DEF IInv

\* Wait() reads the status; a poller cannot find Started.
LEMMA WaitStatusStep == ASSUME IInv, NEW k \in Clients, WaitStatus(k) PROVE IInv'
<1> USE DEF WaitStatus, GetStatus
<1>1. TypeOK'
  BY DEF IInv, TypeOK
<1>2. OwnerPlace'
  BY DEF IInv, OwnerPlace
<1>3. PollerPlace'
  BY DEF IInv, PollerPlace
<1>4. HandleTells'
  BY DEF IInv, HandleTells
<1>5. CountExact'
  BY DEF IInv, CountExact
<1>6. WaitedIsOver'
  BY DEF IInv, TypeOK, StatusTells, WaitedIsOver
<1>7. RunningIsNamed'
  BY DEF IInv, RunningIsNamed
<1>8. NoFault' /\ StatusTells' /\ EarlierAreOver'
  BY DEF IInv, NoFault, StatusTells, EarlierAreOver
<1> QED BY <1>1, <1>2, <1>3, <1>4, <1>5, <1>6, <1>7, <1>8 DEF IInv

\* Only the owner joins, and through a handle that names a thread not reclaimed.
LEMMA WaitJoinStep == ASSUME IInv, NEW k \in Clients, WaitJoin(k) PROVE IInv'
<1> USE DEF WaitJoin
<1>1. TypeOK'
  BY DEF IInv, TypeOK, OwnerPlace, PollerPlace
<1>2. NoFault'
  BY DEF IInv, TypeOK, NoFault, OwnerPlace, PollerPlace, HandleTells
<1>3. EarlierAreOver'
  BY DEF IInv, EarlierAreOver
<1>4. OwnerPlace'
  BY DEF IInv, TypeOK, OwnerPlace, PollerPlace, HandleTells
<1>5. PollerPlace'
  BY DEF IInv, PollerPlace
<1>6. HandleTells'
  BY DEF IInv, TypeOK, EarlierAreOver, HandleTells
<1>7. CountExact'
  BY DEF IInv, CountExact
<1>8. WaitedIsOver'
  BY DEF IInv, WaitedIsOver
<1>9. RunningIsNamed'
  BY DEF IInv, RunningIsNamed
<1>10. StatusTells'
  BY DEF IInv, StatusTells
<1> QED BY <1>1, <1>2, <1>3, <1>4, <1>5, <1>6, <1>7, <1>8, <1>9, <1>10 DEF IInv

-----------------------------------------------------------------------------
(* The started thread                                                      *)

\* StaticMain copies the object and releases it, perhaps as the last one.
LEMMA ThreadCopiesStep == ASSUME IInv, NEW g \in Starts, ThreadCopies(g) PROVE IInv'
<1> USE DEF ThreadCopies, Release, GetStatus
<1>1. TypeOK'
  BY DEF IInv, TypeOK, StatusTells, EarlierAreOver, PollerPlace, HandleTells,
         CountExact, RunningIsNamed
<1>2. NoFault'
  BY DEF IInv, TypeOK, NoFault, HandleTells
<1>3. StatusTells'
  BY DEF IInv, StatusTells
<1>4. EarlierAreOver'
  BY DEF IInv, TypeOK, EarlierAreOver
<1>5. OwnerPlace'
  BY DEF IInv, EarlierAreOver, OwnerPlace, CountExact
<1>6. HandleTells'
  BY DEF IInv, TypeOK, EarlierAreOver, HandleTells, CountExact
<1>7. CountExact'
  BY DEF IInv, TypeOK, EarlierAreOver, OwnerPlace, CountExact
<1>8. WaitedIsOver'
  BY DEF IInv, WaitedIsOver
<1>9. RunningIsNamed'
  BY DEF IInv, TypeOK, StatusTells, EarlierAreOver, HandleTells, RunningIsNamed
<1>10. PollerPlace'
  BY DEF IInv, PollerPlace
<1> QED BY <1>1, <1>2, <1>3, <1>4, <1>5, <1>6, <1>7, <1>8, <1>9, <1>10 DEF IInv

\* Main() is over.
LEMMA ThreadMainOverStep == ASSUME IInv, NEW g \in Starts, ThreadMainOver(g) PROVE IInv'
<1> USE DEF ThreadMainOver
<1>1. TypeOK'
  BY DEF IInv, TypeOK
<1>2. StatusTells'
  BY DEF IInv, StatusTells
<1>3. EarlierAreOver'
  BY DEF IInv, EarlierAreOver
<1>4. OwnerPlace'
  BY DEF IInv, OwnerPlace
<1>5. HandleTells'
  BY DEF IInv, HandleTells
<1>6. CountExact'
  BY DEF IInv, CountExact
<1>7. WaitedIsOver'
  BY DEF IInv, WaitedIsOver
<1>8. RunningIsNamed'
  BY DEF IInv, RunningIsNamed
<1>9. NoFault' /\ PollerPlace'
  BY DEF IInv, NoFault, PollerPlace
<1> QED BY <1>1, <1>2, <1>3, <1>4, <1>5, <1>6, <1>7, <1>8, <1>9 DEF IInv

\* StaticCleanup tells the status lock.
LEMMA ThreadCleanupStep == ASSUME IInv, NEW g \in Starts, ThreadCleanup(g) PROVE IInv'
<1> USE DEF ThreadCleanup
<1>1. TypeOK'
  BY DEF IInv, TypeOK
<1>2. StatusTells'
  BY DEF IInv, TypeOK, StatusTells
<1>3. EarlierAreOver'
  BY DEF IInv, EarlierAreOver
<1>4. OwnerPlace'
  BY DEF IInv, OwnerPlace
<1>5. PollerPlace'
  BY DEF IInv, PollerPlace
<1>6. HandleTells'
  BY DEF IInv, HandleTells
<1>7. CountExact'
  BY DEF IInv, CountExact
<1>8. WaitedIsOver'
  BY DEF IInv, WaitedIsOver
<1>9. RunningIsNamed'
  BY DEF IInv, RunningIsNamed
<1>10. NoFault'
  BY DEF IInv, NoFault
<1> QED BY <1>1, <1>2, <1>3, <1>4, <1>5, <1>6, <1>7, <1>8, <1>9, <1>10 DEF IInv

\* The pthread is dead.
LEMMA ThreadDiesStep == ASSUME IInv, NEW g \in Starts, ThreadDies(g) PROVE IInv'
<1> USE DEF ThreadDies
<1>1. TypeOK'
  BY DEF IInv, TypeOK
<1>2. StatusTells'
  BY DEF IInv, StatusTells
<1>3. EarlierAreOver'
  BY DEF IInv, EarlierAreOver
<1>4. OwnerPlace'
  BY DEF IInv, OwnerPlace
<1>5. HandleTells'
  BY DEF IInv, HandleTells
<1>6. CountExact'
  BY DEF IInv, CountExact
<1>7. WaitedIsOver'
  BY DEF IInv, WaitedIsOver
<1>8. RunningIsNamed'
  BY DEF IInv, RunningIsNamed
<1>9. NoFault' /\ PollerPlace'
  BY DEF IInv, NoFault, PollerPlace
<1> QED BY <1>1, <1>2, <1>3, <1>4, <1>5, <1>6, <1>7, <1>8, <1>9 DEF IInv

-----------------------------------------------------------------------------
(* The theorems                                                            *)

\* Every step of the object's clients and of the started threads keeps IInv.
LEMMA StepInv == IInv /\ [Next]_vars => IInv'
<1> SUFFICES ASSUME IInv, [Next]_vars PROVE IInv'
  OBVIOUS
<1>1. CASE Start \/ StartCreate \/ StartFails \/ StartSetHandle
  BY <1>1, StartStep, StartCreateStep, StartFailsStep, StartSetHandleStep
<1>2. CASE CallWait \/ CallStop \/ StopCancel \/ OwnerReleases
  BY <1>2, CallWaitStep, CallStopStep, StopCancelStep, OwnerReleasesStep
<1>3. ASSUME NEW k \in Clients, Call(k) PROVE IInv'
  BY <1>3, CallTimedWaitStep, WaitStatusStep, WaitJoinStep DEF Call
<1>4. ASSUME NEW g \in Starts, Started(g) PROVE IInv'
  BY <1>4, ThreadCopiesStep, ThreadMainOverStep, ThreadCleanupStep, ThreadDiesStep DEF Started
<1>5. CASE UNCHANGED vars
  BY <1>5 DEF vars, IInv, TypeOK, NoFault, StatusTells, EarlierAreOver, OwnerPlace, PollerPlace,
              HandleTells, CountExact, WaitedIsOver, RunningIsNamed
<1> QED BY <1>1, <1>2, <1>3, <1>4, <1>5 DEF Next

\* The inductive invariant holds of every behaviour of the object.
THEOREM Invariance == Spec => []IInv
  BY InitInv, StepInv, PTL DEF Spec

\* Variables keep their types; the reference count never falls below zero.
THEOREM TypeCorrect == Spec => []TypeOK
<1>1. IInv => TypeOK
  BY DEF IInv
<1> QED BY <1>1, Invariance, PTL

\* No pthread call of thread.cpp is made on a NULL or reclaimed handle.
THEOREM HandleTheorem == Spec => []NoFault
<1>1. IInv => NoFault
  BY DEF IInv
<1> QED BY <1>1, Invariance, PTL

\* A successful Wait(), Wait(timeout) or TryWait() means that Main() is over.
THEOREM WaitedTheorem == Spec => []WaitedIsOver
<1>1. IInv => WaitedIsOver
  BY DEF IInv
<1> QED BY <1>1, Invariance, PTL

\* A pthread that runs is named by the object or detached by its destructor.
THEOREM NamedTheorem == Spec => []RunningIsNamed
<1>1. IInv => RunningIsNamed
  BY DEF IInv
<1> QED BY <1>1, Invariance, PTL

\* StaticMain copies an object that is alive, whenever the owner lets go.
THEOREM AliveTheorem == Spec => []CopiesLiveObject
<1>1. IInv => CopiesLiveObject
  BY DEF IInv, TypeOK, EarlierAreOver, CountExact, CopiesLiveObject
<1> QED BY <1>1, Invariance, PTL

\* A poller's TryWait() or Wait(timeout) throws only when the owner has joined
\* the thread in the meantime or has not stored its handle yet.
THEOREM RaceTheorem == Spec => PollerThrowsOnlyInRace
<1> DEFINE Throw == \A k \in Pollers :
             threw'[k] /\ ~threw[k] => reclaimed[latest] = "joined" \/ pc[Owner] = "sethandle"
<1>1. IInv /\ [Next]_vars => [Throw]_vars
  <2> SUFFICES ASSUME IInv, Next, NEW k \in Pollers, threw'[k], ~threw[k]
               PROVE  reclaimed[latest] = "joined" \/ pc[Owner] = "sethandle"
    OBVIOUS
  <2>1. WaitStatus(k)
    <3>1. threw' # threw
      OBVIOUS
    <3>2. PICK c \in Clients : WaitStatus(c)
      <4>1. ~(Start \/ StartCreate \/ StartFails \/ StartSetHandle)
        BY <3>1 DEF Start, StartCreate, StartFails, StartSetHandle
      <4>2. ~(CallWait \/ CallStop \/ StopCancel \/ OwnerReleases)
        BY <3>1 DEF CallWait, CallStop, StopCancel, OwnerReleases
      <4>3. \A g \in Starts : ~Started(g)
        BY <3>1 DEF Started, ThreadCopies, ThreadMainOver, ThreadCleanup, ThreadDies
      <4>4. PICK c \in Clients : Call(c)
        BY <4>1, <4>2, <4>3 DEF Next
      <4>5. ~(CallTimedWait(c) \/ WaitJoin(c))
        BY <3>1 DEF CallTimedWait, WaitJoin
      <4> QED BY <4>4, <4>5 DEF Call
    <3>3. c = k
      BY <3>2 DEF WaitStatus, IInv, TypeOK
    <3> QED BY <3>2, <3>3
  <2>2. handle = Null
    BY <2>1 DEF WaitStatus, GetStatus, IInv, TypeOK, EarlierAreOver
  <2> QED
    BY <2>1, <2>2 DEF WaitStatus, IInv, PollerPlace, StatusTells, HandleTells
<1> QED BY <1>1, Invariance, PTL DEF Spec, PollerThrowsOnlyInRace

=============================================================================
