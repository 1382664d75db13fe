------------------------------- MODULE Thread -------------------------------
(***************************************************************************)
(* The life of a Bricks::Threading::Thread object and of the pthreads it   *)
(* starts, one after the other.                                            *)
(*                                                                         *)
(* The object keeps a handle (NULL or a pthread) and a ConditionLock       *)
(* `status', made anew and locked by every Start() and unlocked with       *)
(* Stopped by the started thread when its Main() is over.  The owner holds *)
(* a reference and calls everything; the pollers borrow the object and     *)
(* only call TryWait() and Wait(timeout).  The started thread has a        *)
(* reference from Retain() in Start() until it has copied the object.      *)
(***************************************************************************)
EXTENDS Integers

CONSTANTS Owner,     \* the client that owns the object
          Pollers,   \* the clients that poll it
          MaxStarts  \* bound: how many status locks Start() makes

ASSUME ClientAssumption == Owner \notin Pollers
ASSUME MaxStartsAssumption == MaxStarts \in Nat

Clients == {Owner} \cup Pollers

\* The starts are numbered; Null is the NULL handle.
Starts == 1 .. MaxStarts
Null == 0

VARIABLES
  handle,     \* Thread::threadHandle: the number of the start whose pthread it names, or Null
  latest,     \* the start that made the current Thread::status, 0 if none did
  condition,  \* the status locks' conditions
  locked,     \* the status locks' mutexes
  thread,     \* the pthreads: none, created, main, over, cleaned, dead
  cancelled,  \* pthread_cancel was called on it
  reclaimed,  \* no, joined or detached
  refs,       \* the object's reference count
  owned,      \* the owner has not let go of its reference
  fault,      \* a pthread call was made on NULL or on a reclaimed pthread
  pc,         \* each client: idle, create, sethandle, wait, join, cancel
  waited,     \* the start a client's last successful wait was for, 0 if none
  threw       \* a client's last Wait threw InvalidOperationException

lockVars   == <<condition, locked>>
threadVars == <<thread, cancelled>>
clientVars == <<waited, threw>>

vars == <<handle, latest, lockVars, threadVars, reclaimed, refs, owned, fault, pc, clientVars>>

Init ==
  /\ handle = Null /\ latest = 0
  /\ condition = [g \in Starts |-> "Started"]
  /\ locked = [g \in Starts |-> FALSE]
  /\ thread = [g \in Starts |-> "none"]
  /\ cancelled = [g \in Starts |-> FALSE]
  /\ reclaimed = [g \in Starts |-> "no"]
  /\ refs = 1 /\ owned = TRUE /\ fault = FALSE
  /\ pc = [k \in Clients |-> "idle"]
  /\ waited = [k \in Clients |-> 0]
  /\ threw = [k \in Clients |-> FALSE]

Goto(k, label) == pc' = [pc EXCEPT ![k] = label]

\* Mutant of GetStatus: answers for an owned thread as for one that is not.
GetStatus_Unowned == IF handle = Null THEN "Initialized" ELSE "Started"

\* GetStatus() of a thread that owns its pthread: an unlocked read.
GetStatus == IF handle = Null THEN "Initialized" ELSE condition[latest]

\* Nobody else is inside a call, so the owner may restart or let go.
Alone == \A k \in Pollers : pc[k] = "idle"

-----------------------------------------------------------------------------
(* Start()                                                                 *)

\* Mutant of Start: the thread gets no reference of its own.
Start_NoRetain ==
  /\ pc[Owner] = "idle" /\ owned /\ Alone
  /\ handle = Null /\ latest < MaxStarts
  /\ latest' = latest + 1
  /\ condition' = [condition EXCEPT ![latest + 1] = "Started"]
  /\ locked' = [locked EXCEPT ![latest + 1] = TRUE]
  /\ Goto(Owner, "create")
  /\ UNCHANGED <<handle, threadVars, reclaimed, refs, fault, owned, clientVars>>

\* The new status lock is locked, the object retained.  (With a handle set
\* Start() throws InvalidOperationException and changes nothing.)
Start ==
  /\ pc[Owner] = "idle" /\ owned /\ Alone
  /\ handle = Null /\ latest < MaxStarts
  /\ latest' = latest + 1
  /\ condition' = [condition EXCEPT ![latest + 1] = "Started"]
  /\ locked' = [locked EXCEPT ![latest + 1] = TRUE]
  /\ refs' = refs + 1
  /\ Goto(Owner, "create")
  /\ UNCHANGED <<handle, threadVars, reclaimed, fault, owned, clientVars>>

StartCreate ==
  /\ pc[Owner] = "create"
  /\ thread' = [thread EXCEPT ![latest] = "created"]
  /\ Goto(Owner, "sethandle")
  /\ UNCHANGED <<handle, latest, lockVars, cancelled, reclaimed, refs, fault, owned, clientVars>>

\* pthread_create fails: the reference is given back, the lock stays locked.
StartFails ==
  /\ pc[Owner] = "create"
  /\ refs' = refs - 1
  /\ Goto(Owner, "idle")
  /\ UNCHANGED <<handle, latest, lockVars, threadVars, reclaimed, fault, owned, clientVars>>

StartSetHandle ==
  /\ pc[Owner] = "sethandle"
  /\ handle' = latest
  /\ Goto(Owner, "idle")
  /\ UNCHANGED <<latest, lockVars, threadVars, reclaimed, refs, fault, owned, clientVars>>

-----------------------------------------------------------------------------
(* ~Thread()                                                               *)

\* Mutant of Release: the destructor only drops the handle.
Release_NoDetach ==
  /\ refs' = refs - 1
  /\ handle' = IF refs = 1 THEN Null ELSE handle
  /\ UNCHANGED <<reclaimed, fault>>

\* Release(): the last reference destroys the object.  Detach() detaches a
\* pthread whose status is Started; Cleanup() drops the handle in any case.
Release ==
  /\ refs' = refs - 1
  /\ IF refs = 1
       THEN /\ handle' = Null
            /\ IF GetStatus = "Started"
                 THEN /\ reclaimed' = [reclaimed EXCEPT ![handle] = "detached"]
                      /\ fault' = (fault \/ reclaimed[handle] # "no")
                 ELSE UNCHANGED <<reclaimed, fault>>
       ELSE UNCHANGED <<handle, reclaimed, fault>>

OwnerReleases ==
  /\ pc[Owner] = "idle" /\ owned /\ Alone
  /\ Release
  /\ owned' = FALSE
  /\ UNCHANGED <<latest, lockVars, threadVars, pc, clientVars>>

-----------------------------------------------------------------------------
(* The started thread: StaticMain and StaticCleanup                        *)

\* Copies the object, then releases it.
ThreadCopies(g) ==
  /\ thread[g] = "created"
  /\ thread' = [thread EXCEPT ![g] = "main"]
  /\ Release
  /\ UNCHANGED <<latest, lockVars, cancelled, pc, owned, clientVars>>

\* Main() returns, or is left through cancellation.
ThreadMainOver(g) ==
  /\ thread[g] = "main"
  /\ thread' = [thread EXCEPT ![g] = "over"]
  /\ UNCHANGED <<handle, latest, lockVars, cancelled, reclaimed, refs, fault, pc, owned, clientVars>>

\* Mutant of ThreadCleanup: takes the status lock, which Start() left locked.
ThreadCleanup_Locks(g) ==
  /\ thread[g] = "over"
  /\ ~locked[g]
  /\ condition' = [condition EXCEPT ![g] = "Stopped"]
  /\ thread' = [thread EXCEPT ![g] = "cleaned"]
  /\ UNCHANGED <<handle, latest, locked, cancelled, reclaimed, refs, fault, pc, owned, clientVars>>

\* StaticCleanup: status->Unlock(Stopped), on the copy's reference to the lock.
ThreadCleanup(g) ==
  /\ thread[g] = "over"
  /\ condition' = [condition EXCEPT ![g] = "Stopped"]
  /\ locked' = [locked EXCEPT ![g] = FALSE]
  /\ thread' = [thread EXCEPT ![g] = "cleaned"]
  /\ UNCHANGED <<handle, latest, cancelled, reclaimed, refs, fault, pc, owned, clientVars>>

ThreadDies(g) ==
  /\ thread[g] = "cleaned"
  /\ thread' = [thread EXCEPT ![g] = "dead"]
  /\ UNCHANGED <<handle, latest, lockVars, cancelled, reclaimed, refs, fault, pc, owned, clientVars>>

-----------------------------------------------------------------------------
(* Wait(), Wait(timeout), TryWait(), Stop()                                *)

\* Wait() by the owner.
CallWait ==
  /\ pc[Owner] = "idle" /\ owned
  /\ Goto(Owner, "wait")
  /\ UNCHANGED <<handle, latest, lockVars, threadVars, reclaimed, refs, fault, owned, clientVars>>

\* TryWait() and Wait(timeout) that get the status lock with Stopped, and give
\* it back; they go on to call Wait().  (Without it they return false.)
CallTimedWait(k) ==
  /\ pc[k] = "idle" /\ owned
  /\ pc[Owner] # "create" /\ latest # 0
  /\ ~locked[latest] /\ condition[latest] = "Stopped"
  /\ Goto(k, "wait")
  /\ UNCHANGED <<handle, latest, lockVars, threadVars, reclaimed, refs, fault, owned, clientVars>>

\* Mutant of WaitStatus: whatever is not Started counts as stopped.
WaitStatus_NoThrow(k) ==
  /\ pc[k] = "wait"
  /\ Goto(k, IF GetStatus = "Started" THEN "join" ELSE "idle")
  /\ waited' = [waited EXCEPT ![k] = IF GetStatus = "Started" THEN 0 ELSE latest]
  /\ threw' = [threw EXCEPT ![k] = FALSE]
  /\ UNCHANGED <<handle, latest, lockVars, threadVars, reclaimed, refs, fault, owned>>

\* Wait() reads the status: Stopped returns, anything but Started throws,
\* Started goes on to pthread_join.
WaitStatus(k) ==
  /\ pc[k] = "wait"
  /\ LET s == GetStatus
     IN  /\ Goto(k, IF s = "Started" THEN "join" ELSE "idle")
         /\ waited' = [waited EXCEPT ![k] = IF s = "Stopped" THEN latest ELSE 0]
         /\ threw' = [threw EXCEPT ![k] = s = "Initialized"]
  /\ UNCHANGED <<handle, latest, lockVars, threadVars, reclaimed, refs, fault, owned>>

\* pthread_join returns, and Cleanup() drops the handle.
WaitJoin(k) ==
  /\ pc[k] = "join"
  /\ handle # Null => thread[handle] = "dead"
  /\ handle' = Null
  /\ fault' = (fault \/ handle = Null \/ reclaimed[handle] # "no")
  /\ reclaimed' = [reclaimed EXCEPT ![handle] = "joined"]
  /\ waited' = [waited EXCEPT ![k] = handle]
  /\ Goto(k, "idle")
  /\ UNCHANGED <<latest, lockVars, threadVars, refs, threw, owned>>

\* Stop() reads the status, and cancels a thread that is Started.
CallStop ==
  /\ pc[Owner] = "idle" /\ owned
  /\ GetStatus = "Started"
  /\ Goto(Owner, "cancel")
  /\ UNCHANGED <<handle, latest, lockVars, threadVars, reclaimed, refs, fault, owned, clientVars>>

StopCancel ==
  /\ pc[Owner] = "cancel"
  /\ fault' = (fault \/ handle = Null \/ reclaimed[handle] # "no")
  /\ cancelled' = [cancelled EXCEPT ![handle] = TRUE]
  /\ Goto(Owner, "idle")
  /\ UNCHANGED <<handle, latest, lockVars, thread, reclaimed, refs, owned, clientVars>>

-----------------------------------------------------------------------------
Started(g) == ThreadCopies(g) \/ ThreadMainOver(g) \/ ThreadCleanup(g) \/ ThreadDies(g)

Call(k) == CallTimedWait(k) \/ WaitStatus(k) \/ WaitJoin(k)

Next ==
  \/ Start \/ StartCreate \/ StartFails \/ StartSetHandle
  \/ CallWait \/ CallStop \/ StopCancel \/ OwnerReleases
  \/ \E k \in Clients : Call(k)
  \/ \E g \in Starts : Started(g)

Spec == Init /\ [][Next]_vars

\* Started threads and calls under way run on; Main() need only end if it has
\* been cancelled.
Fairness ==
  /\ WF_vars(StartCreate \/ StartFails \/ StartSetHandle \/ StopCancel)
  /\ \A k \in Clients : WF_vars(WaitStatus(k) \/ WaitJoin(k))
  /\ \A g \in Starts : /\ WF_vars(ThreadCopies(g) \/ ThreadCleanup(g) \/ ThreadDies(g))
                       /\ WF_vars(cancelled[g] /\ ThreadMainOver(g))

FairSpec == Spec /\ Fairness

-----------------------------------------------------------------------------
\* All state of thread.cpp stays in its domain: the handle is NULL or names a
\* start that was made, and the reference count never falls below zero.
TypeOK ==
  /\ handle \in Starts \cup {Null} /\ latest \in 0 .. MaxStarts
  /\ condition \in [Starts -> {"Started", "Stopped"}]
  /\ locked \in [Starts -> BOOLEAN]
  /\ thread \in [Starts -> {"none", "created", "main", "over", "cleaned", "dead"}]
  /\ cancelled \in [Starts -> BOOLEAN]
  /\ reclaimed \in [Starts -> {"no", "joined", "detached"}]
  /\ refs \in Nat /\ owned \in BOOLEAN /\ fault \in BOOLEAN
  /\ pc \in [Clients -> {"idle", "create", "sethandle", "wait", "join", "cancel"}]
  /\ waited \in [Clients -> 0 .. MaxStarts]
  /\ threw \in [Clients -> BOOLEAN]

\* The object outlives the thread's need of it: StaticMain never copies a
\* destroyed object, also when the owner lets go right after Start().
CopiesLiveObject == \A g \in Starts : thread[g] = "created" => refs > 0

\* No pthread is joined or cancelled through a NULL handle, and none is joined,
\* detached or cancelled after it was joined or detached, however pollers and
\* the end of the thread interleave with the owner's Wait(), Stop() and release.
NoFault == ~fault

\* A Wait(), Wait(timeout) or TryWait() that succeeded did so after the Main()
\* of the thread it was for.
WaitedIsOver ==
  \A k \in Clients : waited[k] # 0 => thread[waited[k]] \in {"cleaned", "dead"}

\* A pthread that still runs Main() is never forgotten: the object names it, or
\* is about to, or has detached it.
RunningIsNamed ==
  \A g \in Starts :
     thread[g] \in {"created", "main", "over"} =>
        \/ handle = g
        \/ pc[Owner] = "sethandle" /\ latest = g
        \/ reclaimed[g] = "detached"

\* TryWait() and Wait(timeout) of a poller throw InvalidOperationException only
\* in two races: the thread they found Stopped has been joined by the owner, or
\* its handle has not been stored by Start() yet.
PollerThrowsOnlyInRace ==
  [][\A k \in Pollers :
       threw'[k] /\ ~threw[k] => reclaimed[latest] = "joined" \/ pc[Owner] = "sethandle"]_vars

-----------------------------------------------------------------------------
(* What makes the safety properties inductive.                             *)

\* A thread is past StaticCleanup exactly when its status lock says Stopped.
StatusTells ==
  \A g \in Starts : condition[g] = "Stopped" <=> thread[g] \in {"cleaned", "dead"}

\* Start() waits for nobody, yet it cannot leave a thread behind: the handle is
\* NULL again only after a failed creation or a join, so every earlier start
\* has come to its end.
EarlierAreOver ==
  /\ handle \in {Null, latest}
  /\ \A g \in Starts : g > latest => thread[g] = "none" /\ reclaimed[g] = "no"
  /\ \A g \in Starts : g < latest => thread[g] \in {"none", "dead"}

\* What the owner's place in Start(), Wait() and Stop() tells.
OwnerPlace ==
  /\ pc[Owner] # "idle" => owned
  /\ pc[Owner] \in {"create", "sethandle"} => /\ latest \in Starts /\ handle = Null
                                             /\ reclaimed[latest] = "no"
  /\ pc[Owner] = "create" => thread[latest] = "none"
  /\ pc[Owner] = "sethandle" => thread[latest] # "none"
  /\ pc[Owner] \in {"join", "cancel"} => handle # Null

\* A poller inside Wait() has seen Stopped, so that it never comes to the join.
PollerPlace ==
  \A k \in Pollers :
     /\ pc[k] \in {"idle", "wait"}
     /\ pc[k] = "wait" => owned /\ latest \in Starts /\ condition[latest] = "Stopped"

\* A handle names a pthread nobody has reclaimed; what has been joined is dead,
\* and only the destructor detaches.
HandleTells ==
  /\ handle # Null => thread[handle] # "none" /\ reclaimed[handle] = "no"
  /\ \A g \in Starts : reclaimed[g] = "joined" => thread[g] = "dead"
  /\ \A g \in Starts : reclaimed[g] = "detached" => refs = 0
  /\ latest \in Starts /\ handle = Null /\ owned /\ thread[latest] # "none"
       => pc[Owner] = "sethandle" \/ reclaimed[latest] = "joined"

\* The count is the owner's reference and the one Start() takes for the thread.
CountExact ==
  /\ refs = (IF owned THEN 1 ELSE 0)
            + (IF pc[Owner] = "create" \/ (latest \in Starts /\ thread[latest] = "created") THEN 1 ELSE 0)
  /\ refs = 0 => handle = Null

IInv ==
  /\ TypeOK
  /\ NoFault
  /\ StatusTells
  /\ EarlierAreOver
  /\ OwnerPlace
  /\ PollerPlace
  /\ HandleTells
  /\ CountExact
  /\ WaitedIsOver
  /\ RunningIsNamed

-----------------------------------------------------------------------------
(* Liveness                                                                *)

\* Stop() brings the thread to an end, through StaticCleanup.
StopEnds == \A g \in Starts : cancelled[g] ~> (thread[g] = "dead")

=============================================================================
