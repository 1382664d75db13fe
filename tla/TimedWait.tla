------------------------------ MODULE TimedWait ------------------------------
(***************************************************************************)
(* Waiting with a deadline: Time and Timespan arithmetic, Semaphore, the   *)
(* timed Lock of Mutex, and the loops that stand in for sem_timedwait and  *)
(* pthread_mutex_timedlock where the platform has none (timedtry_internal).*)
(*                                                                         *)
(* One object is modelled: a semaphore, or a mutex of either type, which   *)
(* is a semaphore of one unit but for the recursion.  `build' says whether *)
(* the platform's timed calls or the loops are compiled in.                *)
(***************************************************************************)
EXTENDS Integers, FiniteSets

CONSTANTS
  Clients,          \* the threads
  SecondTicks,      \* BRICKS_TIMESPAN_CONVERSION_SECONDS, ticks in a second
  TickNanos,        \* BRICKS_TIMESPAN_CONVERSION_NANOSECONDS, nanoseconds in a tick
  Lengths,          \* the timespans clients wait for, in ticks,
  Cuts,             \* and those they subtract from a time
  InitialValue,     \* of the semaphore
  MaxUnits,         \* bound on the units of the semaphore, and on those a thread takes
  FirstStart,       \* the clock at first,
  LastStart,        \* and the last time at which a call is made
  MaxClock          \* bound on the clock, in nanoseconds

ASSUME TimedWaitAssumption ==
  /\ SecondTicks \in Nat \ {0} /\ TickNanos \in Nat \ {0} /\ Lengths \subseteq Nat /\ Cuts \subseteq Nat
  /\ MaxUnits \in Nat /\ InitialValue \in 0 .. MaxUnits
  /\ FirstStart \in Nat /\ LastStart \in Nat /\ MaxClock \in Nat
  /\ \A span \in Lengths : LastStart + (TickNanos * span) < MaxClock

VARIABLES
  build,     \* "native" or "emulated"
  kind,      \* "semaphore", "mutex" or "recursive"
  units,     \* what can be taken
  holds,     \* units each thread took and has not given back
  clock,     \* the real time, in nanoseconds
  place,        \* each thread: idle, blocked (native), attempt, test (emulated)
  call,      \* its timed call: form, deadline, start, span, the span less, holds before
  result,    \* what its last timed call returned, "none" before
  late,      \* history: the loop found the deadline passed after it took a unit
  interrupted  \* history: a signal ended the last timed call

timedVars == <<build, kind, units, holds, clock, place, call, result, late, interrupted>>

-----------------------------------------------------------------------------
(* Time and Timespan                                                       *)

Nanos == SecondTicks * TickNanos

\* The division and the remainder of C
Quot(a, b) == IF a >= 0 THEN a \div b ELSE -((-a) \div b)
Rem(a, b) == a - (b * Quot(a, b))

\* Mutant of Normalize: the seconds do not get the carry.
Normalize_NoCarry(t) == [t EXCEPT !.n = Rem(@, Nanos)]

\* Time::Normalize(), which leaves negative nanoseconds alone
Normalize(t) ==
  LET secs == Quot(t.n, Nanos) IN IF secs = 0 THEN t ELSE [s |-> t.s + secs, n |-> Rem(t.n, Nanos)]

AsSeconds(ticks) == Quot(ticks, SecondTicks)
ConvertSeconds(secs) == secs * SecondTicks
ConvertToNanoseconds(ticks) == ticks * TickNanos

\* The nanoseconds of a span beyond its whole seconds
Fraction(ticks) == ConvertToNanoseconds(ticks - ConvertSeconds(AsSeconds(ticks)))

\* operator += and operator -= of a Time and a Timespan
Plus(t, ticks) == Normalize([s |-> t.s + AsSeconds(ticks), n |-> t.n + Fraction(ticks)])
Minus(t, ticks) == Normalize([s |-> t.s - AsSeconds(ticks), n |-> t.n - Fraction(ticks)])

\* operator >
Later(t, u) == IF t.s = u.s THEN t.n > u.n ELSE t.s > u.s

\* GetCurrentTime(): clock_gettime gives 0 <= nanoseconds < Nanos.
GetCurrentTime == [s |-> clock \div Nanos, n |-> clock % Nanos]

\* What sem_timedwait and pthread_mutex_timedlock make of a timespec
ValidTimespec(t) == t.n \in 0 .. Nanos - 1
Reached(t) == clock >= (Nanos * t.s) + t.n

-----------------------------------------------------------------------------
(* The semaphore, or the mutex                                             *)

NoCall == [form |-> "none", deadline |-> [s |-> 0, n |-> 0], start |-> 0, span |-> 0, less |-> 0, before |-> 0]

TimedInit ==
  /\ build \in {"native", "emulated"} /\ kind \in {"semaphore", "mutex", "recursive"}
  /\ units = IF kind = "semaphore" THEN InitialValue ELSE 1
  /\ holds = [t \in Clients |-> 0]
  /\ clock = FirstStart
  /\ place = [t \in Clients |-> "idle"]
  /\ call = [t \in Clients |-> NoCall]
  /\ result = [t \in Clients |-> "none"]
  /\ late = {} /\ interrupted = {}

Nested(t) == kind = "recursive" /\ holds[t] > 0
Available(t) == units > 0 \/ Nested(t)

\* The bound: more units than one above MaxUnits, which a loop past its deadline may
\* take one by one, are not counted.
Take(t) ==
  /\ units' = IF Nested(t) THEN units ELSE units - 1
  /\ holds' = [holds EXCEPT ![t] = IF @ > MaxUnits THEN @ ELSE @ + 1]

\* The last timed call of a thread no longer matters.
Forget(t) ==
  /\ result' = [result EXCEPT ![t] = "none"]
  /\ call' = [call EXCEPT ![t] = NoCall]
  /\ late' = late \ {t} /\ interrupted' = interrupted \ {t}

Moved(t, label) == place' = [place EXCEPT ![t] = label]
Return(t, value) == Moved(t, "idle") /\ result' = [result EXCEPT ![t] = value]

\* A thread does not lock a mutex of the first kind twice: that blocks it for good.
MayCall(t) == place[t] = "idle" /\ holds[t] < MaxUnits /\ (kind = "mutex" => holds[t] = 0) /\ clock <= LastStart

\* Semaphore::Signal, which a thread calls to give back what it took or out of the blue
Signal(t) ==
  /\ kind = "semaphore" /\ place[t] = "idle" /\ units < MaxUnits
  /\ units' = units + 1
  /\ holds' = [holds EXCEPT ![t] = IF @ > 0 THEN @ - 1 ELSE 0]
  /\ Forget(t)
  /\ UNCHANGED <<build, kind, clock, place>>

\* Mutex::Unlock by the thread that holds it
UnlockMutex(t) ==
  /\ kind # "semaphore" /\ place[t] = "idle" /\ holds[t] > 0
  /\ units' = IF holds[t] = 1 THEN 1 ELSE units
  /\ holds' = [holds EXCEPT ![t] = @ - 1]
  /\ Forget(t)
  /\ UNCHANGED <<build, kind, clock, place>>

\* Wait(), Lock(), and TryWait(), TryLock() that succeed (one that fails changes nothing)
WaitUntimed(t) ==
  /\ MayCall(t) /\ Available(t)
  /\ Take(t)
  /\ Forget(t)
  /\ UNCHANGED <<build, kind, clock, place>>

\* sem_wait ends when a signal interrupts it, and Wait() does not look at its result: it
\* returns without a unit.
WaitInterrupted(t) ==
  /\ MayCall(t) /\ kind = "semaphore" /\ ~Available(t)
  /\ Forget(t)
  /\ UNCHANGED <<build, kind, units, holds, clock, place>>

\* A timed call with this deadline
TimedCall(t, form, span, less, deadline) ==
  /\ MayCall(t)
  /\ call' = [call EXCEPT ![t] = [form |-> form, deadline |-> deadline, start |-> clock,
                                 span |-> span, less |-> less, before |-> holds[t]]]
  /\ Moved(t, IF build = "native" THEN "blocked" ELSE "attempt")
  /\ late' = late \ {t} /\ interrupted' = interrupted \ {t}
  /\ result' = [result EXCEPT ![t] = "none"]
  /\ UNCHANGED <<build, kind, units, holds, clock>>

\* Wait(Time) and Lock(Time) with a time that clients make with + and -, Lock(Timespan)
TimedUntil(t, span, less) == TimedCall(t, "until", span, less, Minus(Plus(GetCurrentTime, span), less))

\* Semaphore::Wait(Timespan), which subtracts
TimedSpan(t, span) == kind = "semaphore" /\ TimedCall(t, "span", 0, span, Minus(GetCurrentTime, span))

\* sem_timedwait, pthread_mutex_timedlock (external): what can be had is taken, unless
\* sem_timedwait looks at a malformed deadline first, which is an error; a deadline that is
\* reached ends the wait.
NativeTake(t) ==
  /\ place[t] = "blocked" /\ Available(t)
  /\ Take(t) /\ Return(t, "true")
  /\ UNCHANGED <<build, kind, clock, call, late, interrupted>>

NativeGiveUp(t) ==
  /\ place[t] = "blocked"
  /\ IF ValidTimespec(call[t].deadline) THEN ~Available(t) /\ Reached(call[t].deadline)
                                         ELSE ~Available(t) \/ kind = "semaphore"
  /\ Return(t, "false")
  /\ UNCHANGED <<build, kind, units, holds, clock, call, late, interrupted>>

\* A signal interrupts sem_timedwait, whose error of whatever kind is a false.
NativeInterrupted(t) ==
  /\ place[t] = "blocked" /\ kind = "semaphore"
  /\ Return(t, "false")
  /\ interrupted' = interrupted \cup {t}
  /\ UNCHANGED <<build, kind, units, holds, clock, call, late>>

\* Mutant of Again: goes on after a success as well as after the deadline.
Again_Or(taken, deadline) == taken \/ Later(GetCurrentTime, deadline)

\* The loop condition: the result is not EBUSY or EAGAIN, and the deadline is past.
Again(taken, deadline) == taken /\ Later(GetCurrentTime, deadline)

\* Mutant of Attempt: a failed attempt is made again, whatever the deadline.
Attempt_Retries(t) ==
  /\ place[t] = "attempt" /\ Available(t)
  /\ Take(t) /\ Moved(t, "test")
  /\ UNCHANGED <<build, kind, clock, call, result, late, interrupted>>

\* result = attempt(): a failed one waits 10 ms, ends the loop and the call.
Attempt(t) ==
  /\ place[t] = "attempt"
  /\ IF Available(t) THEN Take(t) /\ Moved(t, "test") /\ UNCHANGED result
                     ELSE Return(t, "false") /\ UNCHANGED <<units, holds>>
  /\ UNCHANGED <<build, kind, clock, call, late, interrupted>>

\* The test after a successful attempt
Test(t) ==
  /\ place[t] = "test"
  /\ IF Again(TRUE, call[t].deadline)
       THEN Moved(t, "attempt") /\ UNCHANGED result
       ELSE Return(t, "true")
  /\ late' = IF Later(GetCurrentTime, call[t].deadline) THEN late \cup {t} ELSE late
  /\ UNCHANGED <<build, kind, units, holds, clock, call, interrupted>>

Tick ==
  /\ clock < MaxClock /\ clock' = clock + 1
  /\ UNCHANGED <<build, kind, units, holds, place, call, result, late, interrupted>>

Serve(t) == NativeTake(t) \/ NativeGiveUp(t) \/ Attempt(t) \/ Test(t)

TimedNext ==
  \/ Tick
  \/ \E t \in Clients :
       \/ Signal(t) \/ UnlockMutex(t) \/ WaitUntimed(t) \/ WaitInterrupted(t) \/ Serve(t) \/ NativeInterrupted(t)
       \/ \E less \in Cuts : TimedSpan(t, less)
       \/ \E span \in Lengths, less \in {0} \cup Cuts : TimedUntil(t, span, less)

\* Time passes, and a thread that can go on does.  That a signal interrupts a call is left
\* to chance.
TimedFairness == WF_timedVars(Tick) /\ \A t \in Clients : WF_timedVars(Serve(t))

TimedSpec == TimedInit /\ [][TimedNext]_timedVars /\ TimedFairness

-----------------------------------------------------------------------------
(* Properties                                                              *)

\* A timed call that returns true took one unit, or locked once, and one that returns
\* false took nothing, unless the loop of the emulation found the deadline past after an
\* attempt had succeeded: it then tries again, takes more, and reports failure.
TimedTakesOne ==
  \A t \in Clients \ late :
    /\ result[t] = "true" => holds[t] = call[t].before + 1
    /\ result[t] = "false" => holds[t] = call[t].before

\* With the platform's calls, Wait(Time), Lock(Time) and Lock(Timespan) give up only when
\* the deadline that the client made is over, whatever second boundaries its spans crossed on
\* the way, or when a signal interrupted the wait on a semaphore.  The exception is a
\* deadline from which a span was subtracted: Normalize leaves its nanoseconds negative, and
\* the call may fail at once though the deadline is still to come.
GivesUpWhenDue ==
  \A t \in Clients \ interrupted :
    build = "native" /\ result[t] = "false" /\ call[t].form = "until" =>
      \/ clock >= call[t].start + ConvertToNanoseconds(call[t].span - call[t].less)
      \/ call[t].less > 0 /\ call[t].deadline.n < 0

\* A timed call returns, though nobody signals.  The exception is a loop of the emulation
\* that goes on past its deadline: it locks a recursive mutex again and again, and takes unit
\* after unit of a semaphore for as long as others signal it.
TimedCallReturns ==
  \A t \in Clients : place[t] # "idle" ~> (place[t] = "idle" \/ (kind # "mutex" /\ t \in late))
=============================================================================
