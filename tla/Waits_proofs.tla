---------------------------- MODULE Waits_proofs ----------------------------
(***************************************************************************)
(* Theorems about threads that wait.  Timed attempts: whatever the length  *)
(* of a second, of a tick and of the spans, a timed call takes one unit or *)
(* none, and with the platform's calls it does not give up before it is    *)
(* due.  ConditionLock, for any number of threads and conditions: mutual   *)
(* exclusion, what Lock(c) promises its caller, and that no wakeup is      *)
(* lost.  IInv of module ConditionLock is the inductive invariant there.   *)
(***************************************************************************)
EXTENDS ConditionLock, TimedWait, TLAPS

-----------------------------------------------------------------------------
(* The inductive invariant                                                 *)

TimeType == [s : Int, n : Int]
CallType == [form : {"none", "until", "span"}, deadline : TimeType, start : Nat, span : Nat, less : Nat, before : Nat]

TimedTypeOK ==
  /\ build \in {"native", "emulated"} /\ kind \in {"semaphore", "mutex", "recursive"}
  /\ units \in Nat /\ clock \in Nat
  /\ holds \in [Clients -> Nat]
  /\ place \in [Clients -> {"idle", "blocked", "attempt", "test"}]
  /\ call \in [Clients -> CallType]
  /\ result \in [Clients -> {"none", "true", "false"}]
  /\ late \subseteq Clients /\ interrupted \subseteq Clients

\* While a call is under way it has no result yet, and has taken a unit only between the
\* attempt that succeeded and the test after it.
TakenSoFar ==
  \A t \in Clients :
    /\ place[t] # "idle" => result[t] = "none" /\ call[t].before < MaxUnits
    /\ t \notin late /\ place[t] \in {"blocked", "attempt"} => holds[t] = call[t].before
    /\ t \notin late /\ place[t] = "test" => holds[t] = call[t].before + 1

\* The time that a timespec stands for, in nanoseconds
Instant(time) == (Nanos * time.s) + time.n

\* The deadline is the span away from the start, less what was subtracted, and malformed
\* only if something was and left the nanoseconds negative.
DeadlineIsDue ==
  \A t \in Clients :
    /\ call[t].start <= clock
    /\ call[t].form = "until" =>
         /\ Instant(call[t].deadline) = call[t].start + ConvertToNanoseconds(call[t].span - call[t].less)
         /\ ValidTimespec(call[t].deadline) \/ (call[t].less > 0 /\ call[t].deadline.n < 0)

\* The loops are used by one of the builds only.
BuildUsed == \A t \in Clients : place[t] \in {"attempt", "test"} => build = "emulated"

TimedInv == TimedTypeOK /\ TakenSoFar /\ DeadlineIsDue /\ BuildUsed /\ TimedTakesOne /\ GivesUpWhenDue

-----------------------------------------------------------------------------
(* Arithmetic of Time and Timespan                                         *)

LEMMA NanosPositive == Nanos \in Nat \ {0}
  BY TimedWaitAssumption, SMT DEF Nanos

LEMMA QuotType ==
  ASSUME NEW a \in Int, NEW b \in Nat \ {0}
  PROVE  Quot(a, b) \in Int
  BY SMT DEF Quot

LEMMA MulType ==
  ASSUME NEW a \in Int, NEW b \in Int
  PROVE  a * b \in Int
  BY SMT

\* The division truncates: the remainder is smaller than the divisor and has the sign of
\* the dividend.
LEMMA RemBounds ==
  ASSUME NEW a \in Int, NEW b \in Nat \ {0}
  PROVE  /\ a >= 0 => Rem(a, b) \in 0 .. b - 1
         /\ a <= 0 => Rem(a, b) \in -(b - 1) .. 0
<1>1. CASE a >= 0
  <2>1. Quot(a, b) = a \div b
    BY <1>1 DEF Quot
  <2>2. a = b * (a \div b) + (a % b) /\ a % b \in 0 .. b - 1 /\ a \div b \in Int
    OBVIOUS
  <2> QED
    BY <1>1, <2>1, <2>2 DEF Rem
<1>2. CASE a < 0
  <2> DEFINE c == -a
  <2>0. c \in Nat
    BY <1>2
  <2>1. Quot(a, b) = -(c \div b)
    BY <1>2 DEF Quot
  <2> HIDE DEF c
  <2>2. c = b * (c \div b) + (c % b) /\ c % b \in 0 .. b - 1 /\ c \div b \in Int
    BY <2>0
  <2>3. a = -c
    BY DEF c
  <2>4. Rem(a, b) = -(c % b)
    BY <2>1, <2>2, <2>3 DEF Rem
  <2> QED
    BY <1>2, <2>2, <2>4
<1> QED
  BY <1>1, <1>2

\* Normalize moves whole seconds from the nanoseconds to the seconds.
LEMMA NormalizeKeeps ==
  ASSUME NEW time \in TimeType
  PROVE  /\ Normalize(time) \in TimeType
         /\ Instant(Normalize(time)) = Instant(time)
         /\ time.n >= 0 => ValidTimespec(Normalize(time))
         /\ ValidTimespec(Normalize(time)) \/ Normalize(time).n < 0
<1> DEFINE q == Quot(time.n, Nanos)
<1>1. time.s \in Int /\ time.n \in Int /\ time = [s |-> time.s, n |-> time.n]
  BY DEF TimeType
<1>2. q \in Int
  BY <1>1, NanosPositive, QuotType
<1>3. Rem(time.n, Nanos) = time.n - (Nanos * q)
  BY DEF Rem
<1>4. /\ time.n >= 0 => Rem(time.n, Nanos) \in 0 .. Nanos - 1
      /\ time.n <= 0 => Rem(time.n, Nanos) \in -(Nanos - 1) .. 0
  BY <1>1, NanosPositive, RemBounds
<1>5. Nanos * q \in Int
  BY <1>2, NanosPositive, MulType
<1>6. Normalize(time) = IF q = 0 THEN time ELSE [s |-> time.s + q, n |-> Rem(time.n, Nanos)]
  BY DEF Normalize
<1> HIDE DEF q
<1>7. CASE q = 0
  <2>1. Nanos * q = 0
    BY <1>7, NanosPositive
  <2> QED
    BY <1>1, <1>3, <1>4, <1>6, <1>7, <2>1 DEF ValidTimespec, TimeType
<1>8. CASE q # 0
  <2>1. Nanos * (time.s + q) = (Nanos * time.s) + (Nanos * q)
    BY <1>1, <1>2, NanosPositive
  <2>2. Nanos * time.s \in Int
    BY <1>1, NanosPositive, MulType
  <2>3. Normalize(time) = [s |-> time.s + q, n |-> Rem(time.n, Nanos)]
    BY <1>6, <1>8
  <2>4. Normalize(time).s = time.s + q /\ Normalize(time).n = Rem(time.n, Nanos)
    BY <2>3
  <2>5. Normalize(time) \in TimeType
    BY <1>1, <1>2, <1>3, <1>5, <2>3 DEF TimeType
  <2>6. Instant(Normalize(time)) = Instant(time)
    BY <1>1, <1>2, <1>3, <1>5, <2>1, <2>2, <2>4 DEF Instant
  <2>7. /\ time.n >= 0 => ValidTimespec(Normalize(time))
        /\ ValidTimespec(Normalize(time)) \/ Normalize(time).n < 0
    BY <1>1, <1>4, <2>4, NanosPositive DEF ValidTimespec
  <2> QED
    BY <2>5, <2>6, <2>7
<1> QED
  BY <1>7, <1>8
\* What a span has beyond its whole seconds, which have gone to the seconds
LEMMA FractionIsRest ==
  ASSUME NEW ticks \in Int
  PROVE  /\ AsSeconds(ticks) \in Int /\ Fraction(ticks) \in Int
         /\ (Nanos * AsSeconds(ticks)) + Fraction(ticks) = ConvertToNanoseconds(ticks)
         /\ ConvertToNanoseconds(ticks) \in Int
         /\ ticks >= 0 => Fraction(ticks) >= 0 /\ ConvertToNanoseconds(ticks) >= 0
         /\ ticks <= 0 => ConvertToNanoseconds(ticks) <= 0
<1> DEFINE q == Quot(ticks, SecondTicks)
           r == Rem(ticks, SecondTicks)
<1>1. SecondTicks \in Nat \ {0} /\ TickNanos \in Nat \ {0}
  BY TimedWaitAssumption
<1>2. q \in Int
  BY <1>1, QuotType
<1>3. r = ticks - (SecondTicks * q) /\ AsSeconds(ticks) = q
  BY DEF Rem, AsSeconds
<1>4. SecondTicks * q \in Int /\ q * SecondTicks = SecondTicks * q
  BY <1>1, <1>2
<1>5. ticks >= 0 => r >= 0
  BY <1>1, RemBounds
<1>6. Fraction(ticks) = r * TickNanos
  BY <1>3, <1>4 DEF Fraction, ConvertToNanoseconds, ConvertSeconds
<1> HIDE DEF q, r
<1>7. r \in Int
  BY <1>3, <1>4
<1>8. r * TickNanos = (ticks * TickNanos) - ((SecondTicks * q) * TickNanos)
  BY <1>1, <1>3, <1>4
<1>9. (SecondTicks * TickNanos) * q = (SecondTicks * q) * TickNanos
  BY <1>1, <1>2
<1>10. ticks * TickNanos \in Int /\ (SecondTicks * q) * TickNanos \in Int /\ r * TickNanos \in Int
  BY <1>1, <1>4, <1>7, MulType
<1>11. r >= 0 => r * TickNanos >= 0
  BY <1>1, <1>7
<1>12. /\ ticks >= 0 => ticks * TickNanos >= 0
       /\ ticks <= 0 => ticks * TickNanos <= 0
  BY <1>1
<1> QED
  BY <1>2, <1>3, <1>5, <1>6, <1>8, <1>9, <1>10, <1>11, <1>12 DEF ConvertToNanoseconds, Nanos

\* The clock as a timespec
LEMMA NowIsClock ==
  ASSUME clock \in Nat
  PROVE  GetCurrentTime \in TimeType /\ Instant(GetCurrentTime) = clock /\ GetCurrentTime.n >= 0
<1>1. clock = Nanos * (clock \div Nanos) + (clock % Nanos) /\ clock % Nanos >= 0 /\ clock % Nanos \in Int /\ clock \div Nanos \in Int
  BY NanosPositive
<1> QED
  BY <1>1 DEF GetCurrentTime, TimeType, Instant

\* A deadline made with += is the span away, and a valid timespec unless it is in the past.
LEMMA PlusIsDue ==
  ASSUME NEW time \in TimeType, time.n >= 0, NEW ticks \in Int
  PROVE  /\ Plus(time, ticks) \in TimeType
         /\ Instant(Plus(time, ticks)) = Instant(time) + ConvertToNanoseconds(ticks)
         /\ ticks >= 0 => ValidTimespec(Plus(time, ticks))
<1> DEFINE sum == [s |-> time.s + AsSeconds(ticks), n |-> time.n + Fraction(ticks)]
<1>1. time.s \in Int /\ time.n \in Int
  BY DEF TimeType
<1>2. sum \in TimeType /\ (ticks >= 0 => sum.n >= 0)
  BY <1>1, FractionIsRest DEF TimeType
<1>3. Plus(time, ticks) = Normalize(sum)
  BY DEF Plus
<1>4. Nanos * (time.s + AsSeconds(ticks)) = (Nanos * time.s) + (Nanos * AsSeconds(ticks))
  BY <1>1, NanosPositive, FractionIsRest
<1>5. Nanos * time.s \in Int /\ Nanos * AsSeconds(ticks) \in Int
  BY <1>1, NanosPositive, FractionIsRest, MulType
<1>6. Instant(sum) = Instant(time) + ConvertToNanoseconds(ticks)
  BY <1>1, <1>4, <1>5, FractionIsRest DEF Instant
<1> HIDE DEF sum
<1> QED
  BY <1>2, <1>3, <1>6, NormalizeKeeps

\* operator -= goes the span back, and leaves the nanoseconds of a valid timespec valid or
\* negative; subtracting nothing leaves it as it is.
LEMMA MinusIsDue ==
  ASSUME NEW time \in TimeType, NEW ticks \in Nat
  PROVE  /\ Minus(time, ticks) \in TimeType
         /\ Instant(Minus(time, ticks)) = Instant(time) - ConvertToNanoseconds(ticks)
         /\ ValidTimespec(Minus(time, ticks)) \/ Minus(time, ticks).n < 0
         /\ ticks = 0 /\ time.n >= 0 => ValidTimespec(Minus(time, ticks))
<1> DEFINE difference == [s |-> time.s - AsSeconds(ticks), n |-> time.n - Fraction(ticks)]
<1>1. time.s \in Int /\ time.n \in Int
  BY DEF TimeType
<1>2. difference \in TimeType
  BY <1>1, FractionIsRest DEF TimeType
<1>3. Minus(time, ticks) = Normalize(difference)
  BY DEF Minus
<1>4. Nanos * (time.s - AsSeconds(ticks)) = (Nanos * time.s) - (Nanos * AsSeconds(ticks))
  BY <1>1, NanosPositive, FractionIsRest
<1>5. Nanos * time.s \in Int /\ Nanos * AsSeconds(ticks) \in Int
  BY <1>1, NanosPositive, FractionIsRest, MulType
<1>6. Instant(difference) = Instant(time) - ConvertToNanoseconds(ticks)
  BY <1>1, <1>4, <1>5, FractionIsRest DEF Instant
<1>7. ticks = 0 => Fraction(ticks) = 0
  <2> SUFFICES ASSUME ticks = 0 PROVE Fraction(0) = 0
    OBVIOUS
  <2>1. Quot(0, SecondTicks) = 0
    BY TimedWaitAssumption, SMT DEF Quot
  <2>2. ConvertSeconds(AsSeconds(0)) = 0
    BY <2>1, TimedWaitAssumption DEF ConvertSeconds, AsSeconds
  <2> QED
    BY <2>2, TimedWaitAssumption DEF Fraction, ConvertToNanoseconds
<1>8. ticks = 0 /\ time.n >= 0 => difference.n >= 0
  BY <1>1, <1>7
<1> HIDE DEF difference
<1> QED
  BY <1>2, <1>3, <1>6, <1>8, NormalizeKeeps

\* Spans add up.
LEMMA NanosOfDifference ==
  ASSUME NEW span \in Nat, NEW less \in Nat
  PROVE  /\ ConvertToNanoseconds(span - less) = ConvertToNanoseconds(span) - ConvertToNanoseconds(less)
         /\ ConvertToNanoseconds(span) \in Int /\ ConvertToNanoseconds(less) \in Int
<1>1. TickNanos \in Int
  BY TimedWaitAssumption
<1>2. (span - less) * TickNanos = (span * TickNanos) - (less * TickNanos)
  BY <1>1
<1>3. span * TickNanos \in Int /\ less * TickNanos \in Int
  BY <1>1, MulType
<1> QED
  BY <1>2, <1>3 DEF ConvertToNanoseconds

-----------------------------------------------------------------------------
(* The steps                                                               *)

LEMMA InitTimedInv == TimedInit => TimedInv
<1> SUFFICES ASSUME TimedInit PROVE TimedInv
  OBVIOUS
<1>1. NoCall \in CallType
  BY DEF NoCall, CallType, TimeType
<1>2. TimedTypeOK
  BY <1>1, TimedWaitAssumption DEF TimedInit, TimedTypeOK
<1>3. TakenSoFar /\ BuildUsed /\ TimedTakesOne /\ GivesUpWhenDue
  BY DEF TimedInit, TakenSoFar, BuildUsed, TimedTakesOne, GivesUpWhenDue
<1>4. DeadlineIsDue
  BY TimedWaitAssumption DEF TimedInit, DeadlineIsDue, NoCall
<1> QED
  BY <1>2, <1>3, <1>4 DEF TimedInv

\* Giving back, and taking without a deadline: nothing is left of the last timed call.
LEMMA ForgetStep ==
  ASSUME TimedInv, NEW t \in Clients, place[t] = "idle", Forget(t),
         UNCHANGED <<build, kind, clock, place>>, units' \in Nat,
         NEW new \in Nat, holds' = [holds EXCEPT ![t] = new]
  PROVE  TimedInv'
<1>1. NoCall \in CallType /\ NoCall.start = 0 /\ NoCall.form = "none"
  BY DEF NoCall, CallType, TimeType
<1>2. TimedTypeOK'
  BY <1>1 DEF TimedInv, TimedTypeOK, Forget
<1>3. (TakenSoFar /\ BuildUsed)'
  BY DEF TimedInv, TimedTypeOK, TakenSoFar, BuildUsed, Forget
<1>4. DeadlineIsDue'
  <2> SUFFICES ASSUME NEW u \in Clients
               PROVE  (/\ call[u].start <= clock
                       /\ call[u].form = "until" =>
                            /\ Instant(call[u].deadline) = call[u].start + ConvertToNanoseconds(call[u].span - call[u].less)
                            /\ ValidTimespec(call[u].deadline) \/ (call[u].less > 0 /\ call[u].deadline.n < 0))'
    BY DEF DeadlineIsDue
  <2>1. CASE u = t
    <3>1. call'[u] = NoCall /\ clock' \in Nat
      BY <2>1 DEF TimedInv, TimedTypeOK, Forget
    <3> QED
      BY <1>1, <3>1
  <2>2. CASE u # t
    <3>1. call'[u] = call[u] /\ clock' = clock
      BY <2>2 DEF TimedInv, TimedTypeOK, Forget
    <3> QED
      BY <3>1 DEF TimedInv, DeadlineIsDue, ValidTimespec, Instant
  <2> QED
    BY <2>1, <2>2
<1>5. TimedTakesOne'
  BY DEF TimedInv, TimedTypeOK, TimedTakesOne, Forget
<1>6. GivesUpWhenDue'
  BY DEF TimedInv, TimedTypeOK, GivesUpWhenDue, Forget
<1> QED
  BY <1>2, <1>3, <1>4, <1>5, <1>6 DEF TimedInv

LEMMA SignalStep == ASSUME TimedInv, NEW t \in Clients, Signal(t) PROVE TimedInv'
<1>1. holds[t] \in Nat /\ units \in Nat
  BY DEF TimedInv, TimedTypeOK
<1> DEFINE new == IF holds[t] > 0 THEN holds[t] - 1 ELSE 0
<1>2. new \in Nat /\ units' \in Nat
  BY <1>1 DEF Signal
<1>3. holds' = [holds EXCEPT ![t] = new]
  BY DEF Signal
<1> HIDE DEF new
<1> QED
  BY <1>2, <1>3, ForgetStep DEF Signal

LEMMA UnlockMutexStep == ASSUME TimedInv, NEW t \in Clients, UnlockMutex(t) PROVE TimedInv'
<1>1. holds[t] \in Nat /\ units \in Nat
  BY DEF TimedInv, TimedTypeOK
<1> DEFINE new == holds[t] - 1
<1>2. new \in Nat /\ units' \in Nat
  BY <1>1 DEF UnlockMutex
<1>3. holds' = [holds EXCEPT ![t] = new]
  BY DEF UnlockMutex
<1> HIDE DEF new
<1> QED
  BY <1>2, <1>3, ForgetStep DEF UnlockMutex

\* A wait that a signal interrupts leaves no trace.
LEMMA WaitInterruptedStep == ASSUME TimedInv, NEW t \in Clients, WaitInterrupted(t) PROVE TimedInv'
<1>1. holds[t] \in Nat /\ units' \in Nat /\ holds' = [holds EXCEPT ![t] = holds[t]]
  BY DEF TimedInv, TimedTypeOK, WaitInterrupted
<1> QED
  BY <1>1, ForgetStep DEF WaitInterrupted, MayCall

\* What taking a unit does to the types
LEMMA TakeTypes ==
  ASSUME TimedTypeOK, NEW t \in Clients, Available(t), Take(t)
  PROVE  /\ units' \in Nat
         /\ \E new \in Nat : holds' = [holds EXCEPT ![t] = new] /\ (holds[t] < MaxUnits => new = holds[t] + 1)
<1>1. holds[t] \in Nat /\ MaxUnits \in Nat /\ units \in Nat
  BY TimedWaitAssumption DEF TimedTypeOK
<1> DEFINE new == IF holds[t] > MaxUnits THEN holds[t] ELSE holds[t] + 1
<1>2. new \in Nat /\ (holds[t] < MaxUnits => new = holds[t] + 1)
  BY <1>1
<1>3. holds' = [holds EXCEPT ![t] = new] /\ units' \in Nat
  BY <1>1 DEF Take, Available
<1> HIDE DEF new
<1> QED
  BY <1>2, <1>3

LEMMA WaitUntimedStep == ASSUME TimedInv, NEW t \in Clients, WaitUntimed(t) PROVE TimedInv'
<1>1. units' \in Nat /\ \E new \in Nat : holds' = [holds EXCEPT ![t] = new]
  BY TakeTypes DEF TimedInv, WaitUntimed
<1> QED
  BY <1>1, ForgetStep DEF WaitUntimed, MayCall

\* A timed call, whose deadline is as far away as the client said when it is one for a time
LEMMA TimedCallStep ==
  ASSUME TimedInv, NEW t \in Clients, NEW form \in {"until", "span"}, NEW span \in Nat, NEW less \in Nat,
         NEW deadline \in TimeType, TimedCall(t, form, span, less, deadline),
         form = "until" => /\ Instant(deadline) = clock + ConvertToNanoseconds(span - less)
                           /\ ValidTimespec(deadline) \/ (less > 0 /\ deadline.n < 0)
  PROVE  TimedInv'
<1> DEFINE new == [form |-> form, deadline |-> deadline, start |-> clock, span |-> span, less |-> less,
                   before |-> holds[t]]
<1>1. holds[t] \in Nat /\ holds[t] < MaxUnits /\ clock \in Nat /\ clock' = clock /\ holds' = holds
  BY DEF TimedInv, TimedTypeOK, TimedCall, MayCall
<1>2. new \in CallType
  BY <1>1 DEF CallType
<1>3. call' = [call EXCEPT ![t] = new]
  BY DEF TimedCall
<1>4. /\ new.form = form /\ new.deadline = deadline /\ new.start = clock /\ new.span = span
      /\ new.less = less /\ new.before = holds[t]
  OBVIOUS
<1> HIDE DEF new
<1>5. \A u \in Clients : call'[u] = IF u = t THEN new ELSE call[u]
  BY <1>3 DEF TimedInv, TimedTypeOK
<1>6. TimedTypeOK'
  BY <1>2, <1>3 DEF TimedInv, TimedTypeOK, TimedCall, Moved
<1>7. (TakenSoFar /\ BuildUsed)'
  BY <1>1, <1>4, <1>5 DEF TimedInv, TimedTypeOK, TakenSoFar, BuildUsed, TimedCall, Moved
<1>8. DeadlineIsDue'
  BY <1>1, <1>4, <1>5 DEF TimedInv, DeadlineIsDue, ValidTimespec, Instant
<1>9. TimedTakesOne'
  BY <1>1, <1>5 DEF TimedInv, TimedTypeOK, TimedTakesOne, TimedCall
<1>10. GivesUpWhenDue'
  BY <1>1, <1>5 DEF TimedInv, TimedTypeOK, GivesUpWhenDue, TimedCall
<1> QED
  BY <1>6, <1>7, <1>8, <1>9, <1>10 DEF TimedInv

LEMMA TimedUntilStep ==
  ASSUME TimedInv, NEW t \in Clients, NEW span \in Nat, NEW less \in Nat, TimedUntil(t, span, less)
  PROVE  TimedInv'
<1>1. /\ GetCurrentTime \in TimeType /\ Instant(GetCurrentTime) = clock /\ GetCurrentTime.n >= 0
      /\ clock \in Nat
  BY NowIsClock DEF TimedInv, TimedTypeOK
<1> DEFINE later == Plus(GetCurrentTime, span)
           deadline == Minus(later, less)
<1>2. /\ later \in TimeType /\ later.n >= 0
      /\ Instant(later) = clock + ConvertToNanoseconds(span)
  BY <1>1, PlusIsDue DEF ValidTimespec
<1>3. TimedCall(t, "until", span, less, deadline)
  BY DEF TimedUntil
<1> HIDE DEF later
<1>4. /\ deadline \in TimeType
      /\ Instant(deadline) = Instant(later) - ConvertToNanoseconds(less)
      /\ ValidTimespec(deadline) \/ (less > 0 /\ deadline.n < 0)
  BY <1>2, MinusIsDue
<1> HIDE DEF deadline
<1>5. Instant(deadline) = clock + ConvertToNanoseconds(span - less)
  BY <1>1, <1>2, <1>4, NanosOfDifference
<1> QED
  BY <1>3, <1>4, <1>5, TimedCallStep

LEMMA TimedSpanStep == ASSUME TimedInv, NEW t \in Clients, NEW less \in Nat, TimedSpan(t, less) PROVE TimedInv'
<1>1. GetCurrentTime \in TimeType
  BY NowIsClock DEF TimedInv, TimedTypeOK
<1> DEFINE deadline == Minus(GetCurrentTime, less)
<1>2. deadline \in TimeType
  BY <1>1, MinusIsDue
<1>3. TimedCall(t, "span", 0, less, deadline)
  BY DEF TimedSpan
<1> HIDE DEF deadline
<1> QED
  BY <1>2, <1>3, TimedCallStep

\* A call of the platform that took a unit
LEMMA NativeTakeStep == ASSUME TimedInv, NEW t \in Clients, NativeTake(t) PROVE TimedInv'
<1>0. units' \in Nat
  BY TakeTypes DEF TimedInv, NativeTake
<1>1. PICK new \in Nat : /\ holds' = [holds EXCEPT ![t] = new]
                         /\ holds[t] < MaxUnits => new = holds[t] + 1
  BY TakeTypes DEF TimedInv, NativeTake
<1>2. TimedTypeOK'
  BY <1>0, <1>1 DEF TimedInv, TimedTypeOK, NativeTake, Return, Moved
<1>3. (TakenSoFar /\ BuildUsed)'
  BY <1>1 DEF TimedInv, TimedTypeOK, TakenSoFar, BuildUsed, NativeTake, Return, Moved
<1>4. DeadlineIsDue'
  BY DEF TimedInv, DeadlineIsDue, ValidTimespec, Instant, NativeTake
<1>5. TimedTakesOne'
  BY <1>1 DEF TimedInv, TimedTypeOK, TakenSoFar, TimedTakesOne, NativeTake, Return
<1>6. GivesUpWhenDue'
  BY DEF TimedInv, TimedTypeOK, GivesUpWhenDue, NativeTake, Return
<1> QED
  BY <1>2, <1>3, <1>4, <1>5, <1>6 DEF TimedInv

\* One that gave up: the deadline is reached, or malformed.
LEMMA NativeGiveUpStep == ASSUME TimedInv, NEW t \in Clients, NativeGiveUp(t) PROVE TimedInv'
<1>2. TimedTypeOK'
  BY DEF TimedInv, TimedTypeOK, NativeGiveUp, Return, Moved
<1>3. (TakenSoFar /\ BuildUsed)'
  BY DEF TimedInv, TimedTypeOK, TakenSoFar, BuildUsed, NativeGiveUp, Return, Moved
<1>4. DeadlineIsDue'
  BY DEF TimedInv, DeadlineIsDue, ValidTimespec, Instant, NativeGiveUp
<1>5. TimedTakesOne'
  BY DEF TimedInv, TimedTypeOK, TakenSoFar, TimedTakesOne, NativeGiveUp, Return
<1>6. /\ call[t].form = "until"
      /\ ~(call[t].less > 0 /\ call[t].deadline.n < 0)
      => clock >= call[t].start + ConvertToNanoseconds(call[t].span - call[t].less)
  <2> SUFFICES ASSUME call[t].form = "until", ~(call[t].less > 0 /\ call[t].deadline.n < 0)
               PROVE  clock >= call[t].start + ConvertToNanoseconds(call[t].span - call[t].less)
    OBVIOUS
  <2>2. /\ Instant(call[t].deadline) = call[t].start + ConvertToNanoseconds(call[t].span - call[t].less)
        /\ ValidTimespec(call[t].deadline)
    BY DEF TimedInv, DeadlineIsDue
  <2>3. clock >= Instant(call[t].deadline)
    BY <2>2 DEF NativeGiveUp, Reached, Instant
  <2> QED
    BY <2>2, <2>3
<1>7. GivesUpWhenDue'
  BY <1>6 DEF TimedInv, TimedTypeOK, GivesUpWhenDue, NativeGiveUp, Return, ConvertToNanoseconds
<1> QED
  BY <1>2, <1>3, <1>4, <1>5, <1>7 DEF TimedInv

\* One that a signal interrupted
LEMMA NativeInterruptedStep == ASSUME TimedInv, NEW t \in Clients, NativeInterrupted(t) PROVE TimedInv'
<1>2. TimedTypeOK'
  BY DEF TimedInv, TimedTypeOK, NativeInterrupted, Return, Moved
<1>3. (TakenSoFar /\ BuildUsed)'
  BY DEF TimedInv, TimedTypeOK, TakenSoFar, BuildUsed, NativeInterrupted, Return, Moved
<1>4. DeadlineIsDue'
  BY DEF TimedInv, DeadlineIsDue, ValidTimespec, Instant, NativeInterrupted
<1>5. TimedTakesOne'
  BY DEF TimedInv, TimedTypeOK, TakenSoFar, TimedTakesOne, NativeInterrupted, Return
<1>6. GivesUpWhenDue'
  BY DEF TimedInv, TimedTypeOK, GivesUpWhenDue, NativeInterrupted, Return, ConvertToNanoseconds
<1> QED
  BY <1>2, <1>3, <1>4, <1>5, <1>6 DEF TimedInv

\* The loop: an attempt
LEMMA AttemptStep == ASSUME TimedInv, NEW t \in Clients, Attempt(t) PROVE TimedInv'
<1>1. build = "emulated" /\ UNCHANGED <<build, clock, call, late, interrupted>>
  BY DEF TimedInv, BuildUsed, Attempt
<1>2. DeadlineIsDue'
  BY <1>1 DEF TimedInv, DeadlineIsDue, ValidTimespec, Instant
<1>3. GivesUpWhenDue'
  BY <1>1 DEF GivesUpWhenDue
<1>4. CASE Available(t)
  <2>0. units' \in Nat
    BY <1>4, TakeTypes DEF TimedInv, Attempt
  <2>1. PICK new \in Nat : /\ holds' = [holds EXCEPT ![t] = new]
                           /\ holds[t] < MaxUnits => new = holds[t] + 1
    BY <1>4, TakeTypes DEF TimedInv, Attempt
  <2>2. Moved(t, "test") /\ UNCHANGED result
    BY <1>4 DEF Attempt
  <2>3. TimedTypeOK'
    BY <1>1, <2>0, <2>1, <2>2 DEF TimedInv, TimedTypeOK, Attempt, Moved
  <2>4. (TakenSoFar /\ BuildUsed)'
    BY <1>1, <2>1, <2>2 DEF TimedInv, TimedTypeOK, TakenSoFar, BuildUsed, Attempt, Moved
  <2>5. TimedTakesOne'
    BY <1>1, <2>1, <2>2 DEF TimedInv, TimedTypeOK, TakenSoFar, TimedTakesOne, Attempt
  <2> QED
    BY <1>2, <1>3, <2>3, <2>4, <2>5 DEF TimedInv
<1>5. CASE ~Available(t)
  <2>2. Return(t, "false") /\ UNCHANGED <<units, holds>>
    BY <1>5 DEF Attempt
  <2>3. TimedTypeOK'
    BY <1>1, <2>2 DEF TimedInv, TimedTypeOK, Attempt, Return, Moved
  <2>4. (TakenSoFar /\ BuildUsed)'
    BY <1>1, <2>2 DEF TimedInv, TimedTypeOK, TakenSoFar, BuildUsed, Attempt, Return, Moved
  <2>5. TimedTakesOne'
    BY <1>1, <2>2 DEF TimedInv, TimedTypeOK, TakenSoFar, TimedTakesOne, Attempt, Return
  <2> QED
    BY <1>2, <1>3, <2>3, <2>4, <2>5 DEF TimedInv
<1> QED
  BY <1>4, <1>5

\* The test after an attempt that succeeded: it goes on only when the deadline is past.
LEMMA TestStep == ASSUME TimedInv, NEW t \in Clients, Test(t) PROVE TimedInv'
<1>1. build = "emulated" /\ UNCHANGED <<build, kind, units, holds, clock, call, interrupted>>
  BY DEF TimedInv, BuildUsed, Test
<1>2. DeadlineIsDue'
  BY <1>1 DEF TimedInv, DeadlineIsDue, ValidTimespec, Instant
<1>3. GivesUpWhenDue'
  BY <1>1 DEF GivesUpWhenDue
<1>4. CASE Later(GetCurrentTime, call[t].deadline)
  <2>2. Moved(t, "attempt") /\ UNCHANGED result /\ late' = late \cup {t}
    BY <1>4 DEF Test, Again
  <2>3. TimedTypeOK'
    BY <1>1, <2>2 DEF TimedInv, TimedTypeOK, Moved
  <2>4. (TakenSoFar /\ BuildUsed)'
    BY <1>1, <2>2 DEF TimedInv, TimedTypeOK, TakenSoFar, BuildUsed, Test, Moved
  <2>5. TimedTakesOne'
    BY <1>1, <2>2 DEF TimedInv, TimedTakesOne
  <2> QED
    BY <1>2, <1>3, <2>3, <2>4, <2>5 DEF TimedInv
<1>5. CASE ~Later(GetCurrentTime, call[t].deadline)
  <2>2. Return(t, "true") /\ late' = late
    BY <1>5 DEF Test, Again
  <2>3. TimedTypeOK'
    BY <1>1, <2>2 DEF TimedInv, TimedTypeOK, Return, Moved
  <2>4. (TakenSoFar /\ BuildUsed)'
    BY <1>1, <2>2 DEF TimedInv, TimedTypeOK, TakenSoFar, BuildUsed, Return, Moved
  <2>5. TimedTakesOne'
    BY <1>1, <2>2 DEF TimedInv, TimedTypeOK, TakenSoFar, TimedTakesOne, Test, Return
  <2> QED
    BY <1>2, <1>3, <2>3, <2>4, <2>5 DEF TimedInv
<1> QED
  BY <1>4, <1>5

LEMMA TickStep == ASSUME TimedInv, Tick PROVE TimedInv'
<1>1. clock \in Nat /\ clock' = clock + 1 /\ UNCHANGED <<build, kind, units, holds, place, call, result, late, interrupted>>
  BY DEF TimedInv, TimedTypeOK, Tick
<1>2. (TimedTypeOK /\ TakenSoFar /\ BuildUsed /\ TimedTakesOne)'
  BY <1>1 DEF TimedInv, TimedTypeOK, TakenSoFar, BuildUsed, TimedTakesOne
<1>3. \A t \in Clients : call[t].start \in Nat /\ call[t].span - call[t].less \in Int
  BY DEF TimedInv, TimedTypeOK, CallType
<1>4. DeadlineIsDue'
  BY <1>1, <1>3 DEF TimedInv, DeadlineIsDue, ValidTimespec, Instant
<1>5. GivesUpWhenDue'
  <2>1. \A t \in Clients : ConvertToNanoseconds(call[t].span - call[t].less) \in Int
    BY <1>3, FractionIsRest
  <2> QED
    BY <1>1, <1>3, <2>1 DEF TimedInv, GivesUpWhenDue
<1> QED
  BY <1>2, <1>4, <1>5 DEF TimedInv

LEMMA NextTimedInv == TimedInv /\ [TimedNext]_timedVars => TimedInv'
<1> SUFFICES ASSUME TimedInv, [TimedNext]_timedVars PROVE TimedInv'
  OBVIOUS
<1>1. (\A span \in Lengths : span \in Nat) /\ \A less \in {0} \cup Cuts : less \in Nat
  BY TimedWaitAssumption
<1>2. CASE UNCHANGED timedVars
  BY <1>2 DEF timedVars, TimedInv, TimedTypeOK, TakenSoFar, DeadlineIsDue, BuildUsed, TimedTakesOne, GivesUpWhenDue,
              ValidTimespec, Instant
<1>3. CASE Tick
  BY <1>3, TickStep
<1>4. ASSUME NEW t \in Clients, Signal(t) \/ UnlockMutex(t) \/ WaitUntimed(t) \/ WaitInterrupted(t) PROVE TimedInv'
  BY <1>4, SignalStep, UnlockMutexStep, WaitUntimedStep, WaitInterruptedStep
<1>5. ASSUME NEW t \in Clients, Serve(t) \/ NativeInterrupted(t) PROVE TimedInv'
  BY <1>5, NativeTakeStep, NativeGiveUpStep, NativeInterruptedStep, AttemptStep, TestStep DEF Serve
<1>6. ASSUME NEW t \in Clients, NEW less \in Cuts, TimedSpan(t, less) PROVE TimedInv'
  BY <1>1, <1>6, TimedSpanStep
<1>7. ASSUME NEW t \in Clients, NEW span \in Lengths, NEW less \in {0} \cup Cuts, TimedUntil(t, span, less)
      PROVE  TimedInv'
  BY <1>1, <1>7, TimedUntilStep
<1> QED
  BY <1>2, <1>3, <1>4, <1>5, <1>6, <1>7 DEF TimedNext

LEMMA TimedInvAlways == TimedSpec => []TimedInv
  BY InitTimedInv, NextTimedInv, PTL DEF TimedSpec

-----------------------------------------------------------------------------
(* Theorems                                                                *)

\* A timed Wait or Lock that returns true took exactly one unit, and one that returns
\* false none, unless the emulation's loop met its deadline after a success; for any
\* number of threads, of units and any length of time.
THEOREM TakesOneTheorem == TimedSpec => []TimedTakesOne
  BY TimedInvAlways, PTL DEF TimedInv

\* With sem_timedwait and pthread_mutex_timedlock, Wait(Time), Lock(Time) and
\* Lock(Timespan) give up only when the deadline is over, when a signal interrupts the wait,
\* or when a subtraction has left the deadline's nanoseconds negative: Time's += and -= carry
\* right otherwise, for every start, span, and number of ticks in a second.
THEOREM DueTheorem == TimedSpec => []GivesUpWhenDue
  BY TimedInvAlways, PTL DEF TimedInv

-----------------------------------------------------------------------------
(* ConditionLock                                                           *)

USE ConditionAssumption, NotifyAssumption, NoTargetAssumption

-----------------------------------------------------------------------------
\* The constructor establishes the invariant.
LEMMA InitInv == Init => IInv
<1> SUFFICES ASSUME Init PROVE IInv
  OBVIOUS
<1> USE DEF Init
<1>1. TypeOK
  BY DEF TypeOK, PCs, Ops, LockKinds, Targets
<1>2. MutualExclusion
  BY DEF MutualExclusion, Owning
<1>3. OwnerKnowsCondition /\ WaiterTested /\ NotifierBroadcasts /\ NoLostWakeup
  BY DEF OwnerKnowsCondition, WaiterTested, NotifierBroadcasts, NoLostWakeup
<1> QED BY <1>1, <1>2, <1>3 DEF IInv

\* Every call and every step of a call preserves the types.
LEMMA TypeInductive == TypeOK /\ [Next]_vars => TypeOK'
<1> SUFFICES ASSUME TypeOK, [Next]_vars PROVE TypeOK'
  OBVIOUS
<1> USE DEF TypeOK, PCs, Owning, Ops, LockKinds, Targets, Goto
<1>1. ASSUME NEW t \in Threads, Call(t) PROVE TypeOK'
  <2>1. CASE Unlock(t)
    BY <2>1 DEF Unlock
  <2>2. ASSUME NEW mode \in LockKinds, NEW target \in Targets, CallLock(t, mode, target)
        PROVE  TypeOK'
    BY <2>2 DEF CallLock
  <2>3. ASSUME NEW mode \in NotifyKinds, NEW c \in Conditions, Assign(t, mode, c)
        PROVE  TypeOK'
    BY <2>3 DEF Assign, Sound
  <2> QED BY <1>1, <2>1, <2>2, <2>3 DEF Call
<1>2. ASSUME NEW t \in Threads, Progress(t) PROVE TypeOK'
  <2>1. CASE Notify(t)
    BY <2>1 DEF Notify, Notified
  <2>2. CASE Acquire(t) \/ AcquireFails(t) \/ TestHolds(t) \/ TestFails(t) \/ Wait(t)
    BY <2>2 DEF Acquire, AcquireFails, TestHolds, TestFails, Wait
  <2>3. CASE Reacquire(t) \/ GiveUp(t) \/ Release(t)
    BY <2>3 DEF Reacquire, GiveUp, Release
  <2> QED BY <1>2, <2>1, <2>2, <2>3 DEF Progress
<1>3. ASSUME NEW t \in Threads, Environment(t) PROVE TypeOK'
  BY <1>3 DEF Environment, SpuriousWakeup, Timeout
<1>4. CASE UNCHANGED vars
  BY <1>4 DEF vars
<1> QED BY <1>1, <1>2, <1>3, <1>4 DEF Next

\* Mutual exclusion needs nothing but the types: whoever enters Owning does so
\* by finding the mutex free, and whoever leaves it unlocks.
LEMMA MutexInductive == TypeOK /\ MutualExclusion /\ [Next]_vars => MutualExclusion'
<1> SUFFICES ASSUME TypeOK, MutualExclusion, [Next]_vars PROVE MutualExclusion'
  OBVIOUS
<1> USE DEF TypeOK, MutualExclusion, Owning, Goto
<1>1. ASSUME NEW t \in Threads, Acquire(t) \/ Reacquire(t) PROVE MutualExclusion'
  BY <1>1 DEF Acquire, Reacquire
<1>2. ASSUME NEW t \in Threads, Wait(t) \/ GiveUp(t) \/ Unlock(t) \/ Release(t)
      PROVE  MutualExclusion'
  BY <1>2 DEF Wait, GiveUp, Unlock, Release
<1>3. ASSUME NEW t \in Threads, TestHolds(t) \/ TestFails(t) PROVE MutualExclusion'
  BY <1>3 DEF TestHolds, TestFails
<1>4. ASSUME NEW t \in Threads, AcquireFails(t) \/ SpuriousWakeup(t) \/ Timeout(t)
      PROVE  MutualExclusion'
  BY <1>4 DEF AcquireFails, SpuriousWakeup, Timeout
<1>5. ASSUME NEW t \in Threads, NEW mode \in LockKinds, NEW target \in Targets,
             CallLock(t, mode, target)
      PROVE  MutualExclusion'
  BY <1>5 DEF CallLock
<1>6. ASSUME NEW t \in Threads, NEW mode \in NotifyKinds, NEW c \in Conditions,
             Assign(t, mode, c)
      PROVE  MutualExclusion'
  BY <1>6 DEF Assign
<1>7. ASSUME NEW t \in Threads, Notify(t) PROVE MutualExclusion'
  <2>1. PICK woken \in Woken(op[t].kind) :
          pc' = [s \in Threads |-> IF s = t THEN Notified(t)
                                   ELSE IF s \in woken THEN "woken" ELSE pc[s]]
    BY <1>7 DEF Notify
  <2>2. \A s \in woken : pc[s] = "sleep"
    BY DEF Woken
  <2>3. Notified(t) \in Owning <=> pc[t] \in Owning
    BY <1>7 DEF Notify, Notified
  <2>4. \A s \in Threads : pc'[s] \in Owning <=> pc[s] \in Owning
    BY <2>1, <2>2, <2>3
  <2>5. locked' = locked
    BY <1>7 DEF Notify
  <2> QED BY <2>4, <2>5
<1>8. CASE UNCHANGED vars
  BY <1>8 DEF vars
<1> QED BY <1>1, <1>2, <1>3, <1>4, <1>5, <1>6, <1>7, <1>8
        DEF Next, Call, Progress, Environment

\* The conjuncts of IInv that speak of the owner, of sleepers and of notifiers.
Promises == OwnerKnowsCondition /\ WaiterTested /\ NotifierBroadcasts /\ NoLostWakeup

\* A step that leaves condition, op and sound alone, takes t to a place where it
\* is no owner, and does not put it to sleep, breaks no promise.
LEMMA HarmlessMove ==
  ASSUME IInv, NEW t \in Threads, NEW label \in PCs \ {"held", "notify", "release", "wait", "sleep"},
         Goto(t, label), pc[t] # "notify", UNCHANGED <<condition, op, sound>>
  PROVE  Promises'
<1> USE DEF IInv, TypeOK, Goto
<1>1. OwnerKnowsCondition'
  BY DEF OwnerKnowsCondition
<1>2. WaiterTested'
  BY DEF WaiterTested
<1>3. NotifierBroadcasts'
  BY DEF NotifierBroadcasts
<1>4. NoLostWakeup'
  BY DEF NoLostWakeup
<1> QED BY <1>1, <1>2, <1>3, <1>4 DEF Promises

\* The promises, action by action.
LEMMA PromisesInductive == IInv /\ [Next]_vars => Promises'
<1> SUFFICES ASSUME IInv, [Next]_vars PROVE Promises'
  OBVIOUS
<1> USE DEF IInv, TypeOK, PCs, Owning
\* A call of Lock rewrites the operation of a thread that is idle.
<1>1. ASSUME NEW t \in Threads, NEW mode \in LockKinds, NEW target \in Targets,
             CallLock(t, mode, target)
      PROVE  Promises'
  <2> USE <1>1 DEF CallLock, Goto
  <2>1. OwnerKnowsCondition' /\ WaiterTested'
    BY DEF OwnerKnowsCondition, WaiterTested
  <2>2. NotifierBroadcasts' /\ NoLostWakeup'
    BY DEF NotifierBroadcasts, NoLostWakeup
  <2> QED BY <2>1, <2>2 DEF Promises
\* An owner that tests nothing knows nothing; one that tests comes later.
<1>2. ASSUME NEW t \in Threads, Acquire(t) PROVE Promises'
  <2>1. CASE op[t].target = NoTarget
    <3> USE <1>2, <2>1 DEF Acquire, Goto
    <3>1. OwnerKnowsCondition' /\ WaiterTested'
      BY DEF OwnerKnowsCondition, WaiterTested
    <3>2. NotifierBroadcasts' /\ NoLostWakeup'
      BY DEF NotifierBroadcasts, NoLostWakeup
    <3> QED BY <3>1, <3>2 DEF Promises
  <2>2. CASE op[t].target # NoTarget
    BY <1>2, <2>2, HarmlessMove DEF Acquire
  <2> QED BY <2>1, <2>2
\* The test that holds is what Lock(c) promises.
<1>3. ASSUME NEW t \in Threads, TestHolds(t) PROVE Promises'
  <2> USE <1>3 DEF TestHolds, GetCondition, Goto
  <2>1. OwnerKnowsCondition' /\ WaiterTested'
    BY DEF OwnerKnowsCondition, WaiterTested
  <2>2. NotifierBroadcasts' /\ NoLostWakeup'
    BY DEF NotifierBroadcasts, NoLostWakeup
  <2> QED BY <2>1, <2>2 DEF Promises
\* The test that fails is what WaiterTested remembers ...
<1>4. ASSUME NEW t \in Threads, TestFails(t) PROVE Promises'
  <2> USE <1>4 DEF TestFails, GetCondition, Goto
  <2>1. OwnerKnowsCondition' /\ WaiterTested'
    BY DEF OwnerKnowsCondition, WaiterTested
  <2>2. NotifierBroadcasts' /\ NoLostWakeup'
    BY DEF NotifierBroadcasts, NoLostWakeup
  <2> QED BY <2>1, <2>2 DEF Promises
\* ... until the thread sleeps.
<1>5. ASSUME NEW t \in Threads, Wait(t) PROVE Promises'
  <2> USE <1>5 DEF Wait, Goto
  <2>1. OwnerKnowsCondition' /\ WaiterTested'
    BY DEF OwnerKnowsCondition, WaiterTested
  <2>2. NotifierBroadcasts'
    BY DEF NotifierBroadcasts
  <2>3. NoLostWakeup'
    BY DEF NoLostWakeup, WaiterTested
  <2> QED BY <2>1, <2>2, <2>3 DEF Promises
\* A sound assignment is made by the only owner, so no other thread is between
\* its test and its sleep; any other assignment makes the promises void.
<1>6. ASSUME NEW t \in Threads, NEW mode \in NotifyKinds, NEW c \in Conditions,
             Assign(t, mode, c)
      PROVE  Promises'
  <2>1. CASE Sound(t, mode)
    <3>1. /\ pc[t] = "held" /\ mode \in {"Broadcast", "Unlock"}
          /\ pc' = [pc EXCEPT ![t] = "notify"]
          /\ op' = [op EXCEPT ![t] = [kind |-> mode, target |-> c]]
          /\ condition' = c
      BY <1>6, <2>1 DEF Assign, Sound, Goto
    <3>2. \A u \in Threads : u # t => pc[u] \notin Owning /\ pc'[u] = pc[u] /\ op'[u] = op[u]
      BY <3>1 DEF MutualExclusion
    <3>3. pc'[t] = "notify" /\ op'[t] = [kind |-> mode, target |-> c]
      BY <3>1
    <3>4. OwnerKnowsCondition' /\ WaiterTested'
      BY <3>1, <3>2, <3>3 DEF OwnerKnowsCondition, WaiterTested
    <3>5. NotifierBroadcasts' /\ NoLostWakeup'
      BY <3>1, <3>2, <3>3 DEF NotifierBroadcasts, NoLostWakeup
    <3> QED BY <3>4, <3>5 DEF Promises
  <2>2. CASE ~Sound(t, mode)
    <3>1. ~sound'
      BY <1>6, <2>2 DEF Assign
    <3> QED BY <3>1 DEF Promises, OwnerKnowsCondition, WaiterTested, NotifierBroadcasts, NoLostWakeup
  <2> QED BY <2>1, <2>2
\* If the promises are in force, the owner that notifies wakes all sleepers; a
\* notifier without the mutex wakes some and disturbs nobody.
<1>7. ASSUME NEW t \in Threads, Notify(t) PROVE Promises'
  <2>1. PICK woken \in Woken(op[t].kind) :
          pc' = [s \in Threads |-> IF s = t THEN Notified(t)
                                   ELSE IF s \in woken THEN "woken" ELSE pc[s]]
    BY <1>7 DEF Notify
  <2>2. pc[t] \in {"notify", "loose"} /\ UNCHANGED <<condition, op, sound>>
    BY <1>7 DEF Notify
  <2>3. \A s \in Threads \ {t} : pc'[s] = pc[s] \/ (pc[s] = "sleep" /\ pc'[s] = "woken")
    BY <2>1 DEF Woken
  <2>4. pc'[t] = "idle" \/ (pc[t] = "notify" /\ pc'[t] \in {"held", "release"})
    BY <2>1, <2>2 DEF Notified
  <2>5. OwnerKnowsCondition' /\ WaiterTested'
    BY <2>2, <2>3, <2>4 DEF OwnerKnowsCondition, WaiterTested
  <2>6. NotifierBroadcasts'
    BY <2>2, <2>3, <2>4 DEF NotifierBroadcasts
  <2>7. NoLostWakeup'
    <3>1. CASE pc[t] = "notify" /\ sound
      <4>1. op[t].kind \in {"Broadcast", "Unlock"}
        BY <3>1 DEF NotifierBroadcasts
      <4>2. woken = {s \in Threads : pc[s] = "sleep"}
        BY <4>1 DEF Woken
      <4>3. \A s \in Threads : pc'[s] # "sleep"
        BY <2>1, <2>4, <4>2
      <4> QED BY <4>3 DEF NoLostWakeup
    <3>2. CASE pc[t] = "loose"
      BY <2>2, <2>3, <2>4, <3>2 DEF NoLostWakeup
    <3>3. CASE ~sound
      BY <2>2, <3>3 DEF NoLostWakeup
    <3> QED BY <2>2, <3>1, <3>2, <3>3
  <2> QED BY <2>5, <2>6, <2>7 DEF Promises
\* The rest only moves a thread somewhere the promises do not mention.
<1>8. ASSUME NEW t \in Threads, Unlock(t) \/ GiveUp(t) \/ Release(t) PROVE Promises'
  <2>1. Goto(t, "idle") /\ pc[t] # "notify" /\ UNCHANGED <<condition, op, sound>>
    BY <1>8 DEF Unlock, GiveUp, Release
  <2> QED BY <2>1, HarmlessMove
<1>9. ASSUME NEW t \in Threads, AcquireFails(t) PROVE Promises'
  BY <1>9, HarmlessMove DEF AcquireFails
<1>10. ASSUME NEW t \in Threads, Reacquire(t) PROVE Promises'
  BY <1>10, HarmlessMove DEF Reacquire
<1>11. ASSUME NEW t \in Threads, Environment(t) PROVE Promises'
  BY <1>11, HarmlessMove DEF Environment, SpuriousWakeup, Timeout
<1>12. CASE UNCHANGED vars
  <2> USE <1>12 DEF vars
  <2>1. OwnerKnowsCondition' /\ WaiterTested'
    BY DEF OwnerKnowsCondition, WaiterTested
  <2>2. NotifierBroadcasts' /\ NoLostWakeup'
    BY DEF NotifierBroadcasts, NoLostWakeup
  <2> QED BY <2>1, <2>2 DEF Promises
<1> QED BY <1>1, <1>2, <1>3, <1>4, <1>5, <1>6, <1>7, <1>8, <1>9, <1>10, <1>11, <1>12
        DEF Next, Call, Progress

-----------------------------------------------------------------------------
\* The inductive invariant holds of every behaviour of the lock.
THEOREM Invariance == Spec => []IInv
<1>1. IInv /\ [Next]_vars => IInv'
  BY TypeInductive, MutexInductive, PromisesInductive DEF IInv, Promises
<1> QED BY InitInv, <1>1, PTL DEF Spec

\* Variables keep their types; condition is always one of the clients' values.
THEOREM TypeCorrect == Spec => []TypeOK
  BY Invariance, PTL DEF IInv

\* On every path of every Lock, timed Lock, TryLock and Unlock the mutex is held
\* exactly while one thread owns it.
THEOREM MutexTheorem == Spec => []MutualExclusion
  BY Invariance, PTL DEF IInv

\* Lock(c) returns to a caller for whom the condition is c, and it stays so
\* while notifiers hold the mutex.
THEOREM OwnerTheorem == Spec => []OwnerKnowsCondition
  BY Invariance, PTL DEF IInv

\* Whoever sleeps for the condition that now holds is about to be woken.
THEOREM WakeupTheorem == Spec => []NoLostWakeup
  BY Invariance, PTL DEF IInv
=============================================================================
