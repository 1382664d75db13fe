------------------------------ MODULE MCWaits ------------------------------
(***************************************************************************)
(* Threads that wait, for TLC: a behaviour is one of a condition lock or   *)
(* one of timed waits, chosen at the start, with the fairness of either.   *)
(***************************************************************************)
EXTENDS ConditionLock, TimedWait

VARIABLE part

WaitsInit ==
  /\ Init /\ TimedInit
  /\ part \in {"lock", "timed"}
  /\ part = "lock" => build = "native" /\ kind = "semaphore" /\ clock = FirstStart

WaitsNext ==
  \/ part = "lock" /\ Next /\ UNCHANGED <<timedVars, part>>
  \/ part = "timed" /\ TimedNext /\ UNCHANGED <<vars, part>>

WaitsSpec ==
  /\ WaitsInit /\ [][WaitsNext]_<<vars, timedVars, part>>
  /\ part = "lock" => Fairness
  /\ part = "timed" => TimedFairness
=============================================================================
