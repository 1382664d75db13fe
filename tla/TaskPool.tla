------------------------------ MODULE TaskPool ------------------------------
(***************************************************************************)
(* What a TaskQueue promises, without locks, conditions or threads: tasks  *)
(* are taken in the order they were pushed, each at most once, by at most  *)
(* Slots executors at a time; with one slot the queue is serial.           *)
(***************************************************************************)
EXTENDS Integers, Sequences, FiniteSets

CONSTANTS Tasks,  \* the tasks that may be pushed
          Slots   \* how many may run at once

VARIABLES pending,   \* pushed and not yet taken, in the order of the pushes
          running,   \* taken, Main() not finished
          finished   \* Main() finished

poolVars == <<pending, running, finished>>

Queued(t) == \E i \in 1 .. Len(pending) : pending[i] = t

PoolInit == pending = << >> /\ running = {} /\ finished = {}

Push(t) ==
  /\ ~Queued(t) /\ t \notin running /\ t \notin finished
  /\ pending' = Append(pending, t)
  /\ UNCHANGED <<running, finished>>

Take ==
  /\ pending # << >>
  /\ Cardinality(running) < Slots
  /\ running' = running \cup {Head(pending)}
  /\ pending' = Tail(pending)
  /\ UNCHANGED finished

Finish(t) ==
  /\ t \in running
  /\ running' = running \ {t}
  /\ finished' = finished \cup {t}
  /\ UNCHANGED pending

PoolNext == Take \/ \E t \in Tasks : Push(t) \/ Finish(t)

PoolSpec == PoolInit /\ [][PoolNext]_poolVars
=============================================================================
