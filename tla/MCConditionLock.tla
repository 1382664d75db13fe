--------------------------- MODULE MCConditionLock ---------------------------
(* Model-checking instances of ConditionLock.                              *)
EXTENDS ConditionLock, TLC

\* The threads are interchangeable (used by the runs without liveness).
Symmetry == Permutations(Threads)

=============================================================================
