----------------------------- MODULE MCTaskQueue -----------------------------
(* Model-checking instances of TaskQueue.                                  *)
EXTENDS TaskQueue

\* The order of test/threading-thread.cpp, TEST(TaskAsync): every task is pushed
\* before Start() is called.
BatchNext == Next /\ (starts' # starts => \A t \in Tasks : pushPC[t] = "done")

BatchSpec == Init /\ [][BatchNext]_vars

=============================================================================
