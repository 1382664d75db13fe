SPECIFICATION FairSpec
CONSTANTS
  Tasks = {a, b}
  Waiters = {c}
  ThreadCount = 1
  HardwareConcurrency = 4
  MaxStarts = 2
  MaxStops = 1
  SpawnMayFail = TRUE
  Free = Free
  NoTask = NoTask
CHECK_DEADLOCK FALSE
INVARIANTS EachTaskOnce JoinedMeansFinished WaitMeansDone
PROPERTIES ImplementsPool LiveWorkerDrains WaiterReturns
