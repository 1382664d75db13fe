SPECIFICATION BatchSpec
CONSTANTS
  Tasks = {a, b}
  Waiters = {}
  ThreadCount = 1
  HardwareConcurrency = 1
  MaxStarts = 1
  MaxStops = 1
  SpawnMayFail = FALSE
  Free = Free
  NoTask = NoTask
CHECK_DEADLOCK FALSE
INVARIANTS StopWaitsForQueue
