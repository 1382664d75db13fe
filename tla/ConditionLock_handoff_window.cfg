SPECIFICATION HandoffSpec
CONSTANTS
  Main = main
  Thread1 = thread1
  Thread2 = thread2
  Threads = {main, thread1, thread2}
  Conditions = {0, 1, 2, 3}
  NoTarget = NoTarget
  InitialCondition = 0
  NotifyKinds = {"Broadcast", "Unlock"}
CHECK_DEADLOCK FALSE
PROPERTIES HandoffCompletes
