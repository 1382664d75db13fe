SPECIFICATION WaitsSpec
CONSTANTS
  Threads = {t1, t2}
  Conditions = {0, 1}
  NoTarget = NoTarget
  InitialCondition = 0
  NotifyKinds = {"Signal", "Broadcast", "Unlock", "Set"}
  Clients = {t1, t2}
  SecondTicks = 2
  TickNanos = 2
  Lengths = {1, 3}
  Cuts = {1}
  InitialValue = 1
  MaxUnits = 2
  FirstStart = 3
  LastStart = 3
  MaxClock = 10
CHECK_DEADLOCK FALSE
INVARIANTS TimedTakesOne GivesUpWhenDue
PROPERTIES LockReturns TimedCallReturns
