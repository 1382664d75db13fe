SPECIFICATION Spec
CONSTANTS
  Threads = {t1, t2, t3}
  Conditions = {0, 1}
  NoTarget = NoTarget
  InitialCondition = 0
  NotifyKinds = {"Signal", "Broadcast", "Unlock", "Set"}
SYMMETRY Symmetry
INVARIANTS MutualExclusion OwnerKnowsCondition NoLostWakeup
