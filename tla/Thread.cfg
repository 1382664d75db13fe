SPECIFICATION FairSpec
CONSTANTS
  Owner = owner
  Pollers = {p1,p2}
  MaxStarts = 2
CHECK_DEADLOCK FALSE
INVARIANTS CopiesLiveObject NoFault WaitedIsOver RunningIsNamed
PROPERTIES StopEnds
