CONSTANTS
  Threads = {t1, t2}
  Jobs = {j1, j2}
  MaxTick = 3
  WorkTick = 1
  None = None
SPECIFICATION FairSpec
INVARIANTS
  TimersAreKept
  InTickOrder
PROPERTIES
  EveryTimerEnds
