CONSTANTS
  Threads = {t1, t2, t3}
  MaxDepth = 2
  None = None
SPECIFICATION FairSpec
INVARIANTS
  FlagCountsGuards
PROPERTIES
  UpgradeNeverEnds
  LockMovesOn
  ImplementsReadWriteLock
CHECK_DEADLOCK FALSE
