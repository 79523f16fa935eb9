CONSTANTS
  Threads = {t1, t2, t3}
  Jobs = {j1, j2, j3}
  None = None
SPECIFICATION FairSpec
INVARIANTS
  SerialExecution
  CountAccounts
  StrandedOnlyThroughSlip
PROPERTIES
  StrandedForEver
  EveryJobRunsOrIsStranded
  ImplementsSerialQueue
CHECK_DEADLOCK FALSE
