CONSTANTS
  Threads = {t1, t2}
  MaxDepth = 3
  None = None
SPECIFICATION Spec
INVARIANTS
  UnlockedInOrder
CHECK_DEADLOCK FALSE
