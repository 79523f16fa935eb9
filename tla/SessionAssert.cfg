CONSTANTS
  Threads = {t1, t2}
  Buffers = {b1}
SPECIFICATION Spec
INVARIANTS
  OnlyConnectedAreDisconnected
CHECK_DEADLOCK FALSE
