CONSTANTS
  Threads = {t1, t2, t3}
  a1 = a1
  a2 = a2
  b = b
  c = c
  A = A
  B = B
  C = C
  Locks <- FourLocks
  NameOf <- ThreeNames
  MaxDepth = 2
  MaxStacked = 6
SPECIFICATION Spec
SYMMETRY Symmetry
INVARIANTS
  ReportsAreCircles
  DeadlocksAreReported
CHECK_DEADLOCK FALSE
