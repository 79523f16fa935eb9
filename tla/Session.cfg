CONSTANTS
  Threads = {t1, t2, t3}
  Buffers = {b1, b2, b3}
SPECIFICATION FairSpec
INVARIANTS
  OperationsStayOwned
  SentInOrder
  LateSenderBreaks
  WaitingBuffersHaveASender
  SecondCloseBreaks
PROPERTIES
  BuffersAreSent
  ClosedSessionIsUnlisted
CHECK_DEADLOCK FALSE
