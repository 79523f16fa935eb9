CONSTANTS
  MaxSlots = 2
  MaxSessions = 4
  Clients = {c1, c2}
  Threads = {t1, t2}
  None = None
SPECIFICATION FairSpec
INVARIANTS
  SlotsAreKept
  SessionsAreFresh
PROPERTIES
  ClientsAreLetIn
CHECK_DEADLOCK FALSE
