CONSTANTS
  Players = {p1, p2, p3}
  Host = p1
  SpawnPoints = 2
  MaxJobs = 2
  MaxRequests = 2
  MaxDrops = 1
SPECIFICATION Spec
SYMMETRY GuestSymmetry
INVARIANTS
  PositionsAgree
  LightsAgree
  StartPointsAreOwn
  DisconnectedAreOut
CHECK_DEADLOCK FALSE
