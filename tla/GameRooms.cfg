CONSTANTS
  Sessions = {s1, s2, s3}
  MaxPlayers = 3
  MaxRooms = 2
  MaxRequests = 4
  MaxDrops = 2
  None = None
SPECIFICATION Spec
SYMMETRY SessionSymmetry
INVARIANTS
  MembershipAgrees
  MembersAreKnown
  StaleViewsComeFromDisconnect
  OnlyEmptiedRoomsAreDeleted
  DisconnectedPlayersAreOut
PROPERTIES
  
  StuckUntilDisconnect
CHECK_DEADLOCK FALSE
