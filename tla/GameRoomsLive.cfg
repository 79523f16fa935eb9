CONSTANTS
  Sessions = {s1, s2}
  MaxPlayers = 2
  MaxRooms = 2
  MaxRequests = 3
  MaxDrops = 2
  None = None
SPECIFICATION FairSpec
PROPERTIES
  EmptyRoomIsDeleted
CHECK_DEADLOCK FALSE
