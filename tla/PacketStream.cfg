CONSTANTS
  HeaderSize = 2
  PacketSizes = {2, 3}
  BufferSize = 3
  BufferCount = 3
  MaxPackets = 6
SPECIFICATION StreamSpec
INVARIANTS
  StreamIsKept
PROPERTIES
  LagNeverShrinks
  ImplementsPacketChannel
CHECK_DEADLOCK FALSE
