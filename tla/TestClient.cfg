CONSTANTS
  BufferSize = 9
  HeaderSize = 2
  MaxPacketSize = 3
  RecvSize = 4
  MinimumGrow = 2
  Byte <- MCBytes
  Zero <- MCZero
  ToInt16 <- MCToInt16
  Loads <- MCLoads
SPECIFICATION Spec
CHECK_DEADLOCK FALSE
INVARIANTS TypeOK RoomForPacket PacketsInOrder
PROPERTIES ImplementsByteStream ReceivedIsProcessed FormClosingEnds
