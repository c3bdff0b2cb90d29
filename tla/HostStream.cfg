CONSTANTS
  Byte = {0, 1, 2}
  SyncByte = 2
  CommandId = 0
  StatusId = 1
  PayloadSize = 1
  CrcSize = 1
  CRC16 <- MCCRC16
  Chunks <- MCChunks
  NoPacket = NoPacket
  MaxStream = 8
SPECIFICATION Spec
INVARIANTS
  TypeOK
  BufferIsTail
  BoundedBuffer
  NoFrameLost
  OnlyDisjointFrames
  DeliversFrames
PROPERTY WalksStream
