CONSTANTS
  Byte = {0, 1, 2, 3}
  SyncByte = 3
  CommandId = 0
  StatusId = 1
  PayloadSize = 2
  CrcSize = 2
  CRC16 <- MCCRC16
  NoCommand = NoCommand
  Commands <- MCSyncFree
  MaxFaults = 2
SPECIFICATION Spec
INVARIANTS
  TypeOK
  SecondPacketHandled
PROPERTY Recovers
