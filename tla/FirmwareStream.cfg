CONSTANTS
  Byte = {0, 1, 2}
  SyncByte = 2
  CommandId = 0
  StatusId = 1
  PayloadSize = 1
  CrcSize = 2
  CRC16 <- MCCRC16
  NoCommand = NoCommand
  MaxStream = 10
SPECIFICATION Spec
INVARIANTS
  TypeOK
  BuffersHoldStream
  OnlyValidCommands
  InSync
CHECK_DEADLOCK FALSE
