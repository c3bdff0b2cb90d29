CONSTANTS
  Joint = {joint_0, joint_1}
  Descriptions <- MCDescriptions
  Position = {1, 2}
  Zero = 0
  NaN = NaN
  Capacity = 1
  Angle = {0, 1, 2}
  InitialAngle = 2
  MaxDelta = 1
  Depth = 1
  NoStatus = NoStatus
  SyncFree <- MCSyncFree
  MaxFaults = 1
SPECIFICATION Spec
INVARIANT LoopTypeOK
PROPERTIES
  OrderKept
  Settles
