CONSTANTS
  NumChannels = 2
  Depth = 2
  MinAngle = 0
  MaxAngle = 9
  InitialAngle = 5
  MaxDelta = 2
  Period = 2
  MaxLate = 5
  Commands <- MCTwoServos
  NoStatus = NoStatus
SPECIFICATION Spec
INVARIANTS
  TypeOK
  RoomForUpdate
  StatusTruthful
PROPERTIES
  OutputStep
  Converges
  ImplementsMotion
