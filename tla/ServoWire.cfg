CONSTANTS
  Commands <- MCCommands
  Moves <- MCMoves
  Damage <- MCDamage
SPECIFICATION Spec
INVARIANTS
  CrcIsRemainder
  RoundTrip
PROPERTIES
  DamageRejected
  CommandKept
  PulsesInOrder
  StatusKept
CHECK_DEADLOCK FALSE
