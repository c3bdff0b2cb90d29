CONSTANTS
  Joint = {joint_0}
  Descriptions <- MCDescriptions
  Position = {p}
  Zero = Zero
  NaN = NaN
  Capacity = 2
  NoPacket = NoPacket
SPECIFICATION Spec
INVARIANTS
  TypeOK
  PortOutlivesThread
  DecoderOutlivesCallback
  ThreadsFollowLifecycle
PROPERTIES
  StateStaysReported
  ImplementsChannel
  DeactivateReturns
  QueueIsServed
