CONSTANTS
  Joint = {joint_0, joint_1}
  Descriptions <- MCDescriptions
  Unknown = Unknown
  Position = {p, q}
  Zero = Zero
  NaN = NaN
  Capacity = 2
SPECIFICATION CommandSpec
INVARIANT CommandTypeOK
PROPERTIES
  FirstZeroIgnored
  OnlyClaimedMove
SYMMETRY JointSymmetry
