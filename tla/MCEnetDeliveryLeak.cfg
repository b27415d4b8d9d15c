CONSTANTS
  RELIABLE_WINDOWS = 4
  RELIABLE_WINDOW_SIZE = 2
  FREE_RELIABLE_WINDOWS = 3
  UNSEQUENCED_WINDOWS = 4
  UNSEQUENCED_WINDOW_SIZE = 2
  FREE_UNSEQUENCED_WINDOWS = 2
  UnreliableLimit = 2
  MaximumWaitingData = 4
  Kinds <- MCKinds
  ReliableBefore = 6
  UnsequencedBefore = 6
  MaxPackets = 4
  MaxInFragments = 2
SPECIFICATION Spec
INVARIANT RoomBelowTheLimit
CHECK_DEADLOCK FALSE
