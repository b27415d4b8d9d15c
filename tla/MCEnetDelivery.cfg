CONSTANTS
  RELIABLE_WINDOWS = 4
  RELIABLE_WINDOW_SIZE = 2
  FREE_RELIABLE_WINDOWS = 3
  UNSEQUENCED_WINDOWS = 4
  UNSEQUENCED_WINDOW_SIZE = 2
  FREE_UNSEQUENCED_WINDOWS = 2
  UnreliableLimit = 3
  MaximumWaitingData = 5
  Kinds <- MCKinds
  ReliableBefore = 6
  UnsequencedBefore = 6
  MaxPackets = 4
  MaxInFragments = 3
SPECIFICATION Spec
INVARIANTS
  TypeOK
  NothingDeliverableWaits
  WaitingInOrder
  AssembledWhole
  WaitingDataBounded
  PacketsHeld
  WholeOrNothing
PROPERTIES
  StrayWriteOnlyBehindTwo
  RefinesDelivery
CHECK_DEADLOCK FALSE
