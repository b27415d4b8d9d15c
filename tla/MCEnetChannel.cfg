CONSTANTS
  RELIABLE_WINDOWS = 6
  RELIABLE_WINDOW_SIZE = 2
  FREE_RELIABLE_WINDOWS = 3
  WindowSize = 2
  MaximumWaitingData = 2
  MaxPackets = 12
  MaxUnsent = 1
  MaxDatagrams = 2
  MaxAcks = 1
  Lifetime <- LongestLifetime
  Base = 9
  MaxHeld = 1
SPECIFICATION MCSpec
INVARIANTS
  TypeOK
  AcknowledgedMeansAccepted
  RetransmitsFirst
  FlowAccounting
  WaitingOrdered
  AcceptedInOrder
PROPERTY RefinesStream
CHECK_DEADLOCK FALSE
