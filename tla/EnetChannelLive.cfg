CONSTANTS
  RELIABLE_WINDOWS = 6
  RELIABLE_WINDOW_SIZE = 2
  FREE_RELIABLE_WINDOWS = 3
  WindowSize = 2
  MaximumWaitingData = 4
  MaxPackets = 2
  MaxUnsent = 1
  MaxDatagrams = 2
  MaxAcks = 2
  Lifetime = 9
SPECIFICATION FairSpec
PROPERTY EventuallyDelivered
CHECK_DEADLOCK FALSE
