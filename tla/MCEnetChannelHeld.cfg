CONSTANTS
  RELIABLE_WINDOWS = 6
  RELIABLE_WINDOW_SIZE = 2
  FREE_RELIABLE_WINDOWS = 3
  WindowSize = 2
  MaximumWaitingData = 4
  MaxPackets = 8
  MaxUnsent = 1
  MaxDatagrams = 2
  MaxAcks = 2
  Lifetime <- LongestLifetime
  Base = 7
  MaxHeld = 1
SPECIFICATION HeldSpec
PROPERTY EventuallyDelivered
CHECK_DEADLOCK FALSE
