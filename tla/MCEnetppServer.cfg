CONSTANTS
  PeerCount = 2
  Budget <- FullBudget
SPECIFICATION FairSpec
INVARIANTS
  TypeOK
  OwnedOnce
  NoneDangling
  MapAgrees
  EventsInOrder
PROPERTY
  Stops
CHECK_DEADLOCK FALSE
