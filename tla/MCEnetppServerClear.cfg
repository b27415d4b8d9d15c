CONSTANTS
  PeerCount = 2
  Budget <- ClearBudget
SPECIFICATION ClearSpec
INVARIANT ClientListed
CHECK_DEADLOCK FALSE
