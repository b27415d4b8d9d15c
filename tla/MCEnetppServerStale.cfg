CONSTANTS
  PeerCount = 2
  Budget <- StaleBudget
SPECIFICATION Spec
INVARIANT NoClientBeforeConnect
CHECK_DEADLOCK FALSE
