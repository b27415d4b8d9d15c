CONSTANTS
  Peers = {p1, p2, p3}
  WORD = 1024
  SCALE = 32
  INTERVAL = 32
  Elapsed = {48}
  Limits <- MCLimits
  HostLimits <- MCHostLimits
  Bursts = {10, 16}
  Steps = {8}
  MaxCalls = 1
  MaxChanges = 1
SPECIFICATION Spec
SYMMETRY PeerSymmetry
INVARIANTS
  TypeOK
  LimitedCounted
PROPERTIES
  PeersNotOverwhelmed
  HostNotOverwhelmed
  AnnouncedFairly
CHECK_DEADLOCK FALSE
