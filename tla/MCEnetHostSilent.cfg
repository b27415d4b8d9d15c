CONSTANTS
  a = a
  b = b
  Hosts <- TwoHosts
  PeerCount = 1
  DuplicatePeers = 1
  BandwidthLimited <- OneLimited
  Calls <- SilentCalls
  MaxConnects <- TwoZero
  MaxAccepts <- ZeroTwo
  MaxSequence <- ZeroZero
SPECIFICATION Spec
INVARIANT DisconnectHeard
CHECK_DEADLOCK FALSE
