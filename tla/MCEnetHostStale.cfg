CONSTANTS
  a = a
  b = b
  Hosts <- TwoHosts
  PeerCount = 1
  DuplicatePeers = 2
  BandwidthLimited <- OneLimited
  Calls <- StaleCalls
  MaxConnects <- OneOne
  MaxAccepts <- OneOne
  MaxSequence <- ZeroZero
SPECIFICATION FairSpec
CHECK_DEADLOCK FALSE
PROPERTY ConnectAnswered
