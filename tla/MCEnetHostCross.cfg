CONSTANTS
  a = a
  b = b
  Hosts <- TwoHosts
  PeerCount = 2
  DuplicatePeers = 2
  BandwidthLimited <- OneLimited
  Calls <- CrossCalls
  MaxConnects <- OneOne
  MaxAccepts <- OneOne
  MaxSequence <- TwoZero
SPECIFICATION Spec
INVARIANTS
  PeersCounted
  DispatchQueueConsistent
  EndsAgree
CHECK_DEADLOCK FALSE
