CONSTANTS
  a = a
  b = b
  Hosts <- TwoHosts
  PeerCount = 1
  DuplicatePeers = 1
  BandwidthLimited <- OneLimited
  Calls <- ReconnectCalls
  MaxConnects <- TwoZero
  MaxAccepts <- ZeroTwo
  MaxSequence <- ZeroZero
SPECIFICATION FairSpec
INVARIANTS
  TypeOK
  FreeMeansClean
  NoForeignData
  EndsAgree
PROPERTIES
  RefinesLifecycle
  ConnectAnswered
  DisconnectAnswered
CHECK_DEADLOCK FALSE
