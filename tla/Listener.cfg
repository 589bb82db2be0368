CONSTANTS
  p1 = p1
  p2 = p2
  Peers <- TwoPeers
  Workers = {2}
  MaxConnections = 0
  MaxStarts = 2
  MaxFaults = 1
SPECIFICATION FairSpec
INVARIANTS
  TypeOK
  LoopOrReport
  BinderIsAlone
PROPERTIES
  PresentIsServing
  DownIsRemoved
  PendingIsServed
  RemovedFreesAddress
CHECK_DEADLOCK FALSE
