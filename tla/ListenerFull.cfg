CONSTANTS
  p1 = p1
  p2 = p2
  Peers <- TwoPeers
  Workers = {2}
  MaxConnections = 1
  MaxStarts = 1
  MaxFaults = 0
SPECIFICATION Spec
INVARIANTS
  FullServerRejects
CHECK_DEADLOCK FALSE
