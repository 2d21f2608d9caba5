\* Self and two peers; averages over a second, histories of two, four seconds in all.
CONSTANTS
  n1 = n1
  n2 = n2
  n3 = n3
  Self = n1
  Peers = {n2, n3}
  PeerAverages <- MCPeerAverages
  MaxHistoryDuration = 2
  AvgRPSDuration = 1
  MaxTime = 4
  MaxRequests = 2
  MaxUpdates = 1
SPECIFICATION Spec
SYMMETRY PeerSymmetry
INVARIANTS
  RequestsKeptOnce
  HistoryBounded
PROPERTIES
  LightestIsLightest
  PanicsWhenQuiet
\* The clock stops at its bound.
CHECK_DEADLOCK FALSE
