\* Two nodes that may hang and of which one restarts, and a client that was given both addresses.
CONSTANTS
  n1 = n1
  n2 = n2
  Nodes = {n1, n2}
  None = None
  MaxRestarts = 1
  InitAddrs <- BothAddrs
SPECIFICATION FairSpec
INVARIANTS
  TypeOK
  MarkedWasLeader
PROPERTIES
  EmptiedByEmptyAnswer
  ClientReconnects
