\* Two registrations of a name, by two nodes or one, in a cluster of three in which two
\* nodes may crash, or one of them twice.
CONSTANTS
  Nodes = {n1, n2, n3}
  Names = {a}
  Requests = {q1, q2}
  None = None
  Operations = {"Register"}
  MaxCrashes = 2
SPECIFICATION FairSpec
INVARIANTS
  TypeOK
  StoreFollowsLog
  IndexCoversStore
  AnsweredIsRegistered
PROPERTIES
  ImplementsRegistry
  RegisteredSpreads
\* Once every request has ended and every node has the log, the cluster rests.
CHECK_DEADLOCK FALSE
