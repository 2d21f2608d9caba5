\* Three calls that put, remove or move one of two names, in a cluster of two without crashes.
CONSTANTS
  Nodes = {n1, n2}
  Names = {a, b}
  Requests = {q1, q2, q3}
  None = None
  Operations = {"PutToNode", "Remove", "Move"}
  MaxCrashes = 0
SPECIFICATION Spec
SYMMETRY Symmetry
CONSTRAINT OneGivesUp
INVARIANTS
  NothingMissing
  LimiterWasRegistered
\* Once every request has ended and every node has the log, the cluster rests.
CHECK_DEADLOCK FALSE
