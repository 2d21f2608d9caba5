\* A call on a resource that is registered twice, in a cluster of two.
CONSTANTS
  Nodes = {n1, n2}
  Names = {a}
  Requests = {q1, q2}
  None = None
  Calls = {c1}
  Commands = {k1}
  Burst = 1
  MaxFaults = 1
SPECIFICATION FairSpec
PROPERTY HandlersEnd
\* Once every call has ended and every node has the history, nothing is left to do.
CHECK_DEADLOCK FALSE
