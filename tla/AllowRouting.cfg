\* Two calls on two resources and two registrations, in a cluster of two.
CONSTANTS
  Nodes = {n1, n2}
  Names = {a, b}
  Requests = {q1, q2}
  None = None
  Calls = {c1, c2}
  Commands = {k1, k2}
  Burst = 1
  MaxFaults = 1
SPECIFICATION Spec
SYMMETRY Symmetry
INVARIANTS
  TypeOK
  OneBurstPerCopy
  BoundWasOwner
  SettledCallsAreShort
\* Once every call has ended and every node has the history, nothing is left to do.
CHECK_DEADLOCK FALSE
