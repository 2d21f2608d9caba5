\* A call by a client that did not register the resource; does it cost nothing when it is refused?
CONSTANTS
  Nodes = {n1, n2}
  Names = {a}
  Requests = {q1}
  None = None
  Calls = {c1}
  Commands = {k1}
  Burst = 1
  MaxFaults = 0
SPECIFICATION Spec
INVARIANT RefusedIsFree
CHECK_DEADLOCK FALSE
