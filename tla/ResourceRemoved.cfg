\* A name is put and removed; is it gone everywhere?
CONSTANTS
  Nodes = {n1, n2}
  Names = {a}
  Requests = {q1, q2}
  None = None
  Operations = {"PutToNode", "Remove"}
  MaxCrashes = 0
SPECIFICATION Spec
INVARIANT RemovedIsGone
CHECK_DEADLOCK FALSE
