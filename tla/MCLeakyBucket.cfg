\* Two goroutines share a bucket that holds two drops and drains one in two ticks; a request
\* of five never fits.
SPECIFICATION Spec
SYMMETRY CallerSymmetry
CONSTANTS
  Callers = {c1, c2}
  DrainPeriod = 2
  Capability = 2
  Requests = {1, 5}
  MaxLag = 1
  MaxTime = 13
INVARIANTS
  TypeOK
  Ledger
  ShapedRate
PROPERTIES
  RefusalJustified
  ImplementsContract
\* The clock stops at MaxTime.
CHECK_DEADLOCK FALSE
