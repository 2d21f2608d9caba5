\* Two goroutines share a bucket of two tokens that gains one every two ticks.
SPECIFICATION Spec
CONSTANTS
  Callers = {c1, c2}
  FillPeriod = 2
  Burst = 2
  Requests = {1, 2}
  Births <- AroundNow
  MaxLag = 2
  MaxTime = 5
INVARIANT TypeOK
INVARIANT Ledger
INVARIANT RateBound
INVARIANT TakeRateBound
INVARIANT WindowBound
PROPERTY RefusalJustified
PROPERTY ImplementsContract
CHECK_DEADLOCK FALSE
