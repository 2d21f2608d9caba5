\* Three calls on a connection, a server with a pool of workers or without one.
CONSTANTS
  Calls = {c1, c2, c3}
  None = None
SPECIFICATION FairSpec
INVARIANTS
  TypeOK
  AnswersMatchUntilGivenUp
  AnswersAreUsedOnce
PROPERTY CallsReturn
\* Once every call has returned and the server has stopped, nothing is left to do.
CHECK_DEADLOCK FALSE
