SPECIFICATION FairSpec
CONSTANTS
  Callers = {c1, c2}
  Depth = 2
  Periodic = TRUE
  OneAtATime = TRUE
  MaxLines = 4
  MaxFlushes = 2
  MaxFailures = 1
INVARIANTS
  LogIsFaithful
  FlushMeansDelivered
PROPERTIES
  EveryCallReturns
  QuietLinesReachTheDisk
CHECK_DEADLOCK FALSE
