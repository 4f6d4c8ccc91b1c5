SPECIFICATION FairSpec
CONSTANTS
  Workers = {w1, w2}
  Requests = {r1}
  Posts = {c1}
  Shutdown = Shutdown
  None = None
PROPERTIES
  EveryCallReturns
  EveryCommandServed
  DeathNoticed
  StopCompletes
\* The system stops for good once the supervisor has exited.
CHECK_DEADLOCK FALSE
