SPECIFICATION Spec
CONSTANTS
  w1 = w1
  w2 = w2
  d1 = d1
  d2 = d2
  Workers = {w1, w2}
  Devices = {d1, d2}
  Reach <- Separate
  None = None
  MaxChanges = 1
  MaxInFlight = 2
  MaxRestarts = 1
INVARIANT RoutedToReachingWorker
\* Every worker may be dead and every update collected: nothing respawns a worker.
CHECK_DEADLOCK FALSE
