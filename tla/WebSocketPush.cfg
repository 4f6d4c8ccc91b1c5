SPECIFICATION PushFairSpec
CONSTANTS
  MaxSockets = 3
  MaxUpdates = 3
INVARIANTS
  Settled
PROPERTIES
  GoesBackOnlyIfOvertaken
  UpdatesArrive
\* No client may be there, and no update come.
CHECK_DEADLOCK FALSE
