SPECIFICATION FairSpec
CONSTANTS
  ai1 = ai1
  ai10 = ai10
  p1 = p1
  p2 = p2
  Items = {ai1, ai10}
  Config <- First
  Covers <- MCCovers
  Passes = {p1}
  MaxRounds = 2
  MaxTasks = 2
  Requests = {}
  MaxRequests = 0
  MayFail = TRUE
  ClientNames = {}
  Listener = Listener
  NoName = NoName
PROPERTY PassReestablishes
\* A worker that has ended does nothing more; one that cannot end waits for ever.
CHECK_DEADLOCK FALSE
