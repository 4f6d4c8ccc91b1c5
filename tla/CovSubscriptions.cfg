SPECIFICATION FairSpec
CONSTANTS
  ai1 = ai1
  ai10 = ai10
  p1 = p1
  p2 = p2
  Items = {ai1, ai10}
  Config <- Both
  Covers <- MCCovers
  Passes = {p1, p2}
  MaxRounds = 1
  MaxTasks = 3
  Requests = {"subscribe", "unsubscribe", "delete"}
  MaxRequests = 2
  MayFail = TRUE
  ClientNames <- Unconfirmed
  Listener = Listener
  NoName = NoName
INVARIANTS
  OneTaskPerName
  UnfinishedIsListed
PROPERTIES
  OnlyOwnEntries
  EndsUnlessBlocked
\* A worker that has ended does nothing more; one that cannot end waits for ever.
CHECK_DEADLOCK FALSE
