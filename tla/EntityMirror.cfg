SPECIFICATION MirrorFairSpec
CONSTANTS
  media = media
  level = level
  a = a
  b = b
  EntityList <- MCList
  Domain <- MCDomain
  Numeric = {}
  Target <- MCTarget
  Writes = {a, b}
  MaxOpen = 2
  MayFail = TRUE
  MaxChanges = 2
  MaxEvents = 2
INVARIANTS
  NothingLostSilently
  HonestToOneClient
  RequestsOnly
  OneItemPerHandler
  RejectionsAreRefusals
PROPERTIES
  OutOfServiceHeld
  MirrorCatchesUp
  EveryWriteAnswered
\* All writes may be answered and all changes made.
CHECK_DEADLOCK FALSE
