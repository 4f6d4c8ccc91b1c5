SPECIFICATION Spec
CONSTANTS
  Workers = {w1, w2}
  Requests = {r1, r2}
  Posts = {c1}
  Shutdown = Shutdown
  None = None
SYMMETRY Interchangeable
INVARIANTS
  PendingExact
  AnswerIsOwn
  AnswerMeansServedInOrder
  ClosesWithNothingUnserved
PROPERTY KeepsContract
\* The system stops for good once the supervisor has exited.
CHECK_DEADLOCK FALSE
