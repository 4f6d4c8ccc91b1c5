SPECIFICATION Spec
CONSTANTS
  a = a
  b = b
  c = c
  d = d
  Writes = {a, b}
  MaxOpen = 2
  MayFail = FALSE
INVARIANT HonestAnswer
\* All writes may be answered; a dead task never is restarted.
CHECK_DEADLOCK FALSE
