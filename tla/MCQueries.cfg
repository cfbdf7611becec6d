SPECIFICATION MCSpec
CONSTANTS
  q1 = q1
  q2 = q2
  c1 = c1
  Queries = {q1}
  Callers = {c1, c2}
  Attempts = {a1, a2}
  Sessions = {s1}
  RetainFor = 1
  MaxRetained = 1
  MaxTime = 1
  Nil = Nil
INVARIANTS
  StopStaysWithQuery
  OneRunPerId
  CancelTrue
PROPERTY
  CancellationsEnd
CHECK_DEADLOCK FALSE
