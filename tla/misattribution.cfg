CONSTANTS
  a = a
  b = b
  c = c
  q1 = q1
  q2 = q2
  t1 = t1
  t2 = t2
  None = None
  Closed = Closed
  Backends = {a, b, c}
  Queries = {q1}
  Ticks = {t1}
  MaxInFlight = 2
SPECIFICATION LeavingSpec
INVARIANT RowsBelongToBackend
SYMMETRY BackendSymmetry
CHECK_DEADLOCK FALSE
