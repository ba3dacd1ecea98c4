CONSTANTS
  a = a
  b = b
  c = c
  q1 = q1
  q2 = q2
  t1 = t1
  t2 = t2
  None = None
  Closed = Closed
  Backends = {a, b}
  Queries = {q1}
  Ticks = {t1, t2}
  MaxInFlight = 1
SPECIFICATION Spec
INVARIANTS
  TypeOK
  SlotsAligned
  SetupComplete
  HandlesAreLive
SYMMETRY Symmetry
CHECK_DEADLOCK FALSE
