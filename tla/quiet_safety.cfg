CONSTANTS
  a = a
  b = b
  c = c
  q1 = q1
  q2 = q2
  t1 = t1
  t2 = t2
  None = None
  Closed = Closed
  Backends = {a, b}
  Queries = {q1, q2}
  Ticks = {t1, t2}
  MaxInFlight = 2
SPECIFICATION QuietSpec
INVARIANTS
  NeverThrows
  TrackedIsDiscovered
  SamplesBelongToBackend
  ClaimsHaveOneHolder
  PendingStateIsAccurate
  SetupLockHeld
PROPERTIES
  KeepsMetrics
  EntriesMoveOn
SYMMETRY QuerySymmetry
