CONSTANTS
  r1 = r1
  r2 = r2
  k1 = k1
  k2 = k2
  Null = Null
  NaN = NaN
  NoRow = NoRow
  Rows = {r1, r2}
  Keys = {k1, k2}
  StatKey <- OwnKeys
  Textual = FALSE
  Irregular = {NaN}
  Increments = {1}
  MaxValue = 2
  MaxGrowth = 2
  MaxEpoch = 1
  MaxSpoiled = 1
SPECIFICATION Spec
INVARIANTS
  TypeOK
  NeverOvercounts
  NothingLost
SYMMETRY OwnKeysSymmetry
