CONSTANTS
  MaxAttempts = 2
  Versions = {90300, 90400, 90600, 100000}
  Catalogue <- QUERIES
SPECIFICATION FairSpec
INVARIANTS
  TypeOK
  ClientDestroyed
  NeverThrows
  QueriesFitServer
  QueriesCanRun
  SomethingIsDue
PROPERTIES
  SetupKeepsPromise
  EveryStepCounts
  AttemptsEnd
CHECK_DEADLOCK FALSE
