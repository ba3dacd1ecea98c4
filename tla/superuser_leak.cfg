CONSTANTS
  MaxAttempts = 1
  Versions = {90200}
  Catalogue <- QUERIES
SPECIFICATION Spec
INVARIANT SuperuserDisconnects
CHECK_DEADLOCK FALSE
