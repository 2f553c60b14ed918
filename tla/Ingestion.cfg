CONSTANTS
  k1 = k1
  k2 = k2
  Keys <- MCKeys
  MaxLines = 3
  BatchSize = 2
  DbMayFail = TRUE
SPECIFICATION Spec
INVARIANT TypeOK
INVARIANT CompletedStoredAll
PROPERTY ImplementsJobLifecycle
CHECK_DEADLOCK FALSE
