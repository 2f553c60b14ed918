CONSTANTS
  k1 = k1
  k2 = k2
  Keys <- MCKeys
  MaxLines = 3
  BatchSize = 2
  DbMayFail = FALSE
SPECIFICATION Spec
CHECK_DEADLOCK FALSE
PROPERTY RecordFailuresSkippedCounted
