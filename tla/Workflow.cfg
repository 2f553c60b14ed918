CONSTANTS
  NBank <- MCNBank
  DbMayFail = TRUE
SPECIFICATION Spec
INVARIANT TypeOK
INVARIANT ReconciliationGated
INVARIANT ReturnedAfterCallbacks
CHECK_DEADLOCK FALSE
