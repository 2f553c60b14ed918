CONSTANTS
  NBank <- MCNBank
  DbMayFail = FALSE
SPECIFICATION Spec
INVARIANT OneReconciliationNoneAfterFailure
CHECK_DEADLOCK FALSE
