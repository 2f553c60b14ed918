CONSTANTS
  NBank <- MCNBank
  DbMayFail = FALSE
SPECIFICATION Spec
PROPERTY WorkflowTerminatesOnce
CHECK_DEADLOCK FALSE
