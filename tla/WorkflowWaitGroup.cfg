CONSTANTS
  r1 = r1
  r2 = r2
  Reqs <- MCReqs
  NFiles = 2
SPECIFICATION Spec
INVARIANT NoWaitGroupPanic
CHECK_DEADLOCK FALSE
