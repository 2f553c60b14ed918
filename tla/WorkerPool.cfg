CONSTANTS
  p1 = p1
  p2 = p2
  Jobs <- MCJobs
  Procs = {p1}
  Workers <- MCWorkers
  ListLimit = 1
  MaxRestarts = 1
  DbMayFail = TRUE
SPECIFICATION Spec
INVARIANT TypeOK
PROPERTY ImplementsJobLifecycle
\* A worker whose ProcessIngestionJob never returns keeps the channel full
\* and blocks the manager's send for ever once no restart is left: the
\* process really stops making progress there.
CHECK_DEADLOCK FALSE
