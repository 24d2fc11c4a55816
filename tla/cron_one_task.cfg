SPECIFICATION Spec
CONSTANTS
  ta = ta
  tb = tb
  create = create
  delete = delete
  deleteStopping = deleteStopping
  stop = stop
  runNow = runNow
  None = None
  Task = {ta}
  OnceTask = {}
  Initial <- NoTask
  Run = {r1, r2}
  Tick = {k1, k2}
  Call = {create, delete}
  Writer <- Writers
  Op <- Ops
  About <- AboutTa
  CopyOf <- CopyIsTb
  MaxConcurrentRuns = 1
  MaxTimers = 2
  MaxCrashes = 1
SYMMETRY Alike
INVARIANT TypeOK
INVARIANT ConcurrencyLimit
INVARIANT NoTaskStuck
CHECK_DEADLOCK FALSE
