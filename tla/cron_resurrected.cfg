SPECIFICATION Spec
CONSTANTS
  ta = ta
  tb = tb
  create = create
  delete = delete
  deleteStopping = deleteStopping
  stop = stop
  runNow = runNow
  None = None
  Task = {ta}
  OnceTask = {}
  Initial <- AllLater
  Run = {r1}
  Tick = {k1}
  Call = {delete}
  Writer <- Writers
  Op <- Ops
  About <- AboutTa
  CopyOf <- CopyIsTb
  MaxConcurrentRuns = 1
  MaxTimers = 1
  MaxCrashes = 0
INVARIANT DeletedStaysDeleted
CHECK_DEADLOCK FALSE
