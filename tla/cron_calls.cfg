SPECIFICATION FairSpec
CONSTANTS
  ta = ta
  tb = tb
  create = create
  delete = delete
  deleteStopping = deleteStopping
  stop = stop
  runNow = runNow
  None = None
  Task = {ta}
  OnceTask = {ta}
  Initial <- AllLater
  Run = {r1, r2}
  Tick = {k1}
  Call = {deleteStopping}
  Writer <- Writers
  Op <- Ops
  About <- AboutTa
  CopyOf <- CopyIsTb
  MaxConcurrentRuns = 2
  MaxTimers = 1
  MaxCrashes = 0
PROPERTY CallsReturn
CHECK_DEADLOCK FALSE
