SPECIFICATION FairSpec
CONSTANTS
  ta = ta
  tb = tb
  create = create
  delete = delete
  deleteStopping = deleteStopping
  stop = stop
  runNow = runNow
  None = None
  Task = {ta, tb}
  OnceTask = {tb}
  Initial <- AllLater
  Run = {r1, r2}
  Tick = {k1}
  Call = {}
  Writer <- Writers
  Op <- Ops
  About <- AboutTa
  CopyOf <- CopyIsTb
  MaxConcurrentRuns = 1
  MaxTimers = 1
  MaxCrashes = 0
PROPERTY NothingFiresAfterStop
PROPERTY DueIsHandled
CHECK_DEADLOCK FALSE
