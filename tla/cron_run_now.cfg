SPECIFICATION FairSpec
CONSTANTS
  ta = ta
  tb = tb
  create = create
  delete = delete
  deleteStopping = deleteStopping
  stop = stop
  runNow = runNow
  None = None
  Task = {ta, tb}
  OnceTask = {tb}
  Initial <- OnlyTa
  Run = {r1}
  Tick = {k1}
  Call = {runNow, stop}
  Writer <- Writers
  Op <- Ops
  About <- AboutTa
  CopyOf <- CopyIsTb
  MaxConcurrentRuns = 1
  MaxTimers = 1
  MaxCrashes = 0
PROPERTY PlacesAreGivenBack
CHECK_DEADLOCK FALSE
