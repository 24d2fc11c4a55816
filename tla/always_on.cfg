SPECIFICATION FairSpec
CONSTANTS
  k1 = k1
  k2 = k2
  h1 = h1
  u1 = u1
  g1 = g1
  g2 = g2
  None = None
  Nobody = Nobody
  Left = Left
  Generation = {g1}
  Tick = {k1, k2}
  Handler = {h1}
  Unlocked = {}
  Writer <- Writers
  DailyBudget = 1
  MaxFired = 3
  MaxTimers = 2
  MaxCrashes = 1
INVARIANT TypeOK
INVARIANT NeverUnscheduled
PROPERTY DormantIsWatched
PROPERTY StopIsFinal
CHECK_DEADLOCK FALSE
INVARIANT BudgetOvershoot
