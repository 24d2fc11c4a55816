SPECIFICATION Spec
CONSTANTS
  k1 = k1
  k2 = k2
  h1 = h1
  u1 = u1
  g1 = g1
  g2 = g2
  None = None
  Nobody = Nobody
  Left = Left
  Generation = {g1, g2}
  Tick = {k1, k2}
  Handler = {h1}
  Unlocked = {u1}
  Writer <- Writers
  DailyBudget = 1
  MaxFired = 0
  MaxTimers = 1
  MaxCrashes = 1
PROPERTY ImplementsRunLock
CHECK_DEADLOCK FALSE
SYMMETRY TicksAreAlike
