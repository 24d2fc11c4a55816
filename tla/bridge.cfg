SPECIFICATION Spec
CONSTANTS
  k1 = k1
  c1 = c1
  c2 = c2
  c3 = c3
  s1 = s1
  None = None
  Key = {k1}
  Turn = {c1, c2}
  KeyOf <- OneSession
  Stop = {s1}
  StopKeyOf <- StopOnSession
  MaxEvents = 1
SYMMETRY ChatsAreAlike
INVARIANT TypeOK
INVARIANT CompleteIsWhole
INVARIANT StreamIsOwedItsEnd
PROPERTY NotBusyWithStopped
PROPERTY LossStopsTurns
CHECK_DEADLOCK FALSE
