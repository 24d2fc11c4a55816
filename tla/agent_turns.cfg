SPECIFICATION Spec
CONSTANTS
  KeepHead = 1
  KeepTail = 1
  MaxTurns = 2
  MaxCorrections = 1
  MaxInvalid = 2
  MaxSubmits = 2
  MaxTroubles = 2
INVARIANT TypeOK
 
INVARIANT NothingForgotten
INVARIANT WhollyRecorded
INVARIANT OnlyAbortsDangle
INVARIANT RoundsBounded
CHECK_DEADLOCK FALSE
