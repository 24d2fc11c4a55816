SPECIFICATION FairSpec
CONSTANTS
  t1 = t1
  None = None
  UserAllow = {"write"}
  UserDeny = {}
  UserAsk = {"bash"}
  BgTask = {t1}
  MaxTasks = 1
  Slot <- Slots
  Batches <- Answers
  InitialMode = "default"
  UserModes = {"plan"}
  MaxTurns = 2
  MaxBatches = 2
  MaxThrows = 1
INVARIANT TypeOK
INVARIANT OneAtATime
PROPERTY TodoFirst
PROPERTY PlanIsReadOnly
PROPERTY AbortEndsTurn
CHECK_DEADLOCK FALSE
