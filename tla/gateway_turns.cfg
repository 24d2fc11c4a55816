SPECIFICATION FairSpec
CONSTANTS
  t1 = t1
  t2 = t2
  t3 = t3
  k1 = k1
  k2 = k2
  project = project
  None = None
  Key = {k1}
  Turn = {t1, t2}
  Project = {project}
  KeyOf <- OneKey
  ProjectOf <- InProject
  AbandonTurn = {}
  PermissionReq = {p1}
  ElicitReq = {e1}
  AbortCall = {a1}
  AbortKeyOf <- AbortOnKey1
INVARIANT TypeOK
INVARIANT AbortContract
INVARIANT OnePumpPerKey
INVARIANT AbortReachesAgent
INVARIANT PromptsEndWithTurn
INVARIANT ReplayIsOwn
PROPERTY EffectiveAbortReturns
PROPERTY TurnUnwinds
PROPERTY NextTurnIsFresh
