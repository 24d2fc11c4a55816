SPECIFICATION Spec
CONSTANTS
  t1 = t1
  t2 = t2
  t3 = t3
  k1 = k1
  k2 = k2
  project = project
  None = None
  Key = {k1}
  Turn = {t1, t2}
  Project = {project}
  KeyOf <- OneKey
  ProjectOf <- InProject
  AbandonTurn = {t1, t2}
  PermissionReq = {}
  ElicitReq = {}
  AbortCall = {a1}
  AbortKeyOf <- AbortOnKey1
INVARIANT SlotOwnership
PROPERTY ImplementsTurnSlot
