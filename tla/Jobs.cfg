SPECIFICATION Spec
CONSTANTS
  o1 = o1
  o2 = o2
  u1 = u1
  u2 = u2
  a1 = a1
  d1 = d1
  d2 = d2
  s1 = s1
  None = None
  Error = Error
  Orgs = {o1, o2}
  Names = {u1, u2, a1}
  Jobs = {d1, d2, s1}
  DefaultWait = 1
  MaxWait = 2
  MaxChanges = 1
  Commands <- MCCommands
  Worlds <- MCWorlds
  Servers <- MCServers
INVARIANTS
  SidesAgree
  AnswersSettle
  AsAssessed
  ExitCodeTells
PROPERTIES
  ExecutionEnds
CHECK_DEADLOCK FALSE
