SPECIFICATION Spec
CONSTANTS
  o1 = o1
  o2 = o2
  None = None
  Orgs = {o1, o2}
  Requests = {r1, r2}
  PoolSize = 2
  MaxGets = 2
  MaxEvents = 2
  Configs <- MCConfigs
INVARIANTS
  TypeOK
  IdentityFrozen
  NoLiveTokenReplaced
  EnvelopesAccepted
PROPERTIES
  CallsEnd
CHECK_DEADLOCK FALSE
