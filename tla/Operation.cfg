\* Two invocations and two orgs, one of them unclassified, or one invocation
\* while configuration and logins change.
SPECIFICATION FairSpec
CONSTANTS
  None = None
  t1 = t1
  t2 = t2
  Calls = {c1, c2}
  Targets = {t1, t2}
  MaxConfig = 1
  MaxLogin = 1
  MaxLines = 1
  MaxChanges = 3
  ConfiguredEnv <- MCConfiguredEnv
INVARIANTS
  TypeOK
  RanAsAssessed
  ProductionOnlyRetrieved
PROPERTIES
  FaultyWorkerRunsNothing
  ImplementsOneShot
  InvocationsEnd
CHECK_DEADLOCK FALSE
