\* One process, one entry, one org; approvals and org commands together.
SPECIFICATION Spec
CONSTANTS
  t1 = t1
  t2 = t2
  v1 = v1
  v2 = v2
  s1 = s1
  s2 = s2
  l0 = l0
  l1 = l1
  None = None
  Sentinel = Sentinel
  Ids = {a}
  Procs = {p1}
  Texts = {t1}
  Versions = {v1, v2}
  NoSource = {missing}
  Limits = {l0}
  NoLimits = l0
  Facts = {v1, v2}
  Stamps = {s1}
  Orgs = {o1}
  Obs = {b1, b2}
  ProseLimit = 1
  ManifestLimit = 2
  MaxLedger = 2
  MaxOrgLedger = 3
  MaxEdits = 0
  FactsOf <- MCFactsOf
  ExternalFiles <- MCExternalFiles
INVARIANTS
  TypeOK
  OrgMismatchDetected
PROPERTIES
  OrgWriteKeepsLane
CHECK_DEADLOCK FALSE
