\* Two processes and one entry; the org commands are off.
SPECIFICATION Spec
CONSTANTS
  t1 = t1
  t2 = t2
  v1 = v1
  v2 = v2
  s1 = s1
  s2 = s2
  l0 = l0
  l1 = l1
  None = None
  Sentinel = Sentinel
  Ids = {a}
  Procs = {p1, p2}
  Texts = {t1, t2}
  Versions = {v1}
  NoSource = {missing}
  Limits = {l0}
  NoLimits = l0
  Facts = {v1}
  Stamps = {s1}
  Orgs = {}
  Obs = {}
  ProseLimit = 1
  ManifestLimit = 2
  MaxLedger = 3
  MaxOrgLedger = 0
  MaxEdits = 1
  FactsOf <- MCFactsOf
  ExternalFiles <- MCExternalFiles
SYMMETRY Symmetry
INVARIANTS
  EffectiveIsReviewed
  RevocationNotOverridden
PROPERTIES
  ImplementsRegister
CHECK_DEADLOCK FALSE
