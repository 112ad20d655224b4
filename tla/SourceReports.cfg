SPECIFICATION Spec
CONSTANTS
  obj = obj
  fld = fld
  cls = cls
  v1 = v1
  v2 = v2
  None = None
  Broken = Broken
  Partial = Partial
  Names = {obj, fld, cls}
  Draftable = {cls}
  PathTells = {obj, cls}
  Owner <- MCOwner
  Token <- MCToken
  Local = {obj, fld}
  CycleDays = 1
  Procs = {p1}
  Contents <- MCContents
  FactsOf <- MCFactsOf
  MaxEdits = 2
  MaxDay = 1
INVARIANTS
  
  
  NarrowCheckSound
  ReportsRight
CHECK_DEADLOCK FALSE
