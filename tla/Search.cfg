\* Two processes build and query while entry and ledger change.
SPECIFICATION Spec
CONSTANTS
  c1 = c1
  c2 = c2
  c3 = c3
  None = None
  Partial = Partial
  Ids = {a}
  Contents = {c1, c3}
  Procs = {p1, p2}
  MaxDuring = 1
  MaxClock = 2
  MaxStarts = 2
  Reviewed <- MCReviewed
SYMMETRY Symmetry
INVARIANTS
  IndexRight
PROPERTIES
  ServedWasApproved
CHECK_DEADLOCK FALSE
