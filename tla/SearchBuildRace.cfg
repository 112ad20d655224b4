\* One process; the ledger changes during a build.
SPECIFICATION Spec
CONSTANTS
  c1 = c1
  c2 = c2
  c3 = c3
  None = None
  Partial = Partial
  Ids = {a}
  Contents = {c1}
  Procs = {p1}
  MaxDuring = 1
  MaxClock = 1
  MaxStarts = 2
  Reviewed <- MCReviewed
INVARIANTS
  AnswersNeverStale
CHECK_DEADLOCK FALSE
