SPECIFICATION Spec
CONSTANTS
  None = None
  Authors = {a1, a2}
  Contents = {c1, c2}
  MaxVersion = 3
  MaxCalls = 2
  MaxEvents = 2
  Projects = {p1, p2}
  Scopes <- MCScopes
SYMMETRY Symmetry
INVARIANTS
  AnswersTrue
PROPERTIES
  NothingOverwritten
  LinkedOnce
CHECK_DEADLOCK FALSE
