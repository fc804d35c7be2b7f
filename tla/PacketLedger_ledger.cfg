SPECIFICATION Spec
CONSTANTS
  Clients = {a, b}
  FalseErrors = TRUE
  Budgets <- Mixed
SYMMETRY Symmetry
CHECK_DEADLOCK FALSE
INVARIANT TypeOK
INVARIANT VersionsCount
INVARIANT VerdictIsPinned
INVARIANT UnknownIsNotRepeated
