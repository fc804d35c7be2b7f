SPECIFICATION Spec
CONSTANTS
  Clients = {a, b}
  Heads = {h}
  Keys = {}
  MaxRequests = 2
  MaxStarts = 0
SYMMETRY Symmetry
CHECK_DEADLOCK FALSE
INVARIANT ImportedIsVerifyOnly
