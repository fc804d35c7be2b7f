SPECIFICATION Spec
CONSTANTS
  Clients = {a, b, c}
  Heads = {h}
  Keys = {k}
  MaxRequests = 4
  MaxStarts = 1
SYMMETRY Symmetry
CHECK_DEADLOCK FALSE
INVARIANT TypeOK
INVARIANT OneCase
PROPERTY SpecificationIsFixed
