SPECIFICATION Spec
CONSTANTS
  Run = {r1, r2}
  Leader = leader
  Child = {c1}
  Nobody = Nobody
  MaxChecks = 1
  MaxCrashes = 1
CHECK_DEADLOCK FALSE
INVARIANT ProbedIsStarted
