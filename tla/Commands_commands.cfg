SPECIFICATION FairSpec
CONSTANTS
  Run = {r1}
  Leader = leader
  Child = {c1, c2}
  Nobody = Nobody
  MaxChecks = 1
  MaxCrashes = 1
CHECK_DEADLOCK FALSE
INVARIANT TypeOK
INVARIANT GroupIsGone
INVARIANT OutputIsWhole
PROPERTY EveryRunEnds
