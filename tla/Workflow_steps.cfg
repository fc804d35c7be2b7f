SPECIFICATION FairSpec
CONSTANTS
  MaxSteps = 7
  MaxFixAttempts = 1
  MaxReviewRounds = 1
  MaxInvestigations = 1
  MaxRevision = 2
  MaxHuman = 2
  MaxCrashes = 0
  MaxCancels = 0
  MaxFaults = 0
CHECK_DEADLOCK FALSE
INVARIANT TypeOK
INVARIANT ApprovedIsVerified
INVARIANT VerifyOnlyUntouched
INVARIANT RewrittenTestsAreReplayed
INVARIANT WorkIsBounded
PROPERTY LoopEnds
