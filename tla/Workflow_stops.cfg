SPECIFICATION Spec
CONSTANTS
  MaxSteps = 6
  MaxFixAttempts = 1
  MaxReviewRounds = 1
  MaxInvestigations = 1
  MaxRevision = 2
  MaxHuman = 1
  MaxCrashes = 1
  MaxCancels = 1
  MaxFaults = 1
CHECK_DEADLOCK FALSE
INVARIANT ApprovedCodeIsVerified
INVARIANT BaselineIsPristine
INVARIANT WorktreeReady
PROPERTY ImplementsContract
