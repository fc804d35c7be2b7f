SPECIFICATION Spec
CONSTANTS
  Cases <- BothTasks
  Repos = {1}
  RepeatRepro = 1
  Outcomes = {"pass", "fail", "opaque", "crash"}
  Reviews <- SomeReviews
  RootFiles = {"code"}
  EditWhile = {"idle", "test"}
  Touches <- CodeThenTests
  MaxRounds = 2
  MaxHuman = 1
CHECK_DEADLOCK FALSE
INVARIANT TypeOK
INVARIANT SupportedIsEarned
PROPERTY FailureSticks
