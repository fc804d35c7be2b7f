SPECIFICATION Spec
CONSTANTS
  Proc = {server, cli}
  Server = {server}
  Decision = {d1, d2}
  NoProc = NoProc
  NoDecision = NoDecision
  MaxSteps = 1
  MaxVersion = 6
  Budgets <- OneTrouble
SYMMETRY DecisionSymmetry
CHECK_DEADLOCK FALSE
INVARIANT TypeOK
INVARIANT OneDriver
INVARIANT AnswerOnRecord
INVARIANT AwaitingIsAnswerable
INVARIANT InterruptedHasResumePoint
PROPERTY ClosedTaskStaysClosed
PROPERTY AnswersAreKept
PROPERTY ImplementsContract
