SPECIFICATION Spec
CONSTANTS
  loop = loop
  handler = handler
  command = command
  server = server
  cli = cli
  Thread <- Threads
  Process <- Processes
  ProcOf <- Processing
  Decision = {d1, d2}
  Nobody = Nobody
  MaxOps = 5
  MaxCrashes = 1
  MaxFaults = 1
CHECK_DEADLOCK FALSE
INVARIANT TypeOK
INVARIANT NumbersIncrease
PROPERTY SaveReplacesItsVersion
PROPERTY DecisionsKeep
