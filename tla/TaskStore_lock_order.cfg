SPECIFICATION Spec
CONSTANTS
  loop = loop
  handler = handler
  command = command
  server = server
  cli = cli
  Thread <- Threads
  Process <- Processes
  ProcOf <- Processing
  Decision = {d1}
  Nobody = Nobody
  MaxOps = 2
  MaxCrashes = 0
  MaxFaults = 0
CHECK_DEADLOCK FALSE
INVARIANT NoCircle
