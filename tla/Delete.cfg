SPECIFICATION FairSpec
CONSTANTS
  Job = {j1, j2}
  Worker = {w1}
  None = None
  Expiring = {j1}
  Deleting = {j2}
  Flaky = {}
  Depth = 1
  TimeLimit = FALSE
  MaxStops = 1
  MaxFaults = 0
PROPERTIES
  DeletedWhileQueuedNeverRuns
  ImplementsLifecycle
  ShutdownCompletes
CHECK_DEADLOCK FALSE
