SPECIFICATION FairSpec
CONSTANTS
  Job = {j1, j2}
  Worker = {w1, w2}
  None = None
  Expiring = {}
  Deleting = {}
  Flaky = {}
  Depth = 1
  TimeLimit = TRUE
  MaxStops = 1
  MaxFaults = 0
PROPERTY
  JobsSettle
CHECK_DEADLOCK FALSE
