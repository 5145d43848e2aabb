SPECIFICATION Spec
CONSTANTS
  Job = {j1, j2, j3}
  Worker = {w1}
  None = None
  Expiring = {}
  Deleting = {}
  Flaky = {j1, j2, j3}
  Depth = 1
  TimeLimit = FALSE
  MaxStops = 0
  MaxFaults = 0
INVARIANT
  FullQueueIsVisible
CHECK_DEADLOCK FALSE
