SPECIFICATION Spec
CONSTANTS
  Job = {j1, j2}
  Worker = {w1, w2}
  None = None
  Expiring = {}
  Deleting = {}
  Flaky = {j1, j2}
  Depth = 1
  TimeLimit = TRUE
  MaxStops = 2
  MaxFaults = 1
SYMMETRY Symmetry
INVARIANTS
  TypeOK
  OneHolder
  RegistryExact
  QueuedIsHeld
  ResumeOldestFirst
  RunningIsHeld
  RunsAtMostOnce
  DoneHasOutput
  EventsConverge
CHECK_DEADLOCK FALSE
