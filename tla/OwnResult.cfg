SPECIFICATION Spec
CONSTANTS
  j1 = j1
  j2 = j2
  j3 = j3
  aa = aa
  bb = bb
  Job = {j1, j2, j3}
  None = None
  Tag = {aa, bb}
  TagOf <- Tags
  SlugOf <- OwnSlugs
  Earlier = {}
  KindsOf <- SomeKinds
  MaxSize = 1
  Length = 1
  MaxClock = 2
  MaxNameAttempts = 1
  MaxRuns = 2
  MaxCrashes = 0
INVARIANT
  OwnResult
CHECK_DEADLOCK FALSE
