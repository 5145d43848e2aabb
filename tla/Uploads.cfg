SPECIFICATION FairSpec
CONSTANTS
  File = {f1, f2}
  Job = {j1, j2}
  None = None
  Expiring = {j1}
  Grace = 1
INVARIANTS
  TypeOK
  InputKept
PROPERTY
  OrphansCollected
