SPECIFICATION Spec
CONSTANTS
  File = {f1, f2}
  Job = {j1, j2}
  None = None
  Expiring = {}
  Grace = 1
INVARIANT DeleteSparesShared
