SPECIFICATION Spec
CONSTANTS
  Job = {j1, j2}
  Own = {}
  Deletable = {j2}
  Buffer = 2
INVARIANT ReconnectReconciles
