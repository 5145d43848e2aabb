SPECIFICATION Spec
CONSTANTS
  Job = {j1}
  Own = {j1}
  Deletable = {j1}
  Buffer = 3
INVARIANTS
  TypeOK
  DroppedStaysGone
  InStep
