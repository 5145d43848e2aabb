SPECIFICATION Spec
CONSTANTS
  Absent = Absent
  Requests <- AllRequests
  DefaultRetention = 30
  Answers <- SomeAnswers
  Lengths = {0, 1, 61, 7200}
INVARIANTS
  TypeOK
  RunnerAgrees
  QualityInRange
  UnderTarget
  CutEncodable
  HostCheckedAtRun
CHECK_DEADLOCK FALSE
