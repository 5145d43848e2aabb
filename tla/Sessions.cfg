SPECIFICATION Spec
CONSTANTS
  c1 = c1
  c2 = c2
  p1 = p1
  p2 = p2
  Client = {c1, c2}
  Proxy = {p1, p2}
  Forgery <- Forgeries
  Route <- Routes
  Request = {r1, r2}
  Token = {t1}
  Credential = {A, B}
  None = None
  TTL = 2
  MaxFailures = 1
  FailWindow = 1
  GlobalMaxFailures = 2
  GlobalFailWindow = 0
  MaxFailureEntries = 1
  HashSlots = 1
  MaxTime = 4
  MaxBoots = 3
  MaxFaults = 1
SYMMETRY Symmetry
INVARIANTS
  TypeOK
  BoundToCredential
  LoggedOutStaysOut
  SessionsSurvive
  OvershootBounded
  CountedAgainstClient
CHECK_DEADLOCK FALSE
