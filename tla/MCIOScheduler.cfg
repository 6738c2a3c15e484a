SPECIFICATION Spec
CONSTANTS
  IOThreads = {io}
  Clients = {t1, t2}
  Coros = {c1, c2}
  None = None
  MaxAwaits = 3
INVARIANTS
  OnePlace
  ResultsOwn
PROPERTY FileAwaitsReturn
CHECK_DEADLOCK FALSE
