SPECIFICATION Spec
CONSTANTS
  Waiter = w
  Pool = {p1, p2}
  N = 3
  MaxAwaits = 2
INVARIANTS
  AwaiterOnce
  MemoryOutlivesUse
PROPERTIES
  JoinSpec
  SyncWaitReturns
CHECK_DEADLOCK FALSE
