\* Two workers, a queue of one and callers that wait for a place
SPECIFICATION Spec
CONSTANTS
  Workers = {w1, w2}
  Callers = {c1, c2, c3}
  MaxTasks = 1
  MaxCalls = 1
  MaxResets = 1
  ResetAlone = TRUE
INVARIANTS TypeOK TasksInOnePlace ResetDrains
PROPERTIES EveryTaskRuns EveryWaiterReturns ResetReturns
\* the callers stop calling
CHECK_DEADLOCK FALSE
