\* reset while another thread is inside wait or wait_for
SPECIFICATION Spec
CONSTANTS
  Workers = {w1}
  Callers = {c1, c2}
  MaxTasks = 1
  MaxCalls = 1
  MaxResets = 1
  ResetAlone = FALSE
INVARIANT NobodyInside
CHECK_DEADLOCK FALSE
