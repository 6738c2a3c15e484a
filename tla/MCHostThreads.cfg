\* Two workers, a queue of two and two callers of two tasks each; a thread
\* posting at three priorities around the response limit
SPECIFICATION HostSpec
CONSTANTS
  Workers = {w1, w2}
  Callers = {c1, c2}
  MaxTasks = 2
  MaxCalls = 2
  MaxResets = 1
  ResetAlone = TRUE
  Main = main
  WindowThread = window
  Posters = {poster}
  Priorities = {1, 2, 3}
  UIResponseLimit = 2
  DefaultQuitPriority = 4
  MaxPosts = 2
  MaxNested = 1
INVARIANTS TasksKept DispatchOrderly
PROPERTIES EveryTaskRuns EveryCallReturns EveryMessageHandled
\* the loop ends with the quit message, the callers stop calling
CHECK_DEADLOCK FALSE
