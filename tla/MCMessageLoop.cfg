\* A thread posting at three priorities around the response limit
SPECIFICATION Spec
CONSTANTS
  Main = main
  WindowThread = window
  Workers = {w}
  Priorities = {1, 2, 3}
  UIResponseLimit = 2
  DefaultQuitPriority = 4
  MaxPosts = 3
  MaxNested = 1
INVARIANTS TypeOK HandledOnce PostingOrderKept
PROPERTIES OnlyHandledLeave EveryMessageHandled QuitEndsLoop
\* the loop ends with the quit message
CHECK_DEADLOCK FALSE
