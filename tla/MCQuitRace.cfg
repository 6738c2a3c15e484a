\* The loop runs between the two messages of PostQuitMessage
SPECIFICATION Spec
CONSTANTS
  Main = main
  WindowThread = window
  Workers = {w}
  Priorities = {1, 2, 3}
  UIResponseLimit = 2
  DefaultQuitPriority = 4
  MaxPosts = 1
  MaxNested = 0
INVARIANT ShellValid
\* the loop ends with the quit message
CHECK_DEADLOCK FALSE
