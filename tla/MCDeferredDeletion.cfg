\* Latency and timeouts together as many as the frames a batch waits
SPECIFICATION Spec
CONSTANTS
  Objects = {a, b, c}
  Latency = 1
  MaxRefs = 2
  MaxTimeouts = 2
INVARIANTS TypeOK DeletedIdle ReleasedInOnePlace NoBatchOverdue
PROPERTIES ReleasedIsDeleted
