SPECIFICATION Spec
CONSTANTS
  NumWorkers = 1
  Renderer = Renderer
  Clients = {main}
  Coros = {c1, c2, c3, c4, c5}
  RenderCoros = {}
  None = None
  MaxHops = 1
  InitialSize = 2
  MaxLocalSize = 4
INVARIANT
  LocalQueueBounded
CHECK_DEADLOCK FALSE
