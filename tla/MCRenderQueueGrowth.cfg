SPECIFICATION Spec
CONSTANTS
  NumWorkers = 1
  Renderer = Renderer
  Clients = {main, io}
  Coros = {c1, c2, c3}
  RenderCoros = {c1, c2, c3}
  None = None
  MaxHops = 1
  InitialSize = 2
  MaxLocalSize = 8
PROPERTY
  GrowthKeepsOperations
CHECK_DEADLOCK FALSE
