SPECIFICATION Spec
CONSTANTS
  NumWorkers = 2
  Renderer = Renderer
  Clients = {main}
  Coros = {c1, c2}
  RenderCoros = {c1}
  None = None
  MaxHops = 2
  InitialSize = 2
  MaxLocalSize = 8
INVARIANTS
  OnePlace
PROPERTIES
  RemoteFifo
  LocalWorkRuns
  SleeperServes
CHECK_DEADLOCK FALSE
