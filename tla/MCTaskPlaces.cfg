\* Two coroutines for the render thread: two threads come to be in its queue
SPECIFICATION Spec
CONSTANTS
  NumWorkers = 1
  Renderer = Renderer
  Clients = {main}
  Coros = {c1, c2, c3}
  RenderCoros = {c1, c2}
  None = None
  MaxHops = 2
  InitialSize = 2
  MaxLocalSize = 8
INVARIANTS
  OnePlace
PROPERTIES
  RemoteFifo
CHECK_DEADLOCK FALSE
