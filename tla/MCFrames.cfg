\* Deletion: latency and timeouts together as many as the frames a batch waits.
\* State cache: pipelines as in MCFrames, views in two slots.  Barriers: an
\* offscreen target, two back buffers, a depth buffer.  Tables: two stages, two
\* blocks and a local heap of two slots each, a global sampler heap with room
\* for one of two tables, three batches.
SPECIFICATION FramesSpec
CONSTANTS
  Objects = {a, b}
  Latency = 1
  MaxRefs = 2
  MaxTimeouts = 2
  Nothing = nothing
  Colors = {offscreen}
  BackBuffers = {back1, back2}
  Depths = {depth}
  MaxBarriers = 8
  Extent <- MCExtent
  Stride <- MCStride
  VertexBuffers = {vb1, vb2}
  IndexBuffers = {ib1, ib2}
  mesh = mesh
  line = line
  post = post
  blur = blur
  small = small
  large = large
  Graphics = {mesh, line, post}
  Compute = {blur}
  RootOf <- MCRootOf
  Count <- MCCount
  PrimitiveOf <- MCPrimitiveOf
  Undefined = "Undefined"
  Textures = {tex}
  MaxSlots = 2
  ViewStages = {1, 2}
  SamplerStages = {2}
  Samplers = {s0, s1}
  NoSampler = s0
  Garbage = garbage
  Blocks = 2
  BlockSize = 2
  LocalSize = 2
  GlobalSize = 1
  MaxBatch = 3
  MaxTables = 4
  MaxLocal = 4
INVARIANTS
  DeletedIdle
  DeletionOrderly
  DrawnAsAsked
  TrackedIsReal
  TablesValid
PROPERTIES
  TargetsReady
  SlotsReused
