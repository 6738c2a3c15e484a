\* Two stages, two blocks and a context-local heap of two slots each, a global
\* sampler heap with room for one of two tables, three batches
SPECIFICATION Spec
CONSTANTS
  ViewStages = {1, 2}
  SamplerStages = {2}
  Samplers = {s0, s1}
  NoSampler = s0
  Garbage = garbage
  Blocks = 2
  BlockSize = 2
  LocalSize = 2
  GlobalSize = 1
  MaxBatch = 3
  MaxTables = 4
  MaxLocal = 4
INVARIANTS TypeOK CleanTablesValid SamplerTablesExact BlocksInOnePlace
PROPERTIES NoNeedlessHeap NoSlotRewritten
