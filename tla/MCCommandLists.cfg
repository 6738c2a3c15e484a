SPECIFICATION Spec
CONSTANTS
  Render = Render
  Loaders = {l1, l2}
  MaxAllocs = 3
  MaxBatch = 3
  MaxUpload = 1
  MaxFrame = 2
SYMMETRY LoaderSymmetry
INVARIANTS
  TypeOK
  MemoryIntact
  GenerationExact
  QueueFrontOldest
  AllocatorsConserved
  DestroyedIdle
