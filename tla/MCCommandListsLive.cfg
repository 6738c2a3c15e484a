SPECIFICATION Spec
CONSTANTS
  Render = Render
  Loaders = {l1, l2}
  MaxAllocs = 2
  MaxBatch = 1
  MaxUpload = 2
  MaxFrame = 1
INVARIANT WaitReturnsComplete
PROPERTIES
  RenderReturns
  UploadReturns
  TimelineSpec
