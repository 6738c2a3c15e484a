\* Two mapped buffers, entries of two, two frames and part of a third after loading
SPECIFICATION Spec
CONSTANTS
  Resources = {1, 2, 3, 4, 5, 6, 7, 8, 9, 10}
  Buffers = {1, 2}
  SyncPhases = {"load"}
  MaxRecycled = 2
  MaxEntries = 2
  MaxBatch = 6
INVARIANTS TypeOK PooledIdle UsedIsReferenced UploadsInOnePlace
PROPERTIES ReadyIsGivenBack
CHECK_DEADLOCK FALSE
