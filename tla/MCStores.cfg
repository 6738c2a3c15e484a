\* Memory: two mapped buffers, entries of two, two frames and part of a third
\* after loading.  Assets: five loads of four keys on two threads, room for two.
SPECIFICATION StoresSpec
CONSTANTS
  Resources = {1, 2, 3, 4, 5, 6, 7, 8, 9, 10}
  Buffers = {1, 2}
  SyncPhases = {"load"}
  MaxRecycled = 2
  MaxEntries = 2
  MaxBatch = 6
  MaxLoads = 5
  Keys = {k1, k2, k3, k4}
  Loaders = {main, io}
  NoKey = none
  MaxUse = 2
  vertex = vertex
  pixel = pixel
  compute = compute
  shared = shared
  alone = alone
  NoType = NoType
  Types <- MCTypes
  Sources <- MCSources
  Count <- MCCount
  Compiled <- MCCompiled
  Source <- MCSource
  Hash <- MCHash
INVARIANTS PooledIdle UsedIsReferenced CacheOrdered ShadersFound
\* all calls and tasks end
CHECK_DEADLOCK FALSE
