\* Coroutines on two threads
SPECIFICATION Spec
CONSTANTS
  MaxLoads = 5
  Keys = {k1, k2, k3, k4}
  Threads = {main, io}
  NoKey = none
  MaxUse = 2
INVARIANTS TypeOK ListMatchesCache OrderedByUse CacheBounded
PROPERTY OnlyOldestGoes
\* all calls have returned
CHECK_DEADLOCK FALSE
