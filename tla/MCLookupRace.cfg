\* Lookups on two threads under the shared lock
SPECIFICATION Spec
CONSTANTS
  MaxLoads = 5
  Keys = {k1, k2, k3}
  Threads = {main, io}
  NoKey = none
  MaxUse = 2
INVARIANT CountsMatch
\* all calls have returned
CHECK_DEADLOCK FALSE
