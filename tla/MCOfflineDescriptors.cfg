SPECIFICATION Spec
CONSTANTS
  NumDescriptors = 5
  MaxHeaps = 2
INVARIANTS
  FreeListsExact
  FreeHeapsExact
PROPERTY PoolSpec
