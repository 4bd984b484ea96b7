SPECIFICATION FairSpec
CONSTANTS
  Contents = {"c"}
  Chunks = {0, 1, 2}
  Batches <- FewBatches
  Wanted = {0, 1}
  Algorithms = {"None", "lru"}
  Capacity = 2
  Buffers = 2
  BufferSize = 1
  TimeMax = 2
  PutMax = 3
INVARIANTS Consistent
PROPERTIES NeverOlder Written
CHECK_DEADLOCK FALSE
