SPECIFICATION Spec
CONSTANTS
  Keys = {"a", "b", "c"}
  Capacity = 2
  TopFreq = 2
  Room = 2
  Blocks = {1, 2, 3}
INVARIANTS Consistent
PROPERTIES Promised
CHECK_DEADLOCK FALSE
