SPECIFICATION FairSpec
CONSTANTS
  Names = {"a", "b", "c"}
  Chunks = {0, 1}
  Place <- InChain
  Row <- ByChunk
  Capacity = 2
  AtOnce = 1
  Feeds <- Fed
  LookupMax = 1
  SweepMax = 1
  Slot <- Slots2
  Access = "RW"
  BufferTime = 1
  BatchRoom = 2
  SockRoom = 2
  ReadMax = 3
  SendTries = 1
  Scripts <- Scripted
  CrashMax = 1
  PipeRoom = 3
  WriteTries = 2
  TimeMax = 2
INVARIANTS Consistent Received
PROPERTIES NeverOlder Progress
CHECK_DEADLOCK FALSE
