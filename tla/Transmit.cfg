SPECIFICATION FairSpec
CONSTANTS
  Peers = {"p", "q"}
  TcpPeers = {"p"}
  Lists <- OneOrBoth
  FaceMax = 2
  Slots = 4
  Increment = 4
  BlockSize = 16
  MemoryMax = 12
  FrameLen = 2
  PushTries = 1
  SendTries = 0
  FrameMax = 4
INVARIANTS BlocksKept
PROPERTIES QueueKept  FramesLeave
CHECK_DEADLOCK FALSE
