SPECIFICATION FairSpec
CONSTANTS
  Names = {1, 2}
  Chunks = {0, 1}
  Capacity = 3
  BuffNum = 2
  PageCobs = 2
  TxCobs = 2
  LastDay = 9
  MaxPending = 2
  ContentsNum = 2
  MaxSlot = 2
  Room = 4
  Scenarios <- MCScenarios
  MaxLoad = 3
  MaxId = 4
  MaxLink = 2
 
PROPERTIES  Progress
CHECK_DEADLOCK FALSE
