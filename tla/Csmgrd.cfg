SPECIFICATION FairSpec
CONSTANTS
  Address <- Peers
  Scenarios <- Few
  Findings <- Found
  MaxSlot = 1
  BuffSize = 1
  Plugin = "memory"
  MaxFd = 8
INVARIANTS Consistent Intact
PROPERTIES AnswersAsker Progress
CHECK_DEADLOCK FALSE
