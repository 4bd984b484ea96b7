SPECIFICATION FairSpec
CONSTANTS
    HeaderMax = 255
    ReplyMax = 1280
    ValLen = 16
CONSTANT Scenarios <- MCScenarios
INVARIANTS HeardTrue 
PROPERTIES Heard
CHECK_DEADLOCK FALSE
