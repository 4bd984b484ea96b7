SPECIFICATION ClientSpec
CONSTANTS
    NameMax = 40
    HeaderMax = 255
    KeyLen = 160
    SeqMax = 8
    Scenarios <- MCScenariosOrNone
    Jobs <- MCJobs
    DefPipeLine = 2
    MaxPipeLine = 3
    MaxRetry = 2
    ChunkMax = 5
    ConnectRetries = 2
    MaxPort = 4
    DefPort = 4
    IdSize = 2
INVARIANTS SaidStays 
PROPERTIES Ordered Progress
CHECK_DEADLOCK FALSE
