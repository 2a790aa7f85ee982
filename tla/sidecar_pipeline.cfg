CONSTANTS
    Event = {e1, e2, e3}
    MaxInFlight = 1
    MaxQueued = 1
    MaxRetries = 1
    MaxConn = 1
    Capacity = 1
    ApiResult <- MCApiResult
    Configs <- MCConfigs
    MaxHeader = 5
    MaxBody = 2
    Buffer = 4
    Terminator = 2
    NoLength = NoLength
    BadLength = BadLength
SPECIFICATION FairSpec
INVARIANTS
    SlotsExact
    NoLostWakeup
    NoFalseRejection
    NoForeignReply
    SplittingIrrelevant
PROPERTIES
    AckedIsPrinted
    ForwardEnds
