CONSTANTS
    Room = {1, 2}
    PageSize = 1
    MaxPages = 1
    MaxSeen = 2
    MaxPending = 3
    EmitExisting = TRUE
    MaxInactive = 1
    MaxBatches = 1
    MaxMsgs = 3
    MaxDeletes = 0
    MaxFaults = 1
SPECIFICATION FairSpec
PROPERTIES
    EventuallyHandled
