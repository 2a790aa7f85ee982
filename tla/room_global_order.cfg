CONSTANTS
    Room = {1, 2}
    PageSize = 1
    MaxPages = 1
    MaxSeen = 2
    MaxPending = 3
    EmitExisting = FALSE
    MaxInactive = 1
    MaxBatches = 1
    MaxMsgs = 5
    MaxDeletes = 0
    MaxFaults = 0
SPECIFICATION Spec
INVARIANTS
    GlobalOrder
