CONSTANTS
    Room = {1, 2}
    PageSize = 1
    MaxPages = 2
    MaxSeen = 2
    MaxPending = 2
    EmitExisting = FALSE
    MaxInactive = 1
    MaxBatches = 1
    MaxMsgs = 3
    MaxDeletes = 1
    MaxFaults = 1
SPECIFICATION Spec
INVARIANTS
    CheckpointLosesNothing
    BoundaryLosesNothing
    RoomOrder
    NoHistory
