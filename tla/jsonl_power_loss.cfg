CONSTANTS
    Handle = {h1}
    NoHandle = NoHandle
    Msg = {m1}
    Room = {}
    Cursor = {}
    Duration = {1}
    PowerLoss = TRUE
    MaxTime = 1
    MaxAttempts = 1
    MaxLog = 3
SPECIFICATION Spec
INVARIANTS
    AckedIsDurable
