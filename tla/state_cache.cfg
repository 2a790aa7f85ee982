CONSTANTS
    Handle = {h1}
    NoHandle = NoHandle
    Cache = Cache
    NoEntry = NoEntry
    Disk <- MCDisk
    Msg = {m1}
    Room = {r1}
    Cursor = {c1}
    Duration = {0}
    PowerLoss = TRUE
    MaxTime = 1
    MaxAttempts = 1
    MaxLog = 3
SPECIFICATION CacheSpec
INVARIANTS
    CacheIsPrefix
    CacheGuarded
PROPERTIES
    LocksReleased
