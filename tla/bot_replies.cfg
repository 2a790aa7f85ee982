CONSTANTS
    Msg = {m1, m2}
    NoMsg = NoMsg
    Task = {t1, t2}
    Lease = 3
    HandlerTimeout = 1
    WebexTimeout = 1
    RetryAfter = {1}
    MaxIds = 2
    MaxTime = 6
SPECIFICATION Spec
SYMMETRY Symmetry
INVARIANTS
    TypeOK
    OneAttempt
    AtMostOneReply
    MemoryIsDurable
PROPERTIES
    NoEarlyRetry
