CONSTANTS
    Msg = {m1, m2}
    NoMsg = NoMsg
    Task = {t1, t2}
    Lease = 2
    HandlerTimeout = 0
    WebexTimeout = 1
    RetryAfter = {1}
    MaxIds = 1
    MaxTime = 3
SPECIFICATION FairSpec
INVARIANTS
    AtMostOneReply
PROPERTIES
    PermitReturned
