CONSTANTS
    Msg = {m1}
    NoMsg = NoMsg
    Task = {t1, t2}
    Lease = 2
    HandlerTimeout = 1
    WebexTimeout = 2
    RetryAfter = {2}
    MaxIds = 1
    MaxTime = 3
SPECIFICATION Spec
INVARIANTS
    AtMostOneReply
