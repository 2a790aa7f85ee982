CONSTANTS
    Conn = {c1, c2, c3}
    MaxEvents = 2
    MaxJoin = 2
SPECIFICATION FairSpec
INVARIANTS
    QuotaExact
    NoReplyCutOff
PROPERTIES
    StopsAfterQuota
