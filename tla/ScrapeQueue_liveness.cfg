SPECIFICATION FairSpec
CONSTANTS
    Rids = {r1}
    NoRid = NoRid
    Workers = {w1, w2}
    MaxJobs = 2
    MaxCalls = 1
    MaxAttempts = 2
    BackoffBase = 1
    BackoffCap = 2
    StaleClaim = 1
PROPERTY JobSettles
CHECK_DEADLOCK FALSE
