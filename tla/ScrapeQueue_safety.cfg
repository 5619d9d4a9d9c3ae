SPECIFICATION Spec
CONSTANTS
    Rids = {r1}
    NoRid = NoRid
    Workers = {w1, w2}
    MaxJobs = 2
    MaxCalls = 2
    MaxAttempts = 2
    BackoffBase = 2
    BackoffCap = 2
    StaleClaim = 2
SYMMETRY Symmetry
INVARIANTS
    TypeOK
    OneActiveJob
    StatusShowsActiveJob
    ClaimsBounded
    NoDoubleScrape
    DoneMeansSeeded
PROPERTIES
    FailedStaysFailed
    ImplementsLifecycle
CHECK_DEADLOCK FALSE
