SPECIFICATION Spec
CONSTANTS
    Inputs = {"u"}
    Derived = {"a", "b"}
    Deps <- TriDeps
    Order <- TriOrder
    Compute <- TriCompute
    Values = {0, 1, 2}
    Initial <- TriInitial
    Pending = Pending
    Impossible = Impossible
    Flaky = {"a"}
    FailureKinds = {"transient", "throttled", "broken"}
    Registered = 20
    MaxRetries = 2
    Callers = {"handler", "processor"}
    Drains = {"loop"}
    Overlap = FALSE
    Crashes = FALSE
    MaxPushes = 3
    MaxFlushes = 0
    MaxRestarts = 1
    MaxStamp = 12
INVARIANT QuietMeansFresh
CHECK_DEADLOCK FALSE
