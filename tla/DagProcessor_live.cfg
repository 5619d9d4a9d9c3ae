SPECIFICATION FairSpec
CONSTANTS
    Inputs = {"u"}
    Derived = {"a", "b"}
    Deps <- TriDeps
    Order <- TriOrder
    Compute <- TriCompute
    Values = {0, 1, 2}
    Initial <- TriUnset
    Pending = Pending
    Impossible = Impossible
    Flaky = {"a"}
    FailureKinds = {"transient"}
    Registered = 2
    MaxRetries = 3
    Callers = {"handler"}
    Drains = {"loop"}
    Overlap = TRUE
    Crashes = TRUE
    MaxPushes = 2
    MaxFlushes = 0
    MaxRestarts = 1
    MaxStamp = 12
PROPERTY DrainSettles
CHECK_DEADLOCK FALSE
