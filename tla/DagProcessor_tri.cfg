SPECIFICATION Spec
CONSTANTS
    Inputs = {"u"}
    Derived = {"a", "b"}
    Deps <- TriDeps
    Order <- TriOrder
    Compute <- TriCompute
    Values = {0, 1, 2}
    Initial <- TriUnset
    Pending = Pending
    Impossible = Impossible
    Flaky = {"a"}
    FailureKinds = {"transient"}
    Registered = 20
    MaxRetries = 2
    Callers = {"handler"}
    Drains = {"loop"}
    Overlap = TRUE
    Crashes = TRUE
    MaxPushes = 3
    MaxFlushes = 0
    MaxRestarts = 1
    MaxStamp = 12
INVARIANTS NoFalseFreshness PendingIsOwned RetryHasBudget
CHECK_DEADLOCK FALSE
