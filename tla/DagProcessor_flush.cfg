SPECIFICATION Spec
CONSTANTS
    Inputs = {"u"}
    Derived = {"a", "b"}
    Deps <- TriDeps
    Order <- TriOrder
    Compute <- TriCompute
    Values = {0, 1, 2}
    Initial <- TriInitial
    Pending = Pending
    Impossible = Impossible
    Flaky = {"a"}
    FailureKinds = {"transient"}
    Registered = 20
    MaxRetries = 2
    Callers = {"handler", "processor"}
    Drains = {"loop", "flush"}
    Overlap = TRUE
    Crashes = FALSE
    MaxPushes = 2
    MaxFlushes = 1
    MaxRestarts = 0
    MaxStamp = 12
INVARIANTS FlushIsHarmless RowIsMemory
PROPERTY RowsAdvance
CHECK_DEADLOCK FALSE
