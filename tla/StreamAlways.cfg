SPECIFICATION Spec
CONSTANTS
    r1 = r1
    r2 = r2
    Reqs <- TwoReqs
    Limit = 1
    Burst = 1
    Enabled = TRUE
    MaxAttempts = 2
    Window = "always"
    BufferSize = 2
    MaxChunks = 1
    MaxRefills = 0
    Cancellable = {r1}
    UsageReqs = {r1}
    CallersStop = TRUE
INVARIANTS
    SlotConservation
    RedialsWithinBudget
    NoChunkLost
    ClosingChunkIsLast
CHECK_DEADLOCK FALSE
