SPECIFICATION FairSpec
CONSTANTS
    r1 = r1
    r2 = r2
    Reqs <- TwoReqs
    Limit = 1
    Burst = 1
    Enabled = TRUE
    MaxAttempts = 2
    Window = "pre_first_chunk"
    BufferSize = 1
    MaxChunks = 1
    MaxRefills = 1
    Cancellable = {}
    UsageReqs = {}
    CallersStop = FALSE
INVARIANTS
    UpstreamWithinLimit
PROPERTIES
    EveryStreamEnds
CHECK_DEADLOCK FALSE
