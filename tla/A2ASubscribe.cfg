SPECIFICATION Spec
CONSTANTS
    t1 = t1
    t2 = t2
    c1 = c1
    s1 = s1
    s2 = s2
    NoTask = NoTask
    Tasks <- OneTask
    Contexts <- OneContext
    Subs <- TwoSubs
    MaxArtifacts = 1
    SubscriberBuffer = 1
    MaxSubscribers = 1
    Streams <- OneTask
    Canceling <- OneTask
    Disconnecting <- OneTask
    TaskTTL = TRUE
    ConvTTL = TRUE
    MayShutdown = FALSE
SYMMETRY SubSymmetry
INVARIANTS
    SubscriberSeesRun
    StreamsEndClean
CHECK_DEADLOCK FALSE
