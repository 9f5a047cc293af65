SPECIFICATION FairSpec
CONSTANTS
    t1 = t1
    t2 = t2
    c1 = c1
    s1 = s1
    s2 = s2
    NoTask = NoTask
    Tasks <- TwoTasks
    Contexts <- OneContext
    Subs <- NoSubs
    MaxArtifacts = 0
    SubscriberBuffer = 1
    MaxSubscribers = 1
    Streams <- OneTask
    Canceling <- OneTask
    Disconnecting <- OneTask
    TaskTTL = FALSE
    ConvTTL = FALSE
    MayShutdown = TRUE
INVARIANTS
    AnswersSettled
    DrainedShutdownClean
    ConversationReachable
PROPERTIES
    ImplementsLifecycle
    EveryTaskSettles
CHECK_DEADLOCK FALSE
