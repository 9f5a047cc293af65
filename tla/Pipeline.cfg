SPECIFICATION FairSpec
CONSTANTS
    Stages <- MCStages
    Edges <- MCEdges
    Kind <- MCKind
    BufferSize = 1
    MaxElements = 2
    Closers = {"k1"}
INVARIANTS
    NobodyPanics
    ElementsAccounted
    CleanShutdownWaits
PROPERTIES
    EveryExecutionEnds
CHECK_DEADLOCK FALSE
