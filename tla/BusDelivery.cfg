SPECIFICATION FairSpec
CONSTANTS
    l1 = l1
    e1 = e1
    e2 = e2
    e3 = e3
    w1 = w1
    w2 = w2
    c1 = c1
    Listeners = {l1}
    Global = {}
    Topic <- Topics
    Events = {e1, e2, e3}
    Type <- Types
    Closers = {c1}
    Workers = {w1, w2}
    BufferSize = 1
    MaxLeakCount = 1
    NoEvent = NoEvent
    NoListener = NoListener
INVARIANTS
    PublishNeverPanics
    DispatchExact
    CleanCloseDelivers
PROPERTIES
    EveryCloseReturns
CHECK_DEADLOCK FALSE
