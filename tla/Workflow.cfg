SPECIFICATION FairSpec
CONSTANTS
    u1 = u1
    u2 = u2
    draft = draft
    review = review
    ask = ask
    done = done
    next = next
    back = back
    None = None
    States = {draft, review, ask, done}
    Events = {next, back}
    Entry = draft
    Edges <- ReviewEdges
    Terminal = {}
    MaxVisits <- VisitLimits
    OnMaxVisits <- Redirects
    MaxTotalVisits = 5
    MaxToolCalls = 0
    MaxHistory = 3
    Transient = {ask}
    External = {ask}
    Paused = {ask}
    Calls = {u1, u2}
    Convs = {1, 2, 3, 4, 5, 6, 7, 8, 9}
    MaxRounds = 2
    MaxFaults = 2
INVARIANTS
    MachineConsistent
    StoreConsistent
    TurnsConsistent
PROPERTIES
    EveryCallReturns
CHECK_DEADLOCK FALSE
