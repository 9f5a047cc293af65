SPECIFICATION FairSpec
CONSTANTS
    s1 = s1
    r1 = r1
    r2 = r2
    k1 = k1
    c1 = c1
    Calls = {c1}
    Messages = {{c1}}
    Gated = {c1}
    Senders = {s1}
    Reviewers = {r1, r2}
    Closers = {k1}
    MaxPending = 1
    AddMayFail = TRUE
    InputCap = 1
    OutCap = 1
    MaxBuffered = 1
    None = None
INVARIANTS
    SendersNeverPanic
    ReviewHonoured
PROPERTIES
    ImplementsApproval
    EveryoneReturns
CHECK_DEADLOCK FALSE
