SPECIFICATION Spec
CONSTANTS
    c1 = c1
    c2 = c2
    s1 = s1
    a1 = a1
    Callers = {c1, c2}
    Clients = {1, 2, 3, 4}
    MaxRetries = 1
    Transports = {"stdio", "sse"}
    None = None
    Servers = {s1}
    Admins = {a1}
    Limits = {0, 1, 2}
INVARIANTS
    AnswersMatch
    NoOrphan
    WithinLimit
SYMMETRY Symmetry
CHECK_DEADLOCK FALSE
