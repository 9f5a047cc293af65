SPECIFICATION Spec
CONSTANTS
    t1 = t1
    t2 = t2
    t3 = t3
    Turns = {t1, t2}
    MaxRounds = 2
    Modes = {"log"}
    Windows = {1}
    Pinned = 2
    MaxFaults = 0
INVARIANTS
    EveryRoundIsLogged
CHECK_DEADLOCK FALSE
