SPECIFICATION Spec
CONSTANTS
    t1 = t1
    t2 = t2
    t3 = t3
    Turns = {t1, t2}
    MaxRounds = 2
    Modes = {"log", "append", "bulk"}
    Windows = {0, 1}
    Pinned = 2
    MaxFaults = 2
SYMMETRY TurnSymmetry
INVARIANTS
    ReturnedIsStored
    NothingTwice
    LogIsWhole
PROPERTIES
    StoreOnlyGrows
CHECK_DEADLOCK FALSE
