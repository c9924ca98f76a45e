SPECIFICATION RuntimeSpec
CONSTANTS
    Tasks = {t1, t2}
    Callers = {c1, c2}
    MaxLoads = 2
INVARIANTS
    NoUseAfterFree
CHECK_DEADLOCK FALSE
