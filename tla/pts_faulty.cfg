SPECIFICATION FairSpec
CONSTANTS
    u1 = u1
    u2 = u2
    w1 = w1
    w2 = w2
    None = None
    Users = {u1}
    Workers = {w1, w2}
    MaxTarget = 3
    MaxCredit = 2
    BatchSize = 2
    MaxAttempts = 2
    Faults = {"refuse", "reply", "db", "crash", "lock"}
    MaxFaults = 2
INVARIANTS
    SyncedWasGranted
PROPERTIES
    PaidOrParked
