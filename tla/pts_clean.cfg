SPECIFICATION Spec
CONSTANTS
    u1 = u1
    u2 = u2
    w1 = w1
    w2 = w2
    None = None
    Users = {u1, u2}
    Workers = {w1, w2}
    MaxTarget = 2
    MaxCredit = 10
    BatchSize = 1
    MaxAttempts = 2
    Faults = {"refuse", "db", "crash"}
    MaxFaults = 2
SYMMETRY UserWorkerSymmetry
INVARIANTS
    OneOpenRow
    NoOverpayment
PROPERTIES
    LedgerSpec
