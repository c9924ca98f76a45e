SPECIFICATION Spec
CONSTANTS
    u1 = u1
    u2 = u2
    w1 = w1
    w2 = w2
    None = None
    Users = {u1}
    Workers = {w1}
    MaxTarget = 2
    MaxCredit = 10
    BatchSize = 2
    MaxAttempts = 2
    Faults = {"reply"}
    MaxFaults = 1
INVARIANTS
    NoOverpayment
