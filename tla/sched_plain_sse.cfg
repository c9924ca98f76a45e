SPECIFICATION Spec
CONSTANTS
    t1 = t1
    t2 = t2
    t3 = t3
    d1 = d1
    d2 = d2
    m1 = m1
    None = None
    Tasks = {t1, t2}
    Devices = {d1}
    Models = {m1}
    Kind <- KindPlainSse
    Allowed <- AllowedAll
    Model <- ModelM1
    Infos <- InfosTwo
    MaxDeltas = 2
    ChanCap = 2
INVARIANTS
    TypeOK
    StreamWellFormed
    SuccessIsComplete
    WaiterHasSender
    NoLeak
    UsageOwned
