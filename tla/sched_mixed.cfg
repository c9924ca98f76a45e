SPECIFICATION MixedSpec
CONSTANTS
    t1 = t1
    t2 = t2
    t3 = t3
    d1 = d1
    d2 = d2
    m1 = m1
    None = None
    Tasks = {t1, t2, t3}
    Devices = {d1, d2}
    Models = {m1}
    Kind <- KindMixed
    Allowed <- AllowedAll
    Model <- ModelM1
    Infos <- InfosMC
    MaxDeltas = 1
    ChanCap = 1
INVARIANTS
    RunByOneDevice

    
    
