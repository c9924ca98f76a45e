SPECIFICATION FairSpec
CONSTANTS
    c1 = c1
    c2 = c2
    c3 = c3
    d1 = d1
    d2 = d2
    None = None
    Devices = {d1}
    Conns = {c1, c2}
    MaxFaults = 1
PROPERTIES
    ReconnectsWhenLost
