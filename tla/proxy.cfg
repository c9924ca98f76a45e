SPECIFICATION FairSpec
CONSTANTS
    None = None
    Empty = Empty
    Users = {u1, u2}
    Devices = {d1}
    Models = {m1}
    Bodies <- BodiesMC
    MaxFaults = 1

    
PROPERTIES
    TurnedAwayOnlyEarly
    RoutingEnds
