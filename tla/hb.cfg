SPECIFICATION FairSpec
CONSTANTS
    p1 = p1
    p2 = p2
    gpuA = gpuA
    gpuB = gpuB
    None = None
    Procs = {p1, p2}
    Gpus <- GpusMC
    Times <- TimesMC
    DaySecs = 4
    Interval = 4
    HourSecs = 1
    BatchSize = 2
    ChanCap = 1
    MaxBeats = 2
    MaxFaults = 1
INVARIANTS
    OncePerBucket
    AllOrNothing
PROPERTIES
    PointsBecomeFinal
    ReadIsProcessed
