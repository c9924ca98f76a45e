SPECIFICATION PartSpec
CONSTANTS
    t1 = t1
    t2 = t2
    c1 = c1
    c2 = c2
    m1 = m1
    m2 = m2
    lm = lm
    r1 = r1
    r2 = r2
    r3 = r3
    Tasks = {t1, t2}
    Callers = {c1, c2}
    MaxLoads = 2
    MaxStarts = 2
    MaxStreams = 2
    MaxFails = 2
    FileBlocks = 5
    ChunkBlocks = 2
    ParallelChunks = 3
    MaxAttempts = 2
    MaxFaults = 3
    PodModels = {m1, m2}
    LocalModel = lm
    MaxSessions = 3
    LocalRequests = {r1, r2, r3}
    MaxGenerations = 2
    MaxSse = 1
    PieceChannel = 1
    MaxPieces = 2
    MaxText = 4
    MaxToken = 2
    MaxBytes = 2
INVARIANTS
    StopIsForRunning
    StatusHonest
    StoppedIsQuiet
    ResumeSucceeds
    
    
PROPERTIES
    
    
    StopEndsThreads
    
    
CHECK_DEADLOCK FALSE
