SPECIFICATION P2PFairSpec
CONSTANTS
    MaxTries = 2
    MaxDeltas = 1
    ReqFrags = 2
INVARIANTS
    
    AckedIsProcessed

    
CHECK_DEADLOCK FALSE
