CONSTANTS
    N = 3
    Ops = 2
    WorkersFail = TRUE
SPECIFICATION FairSpec

    
PROPERTIES
    RunReturns
