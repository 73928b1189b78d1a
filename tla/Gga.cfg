CONSTANTS
    t1 = t1
    t2 = t2
    c1 = c1
    c2 = c2
    Txns = {t1, t2}
    Transaction0 = t1
    BlockLimit = 2
    RecoverFreq = 2
    WriteFlow = TRUE
    Junk <- NoContent
    GgaFaults = {}
    Clients = {c1, c2}
    Requests <- MixedRequests
    MaxOps = 1
    MaxLoad = 2
    IoError = FALSE
CHECK_DEADLOCK FALSE
SPECIFICATION FairSpec
INVARIANTS
    CountersExact
    SuccessIsTrue
PROPERTIES
    AllReplied
