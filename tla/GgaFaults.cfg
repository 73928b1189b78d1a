CONSTANTS
    t1 = t1
    c1 = c1
    c2 = c2
    Txns = {t1}
    Transaction0 = t1
    BlockLimit = 1
    RecoverFreq = 1
    WriteFlow = TRUE
    Junk <- NoContent
    GgaFaults <- AllFaults
    Clients = {c1}
    Requests <- WholeRequests
    MaxOps = 2
    MaxLoad = 2
    IoError = TRUE
CHECK_DEADLOCK FALSE
SPECIFICATION Spec
INVARIANTS CountersExact OneUserPerContext SuccessIsTrue
PROPERTIES ErrorKept
