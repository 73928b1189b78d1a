CONSTANTS
    t1 = t1
    c1 = c1
    c2 = c2
    Txns = {t1}
    Transaction0 = t1
    BlockLimit = 2
    RecoverFreq = 0
    WriteFlow = TRUE
    Junk <- NoContent
    GgaFaults = {}
    Clients = {c1}
    Requests <- WholeRequests
    MaxOps = 1
    MaxLoad = 2
    IoError = TRUE
CHECK_DEADLOCK FALSE
SPECIFICATION Spec
PROPERTIES ErrorKept
