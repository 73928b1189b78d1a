CONSTANTS
    NumQueues = 2
    NumIoCtx = 2
    PendingMod = 16
    BindFails = TRUE
    CreateFails = TRUE
    Roles = {"SRC", "DST"}
    MaxUpdates = 3
    InitFails = TRUE
SPECIFICATION Spec
INVARIANTS
    IoOnLiveQueue
    SourceDoorbellsCounted
    CleanupAlone
PROPERTIES
    QueuesSettle
    ShutdownEnds
CHECK_DEADLOCK FALSE
