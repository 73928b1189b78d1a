CONSTANTS
    t1 = t1
    t2 = t2
    t3 = t3
    Txns = {t1, t2, t3}
    LocalCount = 3
    StorageCount = 4
    TargetOps = 4
    RunType = "read_write_data_validity"
    InitiatorFaults <- AllFaults
    ServiceFaults = {"io_error"}
SYMMETRY Symmetry
CHECK_DEADLOCK FALSE
SPECIFICATION Spec
INVARIANTS
    CallbacksExact
    MemoryExclusive
    ExitQuiescent
