CONSTANTS
    Txns = {1, 2}
    RelaySlots = {1}
    TargetSlots = {1, 2}
    LocalCount = 2
    StorageCount = 2
    TargetOps = 2
    RunType = "read_write_data_validity"
    InitiatorFaults = {}
    RelayFaults = {}
    TargetFaults = {}
    CounterRange = 8
SPECIFICATION FairSpec
INVARIANTS
    MismatchIsReal
PROPERTIES
    ImplementsService
    AllEnd
