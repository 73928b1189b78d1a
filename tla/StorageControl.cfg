CONSTANTS
    Fanouts = {1, 3}
    Cores = 1
    MaxFaults = 2
SPECIFICATION Spec
CHECK_DEADLOCK FALSE
INVARIANTS
    WorkersExist
    Committed
    DataPathUp
PROPERTIES
    SessionCompletes
    
