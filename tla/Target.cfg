CONSTANTS
    Slots = {1, 2}
    TargetFaults <- AllFaults
    CounterRange = 8
    MaxRequests = 3
    Blocks = {1}
CHECK_DEADLOCK FALSE
SPECIFICATION FairSpec
INVARIANTS
    OneTaskPerSlot
    InFlightExact
    DrainedAtExit
PROPERTIES
    StopDrains
