CONSTANTS
    Slots = {1, 2}
    RelayFaults <- AllFaults
    MaxRequests = 3
    ClientReceives = 1
CHECK_DEADLOCK FALSE
SPECIFICATION FairSpec
INVARIANTS
    OneTaskPerBuffer
    Conserved
PROPERTIES
    AllAnswered
