CONSTANTS
    MaxPids = 4
    MaxUpdates = 2
    MaxFaults = 2
SPECIFICATION Spec
INVARIANTS
    OneServer
    
    SourceKnown
PROPERTIES
    
    ServiceRestored
