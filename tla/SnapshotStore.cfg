\* Every setup, two versions, two calls of the application and one fault.
CONSTANTS
    Setup <- EverySetup
    MaxVersion = 2
    MaxCalls = 2
    MaxFaults = 1
SPECIFICATION FairSpec
INVARIANTS
    TypeOK
    Persisted
PROPERTIES
    MemoryConverges
    WatcherFollows
