SPECIFICATION FairSpec
CONSTANTS
    Base = 0
    End = 4
    SinkDepth = 3
    HostBurst = 2
    Modulus = 9
    Load = 7
    Stops = TRUE
INVARIANTS TypeOK InStep
PROPERTIES QueueSpec BurstsDelivered
