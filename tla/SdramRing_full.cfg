SPECIFICATION Spec
CONSTANTS
    Base = 0
    End = 4
    SinkDepth = 2
    HostBurst = 2
    Modulus = 9
    Load = 8
    Stops = FALSE
PROPERTIES NoSelfCatch
