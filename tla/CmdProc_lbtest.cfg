SPECIFICATION FairSpec
CONSTANTS
    MaxSize = 2
    None = None
INVARIANTS TypeOK NoFault NoHangingPacket
PROPERTIES PortSpec CallReturns
