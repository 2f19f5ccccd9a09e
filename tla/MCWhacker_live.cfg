SPECIFICATION TightSpec
CONSTANTS
    Data = {d1}
    Timestamps = {t1}
    None = None
    Depth = 20
    MaxPacket = 2
PROPERTIES ItemTaken MarkerSent
