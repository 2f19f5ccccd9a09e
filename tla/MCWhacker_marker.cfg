SPECIFICATION Spec
CONSTANTS
    Data = {d1}
    Timestamps = {t1}
    None = None
    Depth = 32
    MaxPacket = 14
PROPERTY MarkerKept
