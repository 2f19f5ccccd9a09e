SPECIFICATION AnySpec
CONSTANTS
    Data = {d1}
    Timestamps = {t1}
    None = None
    Depth = 24
    MaxPacket = 5
INVARIANTS TypeOK NoOverrun RoomWhenDrained
PROPERTY StreamSpec
