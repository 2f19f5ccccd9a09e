SPECIFICATION FairSpec
CONSTANTS
    Addrs = {a1, a2}
    Values = {v1, v2}
INVARIANTS TypeOK WriteOnce
PROPERTIES AccessDone AccessEnds
