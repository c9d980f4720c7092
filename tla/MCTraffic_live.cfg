SPECIFICATION FairSpec
CONSTANTS
    a = a
    b = b
    k1 = k1
    k2 = k2
    Clients = {a}
    Conns = {k1, k2}
    Owner <- OneClient
    Limits = {0, 2}
    Sizes <- Chunks
    MaxBytes = 2
    MaxFaults = 0
    Panel = {"enable", "limit", "delete"}
PROPERTIES
    OverLimitIsCut
