SPECIFICATION Spec
CONSTANTS
    a = a
    b = b
    k1 = k1
    k2 = k2
    Clients = {a}
    Conns = {k1, k2}
    Owner <- OneClient
    Limits = {1}
    Sizes <- Chunks
    MaxBytes = 1
    MaxFaults = 0
    Panel = {}
INVARIANTS
    LimitKillsConnections
