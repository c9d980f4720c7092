SPECIFICATION Spec
CONSTANTS
    a = a
    b = b
    k1 = k1
    k2 = k2
    Clients = {a}
    Conns = {k1, k2}
    Owner <- OneClient
    Limits = {2}
    Sizes <- Chunks
    MaxBytes = 2
    MaxFaults = 1
    Panel = {"disable", "delete", "reset", "bulk_disable", "expiry"}
SYMMETRY ConnSymmetry
INVARIANTS
    TypeOK
    Conservation
    PendingIsReachable
    RelayIsRegistered
    QuotaEnforced
CHECK_DEADLOCK FALSE
