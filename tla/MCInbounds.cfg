SPECIFICATION Spec
CONSTANTS
    a = a
    b = b
    c = c
    Inbounds = {a, b, c}
    Plain = {c}
    Path <- OwnPaths
    Ports = {80}
    MaxListeners = 2
    MaxTasks = 2
    MaxEdits = 1
    Bulk = TRUE
INVARIANTS
    TypeOK
    NoIdleListener
    NoOrphanPath
    DeletedIsNotServed
CHECK_DEADLOCK FALSE
