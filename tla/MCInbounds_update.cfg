SPECIFICATION Spec
CONSTANTS
    a = a
    b = b
    c = c
    Inbounds = {a}
    Plain = {}
    Path <- OwnPaths
    Ports = {80}
    MaxListeners = 2
    MaxTasks = 1
    MaxEdits = 1
    Bulk = FALSE
INVARIANTS
    UpdatedIsServed
CHECK_DEADLOCK FALSE
