SPECIFICATION Spec
CONSTANTS
    Modes = {"pool", "direct"}
    BaseLens <- DefaultSettings
    UserAgents = {0}
    MaxPayload = 2
    MaxToggles = 0
INVARIANTS
    PoolIsServed
CHECK_DEADLOCK FALSE
