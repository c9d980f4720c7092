SPECIFICATION FairSpec
CONSTANTS
    Modes = {"pool", "direct"}
    BaseLens <- DefaultSettings
    UserAgents <- SomeAgents
    MaxPayload = 3
    MaxToggles = 2
INVARIANTS
    TypeOK
    PayloadIntact
PROPERTIES
    DirectIsServed
CHECK_DEADLOCK FALSE
