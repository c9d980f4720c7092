SPECIFICATION Spec
CONSTANTS
    InboundTags = {"a", "b"}
    NewOutbounds <- SomeOutbounds
    NewRules <- SomeRules
    MaxJobs = 3
    MaxRequests = 6
    Weight <- SomeWeights
    MaxId = 3
    MaxKids = 3
    MaxFaults = 1
INVARIANTS
    TypeOK
    RouterIsCurrent
    NoOrphan
    XrayIsCurrent
CHECK_DEADLOCK FALSE
