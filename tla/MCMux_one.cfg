SPECIFICATION FairSpec
CONSTANTS
    MaxStreams = 1
    MaxChunks <- TwoEach
    MaxFlight = 3
    Closers = {"client", "server"}
    Losses = 1
INVARIANTS
    TypeOK
    NoLostWakeup
    NoEntryLeaks
PROPERTIES
    ImplementsPipes
    EndIsSeen
CHECK_DEADLOCK FALSE
