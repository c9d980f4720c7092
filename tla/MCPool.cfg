SPECIFICATION Spec
CONSTANTS
    Size = 2
    MaxSess = 3
    Socks = {"c"}
    Stdio = {"d"}
    MaxFaults = 1
INVARIANTS
    TypeOK
    EntryMatchesSession
    ActiveCountsStreams
PROPERTIES
    SlotIsRetried
    DeadTunnelEnds
CHECK_DEADLOCK FALSE
