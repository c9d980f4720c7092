SPECIFICATION Spec
CONSTANTS
    MaxConns = 2
    MaxDown = 2
    MaxUp = 2
    MaxPings = 1
    MaxFaults = 1
INVARIANTS
    TypeOK
    DownInOrder
    NothingLost
    UploadInOrder
PROPERTIES
    Delivered
    HandlersEnd
    BodyEndIsSeen
CHECK_DEADLOCK FALSE
