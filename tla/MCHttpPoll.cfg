SPECIFICATION Spec
CONSTANTS
    MaxPolls = 2
    MaxStale = 1
    MaxDown = 2
    MaxUp = 2
    Batch = 1
    MaxFaults = 1
INVARIANTS
    TypeOK
    NoStuckPoll
    NothingLost
    InOrderAlone
    UploadInOrder
PROPERTIES
    Delivered
CHECK_DEADLOCK FALSE
