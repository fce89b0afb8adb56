SPECIFICATION Spec
CONSTANTS
    Here = Here
    Peer = Peer
    NoGesture = "single"
    Kinds <- Writes
    Depth = 1
    Retention = 0
    Between = 2
    MaxWrites = 3
    MaxTime = 1
    MaxRestarts = 1
CHECK_DEADLOCK FALSE
INVARIANTS
    TypeOK
    FloorCoversCut
    HistoryKept
    CountsOn
PROPERTIES
    ServedWhole
