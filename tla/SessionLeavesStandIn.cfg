SPECIFICATION Spec
CONSTANTS
    Stations <- Three
    Home = 2
    Links <- Places
    Plans <- LeavesAStandIn
    MaxFaults = 1
    Timely = TRUE
CHECK_DEADLOCK FALSE
INVARIANTS
    LeavingIsFinal
