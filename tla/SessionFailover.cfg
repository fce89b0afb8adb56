SPECIFICATION FairSpec
CONSTANTS
    Stations <- Three
    Home = 2
    Links <- Places
    Plans <- Failover
    MaxFaults = 1
    Timely = TRUE
CHECK_DEADLOCK FALSE
INVARIANTS
    TypeOK
    FollowsADriver
    OneDriver
    AdvertisedWhileLeading
PROPERTIES
    FailoverForgetsNothing
    ComesHome
