SPECIFICATION FairSpec
CONSTANTS
    Stations <- Three
    Leader = 2
    Fields = {"cue", "name"}
    Paths = {"name", "row", "create", "delete", "goNext", "off"}
    Cues = 2
    SyncedRow = FALSE
    Works <- LeaderRelays
    MaxWrites = 4
CHECK_DEADLOCK FALSE
INVARIANTS
    TypeOK
    KnownWithinClock
    ClockCountsOnlyWhatWasSeen
    Converged
PROPERTIES
    NeverCausallyOlder
    EventuallyOneShow
    ImplementsCausalStore
