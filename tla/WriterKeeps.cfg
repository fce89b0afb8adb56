SPECIFICATION Spec
CONSTANTS
    Rows <- AllRows
    Versions <- SavedVersions
    Masters <- SpeedMasters
    Kept <- SpeedMasters
    MaxWrites = 3
    MaxFaults = 1
    MaxCrashes = 1
CHECK_DEADLOCK FALSE
INVARIANTS
    TypeOK
    ToldIsOnDisk
    DiskFollows
    CopyHoldsItsRow
