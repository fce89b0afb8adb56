SPECIFICATION Spec
CONSTANTS
    Rows <- AllRows
    Versions <- SavedVersions
    Masters <- SpeedMasters
    Kept <- SpeedMasters
    MaxWrites = 4
    MaxFaults = 0
    MaxCrashes = 1
CHECK_DEADLOCK FALSE
CONSTRAINT NothingCutShort
PROPERTIES
    VersionStaysAsTaken
