SPECIFICATION Spec
CONSTANTS
    Leader = 2
    Follower = 1
    Persisted <- Cue
    Synced <- Live
    Shared = 4
    Plans <- Returns
    MaxWrites = 2
    MaxLinks = 2
    MaxRestarts = 1
CHECK_DEADLOCK FALSE
INVARIANTS
    Agreed
    WorkHandedOver
    OneRule
