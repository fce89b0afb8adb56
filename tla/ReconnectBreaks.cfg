SPECIFICATION FairSpec
CONSTANTS
    Leader = 2
    Follower = 1
    Persisted <- Cue
    Synced <- NoPaths
    Shared = 4
    Plans <- Breaks
    MaxWrites = 2
    MaxLinks = 2
    MaxRestarts = 1
CHECK_DEADLOCK FALSE
INVARIANT
    NumbersUsedOnce
PROPERTIES
    LeaderMovesForward
    LinkSettles
