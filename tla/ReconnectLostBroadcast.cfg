SPECIFICATION Spec
CONSTANTS
    Leader = 2
    Follower = 1
    Persisted <- Cue
    Synced <- NoPaths
    Shared = 4
    Plans <- MeetingAtWork
    MaxWrites = 1
    MaxLinks = 1
    MaxRestarts = 0
CHECK_DEADLOCK FALSE
INVARIANT
    Agreed
