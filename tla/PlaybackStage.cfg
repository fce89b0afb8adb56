SPECIFICATION Spec
CONSTANTS
    List <- Order
    CuesOf <- Stacks
    Keys = {"dim", "pan", "zoom"}
    Intensity = {"dim"}
    Levels = {"low", "high"}
    Htp = {"button", "chase"}
    Wraps = {"chase"}
    Follows = {"l1"}
    Stored <- Plot
    Edits <- Changes
    Leads = TRUE
    Flowed = {"dim", "pan"}
    Burst = 2
CHECK_DEADLOCK FALSE
INVARIANTS
    TypeOK
    NothingOffDrives
    EachOnce
    TrackedIsDriven
    StandingIsCurrent
    FollowsBelong
PROPERTIES
    HtpKeepsTheOthers
