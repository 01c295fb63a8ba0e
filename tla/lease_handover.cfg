\* Two stations contend for one vehicle.
CONSTANTS
    g1 = g1
    g2 = g2
    Ground <- Stations
    NoSource = NoSource
    MaxSeq = 2
    MaxRestarts = 0
    LossyReplies = TRUE
SPECIFICATION Spec
INVARIANTS ClockFollowsOwner
PROPERTIES ImplementsLeaseAuthority
CHECK_DEADLOCK FALSE
