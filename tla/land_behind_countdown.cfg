CONSTANTS
    Address <- Addresses
    OutboundLimit = 1
    MaxUpsets = 2
    MaxTickets = 8
    MaxPoints = 2
    Limits <- LandMixes
SPECIFICATION Spec
INVARIANT LandComesFirst
CHECK_DEADLOCK FALSE
