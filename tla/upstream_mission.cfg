CONSTANTS
    Address <- Addresses
    OutboundLimit = 1
    MaxUpsets = 2
    MaxTickets = 8
    MaxPoints = 2
    Limits <- Mixes
SPECIFICATION Spec
INVARIANTS TypeOK RetainedKept CompletionTruthful PointsInOrder LandPreempts StagesInOrder StandbyWithheld
PROPERTIES RetainedSent
CHECK_DEADLOCK FALSE
