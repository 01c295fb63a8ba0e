\* The clients of a panel and an automatic calibration.
CONSTANTS
    panel = panel
    calibration = calibration
    t1 = t1
    t2 = t2
    Source <- Clients
    Calibration <- Calibrations
    NoSource = NoSource
    NoTag = NoTag
    Tag <- Tags
    Limits <- Mixes
    MaxSessions = 2
    MaxRevision = 3
    MaxJobs = 2
    MaxSends = 2
    MaxWindow = 3
    MaxRestarts = 1
SPECIFICATION Spec
INVARIANTS TypeOK AccountsAreTrue OwnerExclusive WindowOfOneSession
PROPERTIES JumpChecked NoSendAfterRelease ImplementsRegister OwnerLetsGo
CHECK_DEADLOCK FALSE
