CONSTANTS
    step = step
    smooth = smooth
    avoiding = avoiding
    before = before
    after = after
    Session <- Sessions
    NoSession = NoSession
    Cmd <- Identities
    NoCmd = NoCmd
    NoConfig = NoConfig
    Config <- Configurations
    Smooth <- SmoothOnes
    Avoiding <- AvoidingOnes
    Missions <- LivenessMissions
SPECIFICATION FairSpec
PROPERTIES LossLands LatchLands OutageLands NavTimeoutLands
CHECK_DEADLOCK FALSE
