CONSTANTS
    step = step
    smooth = smooth
    avoiding = avoiding
    before = before
    after = after
    Session <- Sessions
    NoSession = NoSession
    Cmd <- Identities
    NoCmd = NoCmd
    NoConfig = NoConfig
    Config <- Configurations
    Smooth <- SmoothOnes
    Avoiding <- AvoidingOnes
    Missions <- OutageMissions
SPECIFICATION Spec
PROPERTIES OutageLands
CHECK_DEADLOCK FALSE
