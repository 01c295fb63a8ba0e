CONSTANTS
    step = step
    smooth = smooth
    avoiding = avoiding
    before = before
    after = after
    Session <- Sessions
    NoSession = NoSession
    Cmd <- Identities
    NoCmd = NoCmd
    NoConfig = NoConfig
    Config <- Configurations
    Smooth <- SmoothOnes
    Avoiding <- AvoidingOnes
    Missions <- QuietMissions
SPECIFICATION Spec
PROPERTIES NoSilentDrop
CHECK_DEADLOCK FALSE
