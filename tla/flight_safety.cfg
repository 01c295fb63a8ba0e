CONSTANTS
    step = step
    smooth = smooth
    avoiding = avoiding
    before = before
    after = after
    Session <- Sessions
    NoSession = NoSession
    Cmd <- Identities
    NoCmd = NoCmd
    NoConfig = NoConfig
    Config <- Configurations
    Smooth <- SmoothOnes
    Avoiding <- AvoidingOnes
    Missions <- SafetyMissions
SPECIFICATION Spec
INVARIANTS TypeOK RawSupervised LandHandsOff TaskSupervised FailsafeNotMasked LandIsLast LockFollowsTask LatchHolds
PROPERTIES LockStable AttitudeAuthorized OnlyOperatorsEngage UnhealthyLetsGo
CHECK_DEADLOCK FALSE
