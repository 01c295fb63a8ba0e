CONSTANTS
    Ttl = 1
    Skew = 1
    MaxDelay = 2
    Offsets <- ClockOffsets
    MaxTime = 4
SPECIFICATION Spec
INVARIANTS TypeOK NoStaleCommand NoFreshRefusal
CHECK_DEADLOCK FALSE
