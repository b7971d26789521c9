SPECIFICATION FSpec
CONSTANTS
    IPs = {a1, a2, a3}
    NoIP = zero
    Failing = {}
    Unreported = {}
    MAX_CLIENTS = 2
    ACCESS_TIMEOUT = 2
    MAX_EXPIRY_PER_TICK = 1
    MaxTime = 4
    MaxRuns = 2
    MaxRules = 2
    MayCrash = TRUE
SYMMETRY AddressSymmetry
INVARIANTS
    ShutdownRemovesChain
CHECK_DEADLOCK FALSE
