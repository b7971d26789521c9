SPECIFICATION FSpec
CONSTANTS
    IPs = {a1, a2, a3}
    NoIP = zero
    Failing = {"-N", "-F", "-C_INPUT", "-I_INPUT", "-I", "-D", "-D_INPUT", "-X"}
    Unreported = {"-F", "-I_INPUT", "-I", "-D", "-D_INPUT"}
    MAX_CLIENTS = 2
    ACCESS_TIMEOUT = 1
    MAX_EXPIRY_PER_TICK = 1
    MaxTime = 2
    MaxRuns = 2
    MaxRules = 2
    MayCrash = TRUE
SYMMETRY AddressSymmetry
INVARIANTS
    FTypeOK
    RulesMatchGrants
    OperatorJumpKept
    StoppedMeansClosed
PROPERTIES
    NoEarlyExpiry
CHECK_DEADLOCK FALSE
