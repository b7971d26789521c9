SPECIFICATION SSpec
CONSTANTS
    IPs = {a1, a2}
    NoIP = zero
    KNOCK_SEQUENCE <- MCSequence
    MAX_CLIENTS = 1
    KNOCK_WINDOW = 1
    KNOCK_DEDUP_WINDOW = 1
    StartTime = 0
    MaxTime = 3
    MaxStepBack = 1
    QUEUE_CAPACITY = 1
    ACCESS_TIMEOUT = 1
    MAX_EXPIRY_PER_TICK = 1
SYMMETRY AddressSymmetry
INVARIANTS
    STypeOK
    AccessIsBounded
PROPERTIES
    ImplementsAccessService
