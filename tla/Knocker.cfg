SPECIFICATION SpecC
CONSTANTS
    IPs = {a1, a2, a3}
    NoIP = zero
    KNOCK_SEQUENCE <- MCSequence
    MAX_CLIENTS = 2
    KNOCK_WINDOW = 2
    KNOCK_DEDUP_WINDOW = 1
    StartTime = 3
    MaxTime = 7
    MaxStepBack = 1
    FirstGap = 1
    RetransmitDepth = 1
SYMMETRY AddressSymmetry
INVARIANTS
    TypeOK
    TableInv
PROPERTIES
    LiveEntryKept
    ImplementsKnockProgress
    CleanRunCompletes
