SPECIFICATION SpecS
CONSTANTS
    IPs = {a1, a2}
    NoIP = zero
    KNOCK_SEQUENCE <- MCSequence
    MAX_CLIENTS = 1
    KNOCK_WINDOW = 1
    KNOCK_DEDUP_WINDOW = 1
    StartTime = 3
    MaxTime = 6
    MaxStepBack = 1
SYMMETRY AddressSymmetry
INVARIANTS
    EntryIsEarned
PROPERTIES
    CompletionIsGenuine
