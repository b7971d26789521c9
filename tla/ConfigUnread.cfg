SPECIFICATION CSpec
CONSTANTS
    MAX_KNOCK_SEQ_LEN = 4
    PortLists <- MCPortLists
    Numbers <- MCNumbers
    Names <- MCNames
    IFNAME_MAX = 8
    NameLen <- MCNameLen
    MaxLines = 2
INVARIANTS
    ExplicitFileWasRead
