SPECIFICATION LullSpec
CONSTANTS
    QUEUE_CAPACITY = 2
    SocketBuffer = 1
INVARIANTS
    DTypeOK
    NoUseAfterRelease
    NothingLeftBehind
PROPERTIES
    FailedStartIsReported
    StopsWhenTold
    
