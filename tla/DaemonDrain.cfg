SPECIFICATION LullSpec
CONSTANTS
    QUEUE_CAPACITY = 2
    SocketBuffer = 1
PROPERTIES
    ExpiryIsChecked
