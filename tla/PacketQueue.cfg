SPECIFICATION QFairSpec
CONSTANTS
    Events = {e1, e2}
    NoEvent = none
    Consumers = {c1, c2}
    QUEUE_CAPACITY = 2
    DROP_REPORT_INTERVAL = 2
    StartTime = 2
    MaxTime = 4
    MaxDrops = 3
INVARIANTS
    QTypeOK
    RingInv
    NoLostWakeup
    NobodySleepsInShutdown
PROPERTIES
    ImplementsBoundedQueue
    WaitReturnsEventually
